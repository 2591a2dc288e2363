----------------------------- MODULE TaskProofs -----------------------------
(***************************************************************************)
(* Theorems about Task, for every number of coroutines, of task objects    *)
(* and of suspensions.                                                     *)
(***************************************************************************)
EXTENDS Task, FiniteSetTheorems, TLAPS

-----------------------------------------------------------------------------
\* The inductive invariants.

States == {"unborn", "running", "suspended", "done", "destroyed"}

\* Where threads are: a frame is in one place of one stack, unless a thread has
\* just resumed what another was inside of, and there it has neither ended nor
\* suspended.
InsideInv ==
    /\ stack \in [Threads -> Seq(Frames)]
    /\ state \in [Frames -> States]
    /\ \A f \in ended : f \in Frames /\ state[f] \in {"done", "destroyed"}
    /\ \A t \in Threads : \A i \in DOMAIN stack[t] :
           state[stack[t][i]] \in {"running", "destroyed"} /\ stack[t][i] \notin ended
    /\ \A t, u \in Threads : \A i \in DOMAIN stack[t], j \in DOMAIN stack[u] :
           stack[t][i] = stack[u][j] => (t = u /\ i = j) \/ (crashed /\ stack[t][i] \in doubled)

\* What the fields hold.
OwnTypes ==
    /\ state \in [Frames -> States]
    /\ holds \in [Objects -> Frames \cup {NoFrame}]
    /\ queued \in [Frames -> Nat] /\ sleeping \in [Frames -> Nat]
    /\ reaped \subseteq Frames

\* What has not been called is known to nobody, and what was called earlier has
\* the smaller number.
UnbornInv ==
    /\ \A f, g \in Frames : f < g /\ state[f] = "unborn" => state[g] = "unborn"
    /\ \A f \in Frames : state[f] = "unborn" => queued[f] = 0 /\ sleeping[f] = 0
    /\ \A o \in Objects : holds[o] # NoFrame => state[holds[o]] # "unborn"

\* A frame owns only what it called itself, and nothing before and after its life.
FrameInv ==
    /\ \A f \in Frames : state[f] \in {"unborn", "destroyed"} => holds[f] = NoFrame
    /\ \A f \in Frames : holds[f] # NoFrame => f < holds[f]

\* A frame that exists has one owner; a destroyed one has none, but for stop().
OwnerInv ==
    /\ \A f \in Frames : state[f] \in {"running", "suspended", "done"} =>
           \E o \in Objects : holds[o] = f /\ \A p \in Objects : holds[p] = f => p = o
    /\ \A f \in reaped : state[f] = "destroyed"
    /\ \A o \in Objects : holds[o] # NoFrame /\ state[holds[o]] = "destroyed" => holds[o] \in reaped

OwnInv == OwnTypes /\ UnbornInv /\ FrameInv /\ OwnerInv

-----------------------------------------------------------------------------
\* Where threads are

\* The list without its last element, and with one more.
LEMMA FrontOfStack ==
    ASSUME NEW S, NEW q \in Seq(S), q # <<>>
    PROVE  /\ Front(q) \in Seq(S) /\ Last(q) \in S
           /\ Len(q) \in DOMAIN q /\ q[Len(q)] = Last(q)
           /\ \A i \in DOMAIN Front(q) : i \in DOMAIN q /\ i # Len(q) /\ Front(q)[i] = q[i]
<1>1. Len(q) \in Nat /\ Len(q) > 0 /\ DOMAIN q = 1..Len(q)
  OBVIOUS
<1> QED  BY <1>1 DEF Front, Last

LEMMA PushedStack ==
    ASSUME NEW S, NEW q \in Seq(S), NEW f \in S
    PROVE  /\ Append(q, f) \in Seq(S)
           /\ \A i \in DOMAIN Append(q, f) :
                 \/ i \in DOMAIN q /\ Append(q, f)[i] = q[i]
                 \/ i = Len(q) + 1 /\ Append(q, f)[i] = f
OBVIOUS

\* No thread's stack changes: states do, but nobody who is inside suspends or ends.
LEMMA StacksStay ==
    ASSUME InsideInv, stack' = stack, ended' = ended, state' \in [Frames -> States],
           crashed => crashed', doubled \subseteq doubled',
           \A g \in Frames : state'[g] = state[g] \/ state'[g] = "destroyed"
    PROVE  InsideInv'
<1>1. \A t \in Threads : \A i \in DOMAIN stack[t] : stack[t][i] \in Frames
  BY DEF InsideInv
<1> QED  BY <1>1 DEF InsideInv

\* The innermost frame of a thread leaves, and may have ended.
LEMMA OneLeaves ==
    ASSUME InsideInv, NEW t \in Threads, NEW f \in Frames, OnTop(t, f), Leave(t),
           state' \in [Frames -> States], ended' \in {ended, ended \cup {f}},
           \A g \in Frames \ {f} : state'[g] = state[g] \/ state'[g] = "destroyed",
           f \in ended' => state'[f] \in {"done", "destroyed"}
    PROVE  InsideInv'
<1> DEFINE q == stack[t]
<1>1. q \in Seq(Frames) /\ q # <<>> /\ f = Last(q) /\ stack' = [stack EXCEPT ![t] = Front(q)] /\ ~crashed
  BY DEF InsideInv, OnTop, Leave
<1>2. /\ Front(q) \in Seq(Frames) /\ Len(q) \in DOMAIN q /\ q[Len(q)] = f
      /\ \A i \in DOMAIN Front(q) : i \in DOMAIN q /\ i # Len(q) /\ Front(q)[i] = q[i]
  BY <1>1, FrontOfStack
<1>3. stack' \in [Threads -> Seq(Frames)]
  BY <1>1, <1>2 DEF InsideInv
<1>4. ASSUME NEW u \in Threads, NEW i \in DOMAIN stack'[u]
      PROVE  i \in DOMAIN stack[u] /\ stack'[u][i] = stack[u][i] /\ stack[u][i] # f /\ stack[u][i] \in Frames
  <2>1. CASE u = t
    <3>1. stack'[u] = Front(q)
      BY <2>1, <1>1 DEF InsideInv
    <3> QED  BY <2>1, <3>1, <1>1, <1>2 DEF InsideInv
  <2>2. CASE u # t
    <3>1. stack'[u] = stack[u] /\ stack[u] \in Seq(Frames)
      BY <2>2, <1>1 DEF InsideInv
    <3>2. \A k \in DOMAIN stack[u] : stack[u][k] \in Frames
      BY <3>1
    <3>3. \A k \in DOMAIN stack[u] : stack[u][k] # q[Len(q)]
      BY <2>2, <1>1, <1>2 DEF InsideInv
    <3> QED  BY <3>1, <3>2, <3>3, <1>2
  <2> QED  BY <2>1, <2>2
<1> HIDE DEF q
<1>5. \A g \in ended' : g \in Frames /\ state'[g] \in {"done", "destroyed"}
  BY DEF InsideInv
<1>6. ASSUME NEW u \in Threads, NEW i \in DOMAIN stack'[u]
      PROVE  state'[stack'[u][i]] \in {"running", "destroyed"} /\ stack'[u][i] \notin ended'
  BY <1>4, <1>6 DEF InsideInv
<1>7. ASSUME NEW u \in Threads, NEW w \in Threads, NEW i \in DOMAIN stack'[u], NEW j \in DOMAIN stack'[w],
             stack'[u][i] = stack'[w][j]
      PROVE  u = w /\ i = j
  BY <1>4, <1>7 DEF InsideInv, OnTop
<1> QED  BY <1>3, <1>5, <1>6, <1>7 DEF InsideInv

\* A frame that was called or resumed is the innermost.
LEMMA OneEnters ==
    ASSUME InsideInv, ~crashed, NEW t \in Threads, NEW f \in Frames, state[f] \in {"unborn", "suspended"},
           stack' = [stack EXCEPT ![t] = Append(@, f)], ended' = ended,
           state' = [state EXCEPT ![f] = "running"]
    PROVE  InsideInv'
<1> DEFINE q == stack[t]
<1>1. /\ Append(q, f) \in Seq(Frames)
      /\ \A i \in DOMAIN Append(q, f) :
            \/ i \in DOMAIN q /\ Append(q, f)[i] = q[i]
            \/ i = Len(q) + 1 /\ Append(q, f)[i] = f
  <2>1. q \in Seq(Frames)
    BY DEF InsideInv
  <2> QED  BY <2>1, PushedStack
<1>2. stack' \in [Threads -> Seq(Frames)]
  BY <1>1 DEF InsideInv
<1>3. ASSUME NEW u \in Threads, NEW i \in DOMAIN stack'[u]
      PROVE  \/ u = t /\ i = Len(q) + 1 /\ stack'[u][i] = f
             \/ i \in DOMAIN stack[u] /\ stack'[u][i] = stack[u][i]
  <2>1. CASE u = t
    <3>1. stack'[u] = Append(q, f)
      BY <2>1 DEF InsideInv
    <3> QED  BY <2>1, <3>1, <1>1
  <2>2. CASE u # t
    BY <2>2 DEF InsideInv
  <2> QED  BY <2>1, <2>2
<1>4. \A u \in Threads : \A i \in DOMAIN stack[u] : stack[u][i] \in Frames /\ stack[u][i] # f
  BY DEF InsideInv
<1>5. /\ state' \in [Frames -> States] /\ state'[f] = "running" /\ f \notin ended
      /\ \A g \in Frames \ {f} : state'[g] = state[g]
  BY DEF InsideInv, States
<1> HIDE DEF q
<1>6. \A g \in ended' : g \in Frames /\ state'[g] \in {"done", "destroyed"}
  BY <1>5 DEF InsideInv
<1>7. ASSUME NEW u \in Threads, NEW i \in DOMAIN stack'[u]
      PROVE  state'[stack'[u][i]] \in {"running", "destroyed"} /\ stack'[u][i] \notin ended'
  BY <1>3, <1>4, <1>5, <1>7 DEF InsideInv
<1>8. ASSUME NEW u \in Threads, NEW w \in Threads, NEW i \in DOMAIN stack'[u], NEW j \in DOMAIN stack'[w],
             stack'[u][i] = stack'[w][j]
      PROVE  u = w /\ i = j
  BY <1>3, <1>4, <1>8 DEF InsideInv
<1> QED  BY <1>2, <1>5, <1>6, <1>7, <1>8 DEF InsideInv

LEMMA InsideInit ==
    ASSUME Init
    PROVE  InsideInv
<1>1. \A t \in Threads : stack[t] = <<>> /\ DOMAIN stack[t] = {}
  BY DEF Init
<1>2. stack \in [Threads -> Seq(Frames)] /\ state \in [Frames -> States]
  BY DEF Init, States
<1> QED  BY <1>1, <1>2 DEF Init, InsideInv

\* What the steps of bodies do to stacks.
LEMMA BodyInside ==
    ASSUME InsideInv, NEW t \in Threads, Body(t)
    PROVE  InsideInv'
<1> USE DEF States
<1>1. ASSUME NEW f \in Frames, End(t, f) PROVE InsideInv'
  <2>1. OnTop(t, f) /\ Leave(t) /\ ended' = ended \cup {f}
    BY <1>1 DEF End, Finish
  <2>2. /\ state' \in [Frames -> States] /\ state'[f] = "done"
        /\ \A g \in Frames \ {f} : state'[g] = state[g] \/ state'[g] = "destroyed"
    BY <1>1 DEF End, InsideInv
  <2> QED  BY <2>1, <2>2, OneLeaves
<1>2. ASSUME NEW f \in Frames, EndWithTask(t, f) PROVE InsideInv'
  <2>1. OnTop(t, f) /\ Leave(t) /\ ended' = ended \cup {f}
    BY <1>2 DEF EndWithTask, Finish
  <2>2. /\ state' \in [Frames -> States] /\ state'[f] = "done"
        /\ \A g \in Frames \ {f} : state'[g] = state[g]
    BY <1>2 DEF EndWithTask, InsideInv
  <2> QED  BY <2>1, <2>2, OneLeaves
<1>3. ASSUME NEW f \in Frames, AwaitResume(t, f) PROVE InsideInv'
  <2>1. /\ state' \in [Frames -> States] /\ stack' = stack /\ ended' = ended /\ ~crashed /\ doubled' = doubled
        /\ \A g \in Frames : state'[g] = state[g] \/ state'[g] = "destroyed"
    BY <1>3 DEF AwaitResume, Replace, InsideInv, OnTop, handleVars
  <2> QED  BY <2>1, StacksStay
<1>4. ASSUME NEW f \in Frames, NEW h, SuspendAnd(t, f, h) PROVE InsideInv'
  <2>1. OnTop(t, f) /\ Leave(t) /\ ended' = ended /\ f \notin ended
    BY <1>4 DEF SuspendAnd, OnTop, InsideInv
  <2>2. /\ state' \in [Frames -> States]
        /\ \A g \in Frames \ {f} : state'[g] = state[g]
    BY <1>4 DEF SuspendAnd, InsideInv
  <2> QED  BY <2>1, <2>2, OneLeaves
<1>5. ASSUME NEW f \in Frames, Yield(t, f) \/ Sleep(t, f) \/ Await(t, f) PROVE InsideInv'
  BY <1>4, <1>5 DEF Yield, Sleep, Await
<1>6. ASSUME NEW o, NEW f \in Frames, Call(t, o, f) PROVE InsideInv'
  BY <1>6, OneEnters DEF Call, Acts, OnTop
<1>7. ASSUME NEW o, RunTask(t, o) PROVE InsideInv'
  <2>1. /\ state' \in [Frames -> States] /\ stack' = stack /\ ended' = ended
        /\ ~crashed /\ doubled \subseteq doubled'
        /\ \A g \in Frames : state'[g] = state[g] \/ state'[g] = "destroyed"
    BY <1>7 DEF RunTask, Replace, InsideInv, Acts, OnTop, Hands
  <2> QED  BY <2>1, StacksStay
<1>8. CASE Stumble(t)
  BY <1>8, StacksStay DEF Stumble, frameVars, handleVars, InsideInv
<1> QED  BY <1>1, <1>2, <1>3, <1>5, <1>6, <1>7, <1>8 DEF Body

LEMMA InsideStep ==
    ASSUME InsideInv, [Next]_vars,
           \A e \in Executors, f \in Frames : Take(e, f) /\ state[f] = "running" => f \in doubled
    PROVE  InsideInv'
<1> USE DEF States
<1>1. ASSUME NEW o, NEW f \in Frames, Call(Client, o, f) PROVE InsideInv'
  BY <1>1, OneEnters DEF Call, Threads, Acts, OnTop
<1>2. ASSUME NEW v, NEW w, MoveAssign(v, w) \/ Drop(v) \/ RunTask(Client, v) PROVE InsideInv'
  <2>1. /\ state' \in [Frames -> States] /\ stack' = stack /\ ended' = ended
        /\ ~crashed /\ doubled \subseteq doubled'
        /\ \A g \in Frames : state'[g] = state[g] \/ state'[g] = "destroyed"
    BY <1>2 DEF MoveAssign, Drop, RunTask, Replace, InsideInv, Acts, OnTop, Hands, handleVars
  <2> QED  BY <2>1, StacksStay
<1>3. ASSUME NEW e \in Executors, NEW f \in Frames, Take(e, f) PROVE InsideInv'
  <2>1. e \in Threads /\ ~crashed /\ stack[e] = <<>> /\ ended' = ended /\ doubled' = doubled
    BY <1>3 DEF Take, ExecutorFree, Threads
  <2>2. CASE state[f] = "suspended"
    <3>1. stack' = [stack EXCEPT ![e] = Append(@, f)] /\ state' = [state EXCEPT ![f] = "running"]
      BY <1>3, <2>1, <2>2 DEF Take
    <3> QED  BY <2>1, <2>2, <3>1, OneEnters
  <2>3. CASE state[f] = "running"
    <3>1. /\ crashed' = TRUE /\ stack' = [stack EXCEPT ![e] = <<f>>] /\ state' = state /\ f \in doubled
      <4>1. crashed' = (state[f] = "running") /\ stack' = [stack EXCEPT ![e] = <<f>>] /\ f \in doubled
        BY <1>3, <2>3 DEF Take
      <4>2. state' = [state EXCEPT ![f] = "running"] /\ state \in [Frames -> States]
        BY <1>3, <2>3 DEF Take, InsideInv
      <4>3. state' = state
        BY <2>3, <4>2
      <4> QED  BY <2>3, <4>1, <4>3
    <3>2. stack' \in [Threads -> Seq(Frames)] /\ stack'[e] = <<f>> /\ \A u \in Threads \ {e} : stack'[u] = stack[u]
      BY <2>1, <3>1 DEF InsideInv
    <3>3. f \notin ended
      BY <2>3 DEF InsideInv
    <3>4. ASSUME NEW u \in Threads, NEW i \in DOMAIN stack'[u]
          PROVE  \/ u = e /\ i = 1 /\ stack'[u][i] = f
                 \/ u # e /\ i \in DOMAIN stack[u] /\ stack'[u][i] = stack[u][i]
      BY <3>2
    <3>5. ASSUME NEW u \in Threads, NEW i \in DOMAIN stack'[u]
          PROVE  state'[stack'[u][i]] \in {"running", "destroyed"} /\ stack'[u][i] \notin ended'
      BY <2>1, <2>3, <3>1, <3>3, <3>4, <3>5 DEF InsideInv
    <3>6. ASSUME NEW u \in Threads, NEW w \in Threads, NEW i \in DOMAIN stack'[u], NEW j \in DOMAIN stack'[w],
                 stack'[u][i] = stack'[w][j]
          PROVE  (u = w /\ i = j) \/ (crashed' /\ stack'[u][i] \in doubled')
      <4>1. CASE stack'[u][i] = f
        BY <2>1, <3>1, <4>1
      <4>2. CASE stack'[u][i] # f
        BY <2>1, <3>4, <3>6, <4>2 DEF InsideInv
      <4> QED  BY <4>1, <4>2
    <3> QED  BY <2>1, <3>1, <3>2, <3>5, <3>6 DEF InsideInv
  <2>4. CASE state[f] \notin {"suspended", "running"}
    BY <1>3, <2>1, <2>4, StacksStay DEF Take, InsideInv
  <2> QED  BY <2>2, <2>3, <2>4
<1>4. ASSUME NEW f \in Frames, SleepDone(f) PROVE InsideInv'
  BY <1>4, StacksStay DEF SleepDone, frameVars, InsideInv
<1>5. CASE StopRuntime
  <2>1. /\ state' \in [Frames -> States] /\ stack' = stack /\ ended' = ended /\ ~crashed /\ doubled' = doubled
        /\ \A g \in Frames : state'[g] = state[g] \/ state'[g] = "destroyed"
    BY <1>5 DEF StopRuntime, InsideInv
  <2> QED  BY <2>1, StacksStay
<1>6. CASE UNCHANGED vars
  BY <1>6, StacksStay DEF vars, frameVars, handleVars, InsideInv
<1> QED  BY <1>1, <1>2, <1>3, <1>4, <1>5, <1>6, BodyInside DEF Next, ClientStep

-----------------------------------------------------------------------------
\* What is destroyed together

\* The chain of a frame holds it and what its members own, and nothing else.
LEMMA ChainClosed ==
    ASSUME NEW f \in Frames, holds \in [Objects -> Frames \cup {NoFrame}]
    PROVE  /\ Chain(f) \subseteq Frames /\ f \in Chain(f)
           /\ \A x \in Chain(f) : holds[x] # NoFrame => holds[x] \in Chain(f)
BY DEF Chain, Objects

LEMMA ChainLeast ==
    ASSUME NEW f \in Frames, holds \in [Objects -> Frames \cup {NoFrame}], NEW g \in Chain(f), g # f
    PROVE  \E x \in Chain(f) : holds[x] = g
<1> SUFFICES ASSUME \A x \in Chain(f) : holds[x] # g PROVE FALSE
  OBVIOUS
<1> DEFINE S == Chain(f) \ {g}
<1>1. S \in SUBSET Frames /\ f \in S
  BY ChainClosed
<1>2. \A x \in S : holds[x] # NoFrame => holds[x] \in S
  BY ChainClosed
<1>3. \A T \in SUBSET Frames :
          f \in T /\ (\A x \in T : holds[x] # NoFrame => holds[x] \in T) => g \in T
  BY DEF Chain
<1>4. g \in S
  BY <1>1, <1>2, <1>3
<1> QED  BY <1>4

\* No frame is in the chain of what it owns: it called that after itself.
LEMMA ChainGoesUp ==
    ASSUME OwnTypes, FrameInv, NEW o \in Objects, holds[o] # NoFrame
    PROVE  o \notin Chain(holds[o])
<1>1. CASE o \notin Frames
  BY <1>1 DEF Chain
<1>2. CASE o \in Frames
  <2> DEFINE S == {x \in Frames : o < x}
  <2>1. holds[o] \in S
    BY <1>2 DEF OwnTypes, FrameInv
  <2>2. ASSUME NEW x \in S, holds[x] # NoFrame PROVE holds[x] \in S
    <3>1. holds[x] \in Frames /\ x < holds[x]
      BY <2>2 DEF OwnTypes, FrameInv, Objects
    <3>2. o \in Nat /\ x \in Nat /\ holds[x] \in Nat /\ o < x
      BY <3>1, <1>2, TaskAssumption
    <3>3. o < holds[x]
      BY <3>1, <3>2
    <3> QED  BY <3>1, <3>3
  <2>3. o \notin S
    BY <1>2, TaskAssumption
  <2>4. S \in SUBSET Frames
    OBVIOUS
  <2> HIDE DEF S
  <2> QED  BY <2>1, <2>2, <2>3, <2>4 DEF Chain
<1> QED  BY <1>1, <1>2

\* What is true of the frames that the destructor of the task object o destroys:
\* they do not own o, they own what they hold, and what another object holds of
\* them is left from stop().
Goes(o, gone) ==
    /\ gone \subseteq Frames /\ o \notin gone
    /\ holds[o] # NoFrame => holds[o] \in gone
    /\ \A g \in gone : state[g] # "unborn" /\ (holds[g] # NoFrame => holds[g] \in gone)
    /\ \A p \in Objects : p # o /\ p \notin gone /\ holds[p] \in gone => holds[p] \in reaped

LEMMA ChainGoes ==
    ASSUME OwnInv, NEW o \in Objects, holds[o] # NoFrame
    PROVE  Goes(o, Chain(holds[o]))
<1> DEFINE f == holds[o]
           D == Chain(f)
<1> USE DEF OwnInv
<1>1. f \in Frames
  BY DEF OwnTypes
<1>2. D \subseteq Frames /\ f \in D /\ \A x \in D : holds[x] # NoFrame => holds[x] \in D
  BY <1>1, ChainClosed DEF OwnTypes
<1>3. o \notin D
  BY ChainGoesUp
<1>4. \A g \in D : g = f \/ \E x \in D : holds[x] = g
  BY <1>1, ChainLeast DEF OwnTypes
<1>5. \A g \in D : state[g] # "unborn"
  <2> SUFFICES ASSUME NEW g \in D PROVE state[g] # "unborn"
    OBVIOUS
  <2>1. PICK q \in Objects : holds[q] = g
    BY <1>2, <1>4 DEF Objects
  <2>2. g # NoFrame
    BY <1>2, TaskAssumption
  <2> QED  BY <2>1, <2>2 DEF UnbornInv
<1>6. ASSUME NEW p \in Objects, p # o, p \notin D, holds[p] \in D
      PROVE  holds[p] \in reaped
  <2>1. holds[p] \in Frames /\ holds[p] # NoFrame
    BY <1>2, <1>6, TaskAssumption
  <2>2. PICK q \in Objects : holds[q] = holds[p] /\ q # p
    BY <1>2, <1>4, <1>6 DEF Objects
  <2>3. state[holds[p]] \notin {"running", "suspended", "done"}
    BY <2>1, <2>2 DEF OwnerInv
  <2>4. state[holds[p]] = "destroyed"
    BY <2>1, <2>3, <1>5, <1>6 DEF OwnTypes, States
  <2> QED  BY <2>1, <2>4 DEF OwnerInv
<1> QED  BY <1>2, <1>3, <1>5, <1>6 DEF Goes

\* The parts of the invariant that speak of owners and frames, after a
\* destructor: o is empty, and so are the destroyed frames.
LEMMA Destroys ==
    ASSUME OwnInv, NEW o \in Objects, NEW gone, Goes(o, gone),
           state' \in [Frames -> States],
           \A g \in Frames : IF g \in gone THEN state'[g] = "destroyed"
                              ELSE \/ state'[g] = state[g]
                                   \/ state[g] = "running" /\ state'[g] \in {"done", "suspended"},
           holds' \in [Objects -> Frames \cup {NoFrame}],
           \A p \in Objects : holds'[p] = IF p = o \/ p \in gone THEN NoFrame ELSE holds[p],
           queued' \in [Frames -> Nat], sleeping' \in [Frames -> Nat],
           \A f \in Frames : state[f] = "unborn" => queued'[f] = queued[f] /\ sleeping'[f] = sleeping[f],
           reaped' = reaped
    PROVE  OwnInv'
<1> USE DEF OwnInv
<1>1. OwnTypes'
  BY DEF OwnTypes
<1>2. \A g \in Frames : state'[g] = "unborn" <=> state[g] = "unborn"
  BY DEF Goes
<1>3. \A p \in Objects : holds'[p] # NoFrame => holds'[p] = holds[p] /\ holds[p] \in Frames /\ p # o /\ p \notin gone
  BY DEF OwnTypes
<1>4. UnbornInv'
  BY <1>2, <1>3 DEF UnbornInv
<1>5. FrameInv'
  <2>1. \A f \in Frames : f \in Objects
    BY DEF Objects
  <2>2. ASSUME NEW f \in Frames, state'[f] \in {"unborn", "destroyed"} PROVE holds'[f] = NoFrame
    BY <2>1, <2>2, <1>3 DEF FrameInv
  <2> QED  BY <2>1, <2>2, <1>3 DEF FrameInv
<1>6. OwnerInv'
  <2>1. ASSUME NEW f \in Frames, state'[f] \in {"running", "suspended", "done"}
        PROVE  \E q \in Objects : holds'[q] = f /\ \A p \in Objects : holds'[p] = f => p = q
    <3>1. f \notin gone /\ state[f] \in {"running", "suspended", "done"} /\ f # NoFrame
      BY <2>1, TaskAssumption
    <3>2. PICK q \in Objects : holds[q] = f /\ \A p \in Objects : holds[p] = f => p = q
      BY <3>1 DEF OwnerInv
    <3>3. q # o /\ q \notin gone
      BY <3>1, <3>2 DEF Goes
    <3> QED  BY <3>1, <3>2, <3>3, <1>3
  <2>2. \A f \in reaped' : state'[f] = "destroyed"
    BY DEF OwnerInv, OwnTypes
  <2>3. ASSUME NEW p \in Objects, holds'[p] # NoFrame, state'[holds'[p]] = "destroyed"
        PROVE  holds'[p] \in reaped'
    BY <2>3, <1>3 DEF OwnerInv, Goes
  <2> QED  BY <2>1, <2>2, <2>3 DEF OwnerInv
<1> QED  BY <1>1, <1>4, <1>5, <1>6

\* No owner changes and nothing is destroyed.
LEMMA OwnersStay ==
    ASSUME OwnInv, holds' = holds, reaped' = reaped, state' \in [Frames -> States],
           \A g \in Frames : \/ state'[g] = state[g]
                             \/ /\ state[g] \in {"running", "suspended"}
                                /\ state'[g] \in {"running", "suspended", "done"},
           queued' \in [Frames -> Nat], sleeping' \in [Frames -> Nat],
           \A f \in Frames : state[f] = "unborn" => queued'[f] = queued[f] /\ sleeping'[f] = sleeping[f]
    PROVE  OwnInv'
<1> USE DEF OwnInv
<1>1. OwnTypes'
  BY DEF OwnTypes
<1>2. \A g \in Frames : /\ state'[g] = "unborn" <=> state[g] = "unborn"
                        /\ state'[g] = "destroyed" <=> state[g] = "destroyed"
  OBVIOUS
<1>3. UnbornInv'
  BY <1>2 DEF UnbornInv, OwnTypes
<1>4. FrameInv'
  BY <1>2 DEF FrameInv
<1>5. \A f \in Frames : state'[f] \in {"running", "suspended", "done"}
                        => state[f] \in {"running", "suspended", "done"}
  OBVIOUS
<1>6. OwnerInv'
  BY <1>2, <1>5 DEF OwnerInv, OwnTypes
<1> QED  BY <1>1, <1>3, <1>4, <1>6

-----------------------------------------------------------------------------
\* The steps

LEMMA OwnInit ==
    ASSUME Init
    PROVE  OwnInv
<1>1. OwnTypes
  BY DEF Init, OwnTypes, States
<1>2. UnbornInv
  BY DEF Init, UnbornInv
<1>3. FrameInv
  BY DEF Init, FrameInv, Objects
<1>4. OwnerInv
  BY DEF Init, OwnerInv
<1> QED  BY <1>1, <1>2, <1>3, <1>4 DEF OwnInv

\* A body that is running owns as what it is.
LEMMA CallOwn ==
    ASSUME OwnInv, NEW t \in Threads, NEW o \in Objects, NEW f \in Frames, Call(t, o, f)
    PROVE  OwnInv'
<1> USE DEF OwnInv
<1>1. /\ holds[o] = NoFrame /\ state[f] = "unborn" /\ \A g \in Frames : g < f => state[g] # "unborn"
      /\ state' = [state EXCEPT ![f] = "running"] /\ holds' = [holds EXCEPT ![o] = f]
      /\ queued' = queued /\ sleeping' = sleeping /\ reaped' = reaped
      /\ o \in Frames => state[o] = "running"
  BY TaskAssumption DEF Call, handleVars, Acts, OnTop
<1>2. f # NoFrame /\ holds[f] = NoFrame /\ f \in Objects
  BY <1>1, TaskAssumption DEF FrameInv, Objects
<1>3. \A p \in Objects : holds[p] # f
  BY <1>1, <1>2 DEF UnbornInv
<1>4. OwnTypes'
  BY <1>1 DEF OwnTypes, States
<1>5. o \in Frames => o < f
  <2>1. SUFFICES ASSUME o \in Frames, ~(o < f) PROVE FALSE
    OBVIOUS
  <2>2. o \in Nat /\ f \in Nat /\ o # f
    BY <2>1, <1>1, TaskAssumption
  <2>3. f < o
    BY <2>1, <2>2
  <2> QED  BY <2>1, <2>3, <1>1 DEF UnbornInv
<1>6. UnbornInv'
  <2>1. ASSUME NEW g \in Frames, NEW h \in Frames, g < h, state'[g] = "unborn"
        PROVE  state'[h] = "unborn"
    <3>1. state[g] = "unborn" /\ state[h] = "unborn" /\ g # f
      BY <2>1, <1>1 DEF OwnTypes, UnbornInv
    <3>2. ~(g < f)
      BY <3>1, <1>1
    <3>3. g \in Nat /\ h \in Nat /\ f \in Nat
      BY TaskAssumption
    <3>4. h # f
      BY <2>1, <3>2, <3>3
    <3> QED  BY <3>1, <3>4, <1>1 DEF OwnTypes
  <2>2. \A g \in Frames : state'[g] = "unborn" => queued'[g] = 0 /\ sleeping'[g] = 0
    BY <1>1 DEF UnbornInv, OwnTypes
  <2>3. \A p \in Objects : holds'[p] # NoFrame => state'[holds'[p]] # "unborn"
    BY <1>1 DEF UnbornInv, OwnTypes
  <2> QED  BY <2>1, <2>2, <2>3 DEF UnbornInv
<1>7. FrameInv'
  BY <1>1, <1>2, <1>5 DEF FrameInv, OwnTypes, Objects
<1>8. OwnerInv'
  <2>1. ASSUME NEW g \in Frames, state'[g] \in {"running", "suspended", "done"}
        PROVE  \E q \in Objects : holds'[q] = g /\ \A p \in Objects : holds'[p] = g => p = q
    <3>1. CASE g = f
      BY <3>1, <1>1, <1>3 DEF OwnTypes
    <3>2. CASE g # f
      <4>1. PICK q \in Objects : holds[q] = g /\ \A p \in Objects : holds[p] = g => p = q
        BY <2>1, <3>2, <1>1 DEF OwnerInv, OwnTypes
      <4>2. q # o
        BY <4>1, <1>1, TaskAssumption
      <4> QED  BY <4>1, <4>2, <3>2, <1>1 DEF OwnTypes
    <3> QED  BY <3>1, <3>2
  <2>2. \A g \in reaped' : state'[g] = "destroyed"
    BY <1>1 DEF OwnerInv, OwnTypes
  <2>3. \A p \in Objects : holds'[p] # NoFrame /\ state'[holds'[p]] = "destroyed" => holds'[p] \in reaped'
    BY <1>1 DEF OwnerInv, OwnTypes
  <2> QED  BY <2>1, <2>2, <2>3 DEF OwnerInv
<1> QED  BY <1>4, <1>6, <1>7, <1>8

\* A task object lets go of the chain that it holds.
LEMMA ReplaceOwn ==
    ASSUME OwnInv, NEW o \in Objects, holds[o] # NoFrame, Replace(o, NoFrame, Chain(holds[o])),
           queued' = queued, sleeping' = sleeping, reaped' = reaped
    PROVE  OwnInv'
<1> DEFINE gone == Chain(holds[o])
<1>1. Goes(o, gone)
  BY ChainGoes
<1>2. /\ state' = [g \in Frames |-> IF g \in gone THEN "destroyed" ELSE state[g]]
      /\ holds' = [p \in Objects |-> IF p = o THEN NoFrame ELSE IF p \in gone THEN NoFrame ELSE holds[p]]
  BY DEF Replace
<1> HIDE DEF gone
<1> QED  BY <1>1, <1>2, Destroys DEF OwnInv, OwnTypes, States

\* What is scheduled was called.
LEMMA ScheduledOwn ==
    ASSUME OwnInv, NEW f \in Frames, state[f] # "unborn", queued' = Scheduled(f)
    PROVE  /\ queued' \in [Frames -> Nat]
           /\ \A g \in Frames : state[g] = "unborn" => queued'[g] = queued[g]
BY DEF OwnInv, OwnTypes, Scheduled

LEMMA RunTaskOwn ==
    ASSUME OwnInv, NEW t \in Threads, NEW o \in Objects, RunTask(t, o)
    PROVE  OwnInv'
<1> DEFINE f == holds[o]
<1>1. f # NoFrame /\ f \in Frames /\ state[f] # "unborn" /\ sleeping' = sleeping /\ reaped' = reaped
  BY DEF RunTask, OwnInv, OwnTypes, UnbornInv
<1>2. \/ Replace(o, NoFrame, Chain(f)) /\ UNCHANGED queued
      \/ queued' = Scheduled(f) /\ UNCHANGED <<state, holds>>
  BY DEF RunTask
<1>3. CASE Replace(o, NoFrame, Chain(f)) /\ UNCHANGED queued
  BY <1>1, <1>3, ReplaceOwn
<1>4. CASE queued' = Scheduled(f) /\ UNCHANGED <<state, holds>>
  <2>1. /\ queued' \in [Frames -> Nat]
        /\ \A g \in Frames : state[g] = "unborn" => queued'[g] = queued[g]
    BY <1>1, <1>4, ScheduledOwn
  <2> QED  BY <1>1, <1>4, <2>1, OwnersStay DEF OwnInv, OwnTypes
<1> QED  BY <1>2, <1>3, <1>4

\* A body ends, with the child it has not awaited, or suspends, or goes on after
\* co_await.
LEMMA EndOwn ==
    ASSUME OwnInv, NEW t \in Threads, NEW f \in Frames, End(t, f)
    PROVE  OwnInv'
<1> DEFINE gone == IF holds[f] = NoFrame THEN {} ELSE Chain(holds[f])
<1>1. f \in Objects
  BY DEF Objects
<1>2. Goes(f, gone)
  <2>1. CASE holds[f] = NoFrame
    BY <2>1 DEF Goes
  <2>2. CASE holds[f] # NoFrame
    BY <2>2, <1>1, ChainGoes
  <2> QED  BY <2>1, <2>2
<1>3. /\ state' = [g \in Frames |-> IF g = f THEN "done" ELSE IF g \in gone THEN "destroyed" ELSE state[g]]
      /\ holds' = [o \in Objects |-> IF o = f \/ o \in gone THEN NoFrame ELSE holds[o]]
      /\ state[f] = "running" /\ queued' = queued /\ sleeping' = sleeping /\ reaped' = reaped
  BY DEF End, Finish, handleVars, OnTop
<1> HIDE DEF gone
<1>4. f \notin gone
  BY <1>2 DEF Goes
<1> QED  BY <1>1, <1>2, <1>3, <1>4, Destroys DEF OwnInv, OwnTypes, States

LEMMA SuspendOwn ==
    ASSUME OwnInv, NEW t \in Threads, NEW f \in Frames, NEW h \in Frames \cup {NoFrame},
           SuspendAnd(t, f, h), h \in Frames => state[h] # "unborn",
           sleeping' \in [Frames -> Nat], \A g \in Frames \ {f} : sleeping'[g] = sleeping[g]
    PROVE  OwnInv'
<1>1. /\ state[f] = "running" /\ state' = [state EXCEPT ![f] = "suspended"]
      /\ holds' = holds /\ reaped' = reaped
      /\ queued' = [g \in Frames |-> queued[g] + (IF g = h /\ state[g] # "done" THEN 1 ELSE 0)
                                               + (IF g = f /\ Requeues(t) THEN 1 ELSE 0)]
  BY DEF SuspendAnd, OnTop
<1>2. queued' \in [Frames -> Nat]
  BY <1>1 DEF OwnInv, OwnTypes
<1>3. \A g \in Frames : state[g] = "unborn" => queued'[g] = queued[g] /\ sleeping'[g] = sleeping[g]
  BY <1>1 DEF OwnInv, OwnTypes
<1> QED  BY <1>1, <1>2, <1>3, OwnersStay DEF OwnInv, OwnTypes, States

LEMMA BodyOwn ==
    ASSUME OwnInv, NEW t \in Threads, Body(t)
    PROVE  OwnInv'
<1>1. ASSUME NEW f \in Frames, EndWithTask(t, f) PROVE OwnInv'
  BY <1>1, OwnersStay DEF EndWithTask, Finish, handleVars, OnTop, OwnInv, OwnTypes, States
<1>2. ASSUME NEW f \in Frames, AwaitResume(t, f) PROVE OwnInv'
  BY <1>2, ReplaceOwn DEF AwaitResume, handleVars, Objects
<1>3. ASSUME NEW f \in Frames, Yield(t, f) PROVE OwnInv'
  BY <1>3, SuspendOwn DEF Yield, SuspendAnd, OnTop, OwnInv, OwnTypes
<1>4. ASSUME NEW f \in Frames, Sleep(t, f) PROVE OwnInv'
  <2>1. SuspendAnd(t, f, NoFrame) /\ sleeping' = [sleeping EXCEPT ![f] = @ + 1]
    BY <1>4 DEF Sleep
  <2>2. sleeping' \in [Frames -> Nat] /\ \A g \in Frames \ {f} : sleeping'[g] = sleeping[g]
    BY <2>1 DEF OwnInv, OwnTypes
  <2> QED  BY <2>1, <2>2, SuspendOwn, TaskAssumption
<1>5. ASSUME NEW f \in Frames, Await(t, f) PROVE OwnInv'
  <2>1. holds[f] \in Frames /\ state[holds[f]] # "unborn"
    BY <1>5 DEF Await, OwnInv, OwnTypes, UnbornInv, Objects
  <2>2. SuspendAnd(t, f, holds[f]) /\ sleeping' = sleeping
    BY <1>5 DEF Await
  <2> QED  BY <2>1, <2>2, SuspendOwn DEF OwnInv, OwnTypes
<1>6. ASSUME NEW o \in Frames PROVE o \in Objects
  BY DEF Objects
<1>7. CASE Stumble(t)
  BY <1>7, OwnersStay DEF Stumble, frameVars, handleVars, OwnInv, OwnTypes
<1> QED  BY <1>1, <1>2, <1>3, <1>4, <1>5, <1>6, <1>7, EndOwn, CallOwn, RunTaskOwn DEF Body

\* The client's v = std::move(w).
LEMMA MoveOwn ==
    ASSUME OwnInv, NEW v \in Variables, NEW w \in Variables, MoveAssign(v, w)
    PROVE  OwnInv'
<1> USE DEF OwnInv
<1> DEFINE gone == IF holds[v] = NoFrame THEN {} ELSE Chain(holds[v])
<1>1. v \in Objects /\ w \in Objects /\ v \notin Frames /\ w \notin Frames
  BY TaskAssumption DEF Objects
<1>2. Goes(v, gone)
  <2>1. CASE holds[v] = NoFrame
    BY <2>1, <1>1 DEF Goes
  <2>2. CASE holds[v] # NoFrame
    BY <2>2, <1>1, ChainGoes
  <2> QED  BY <2>1, <2>2
<1>3. /\ v # w /\ holds[w] # NoFrame
      /\ state' = [g \in Frames |-> IF g \in gone THEN "destroyed" ELSE state[g]]
      /\ holds' = [o \in Objects |-> CASE o = v    -> holds[w]
                                        [] o = w    -> NoFrame
                                        [] o \in gone -> NoFrame
                                        [] OTHER    -> holds[o]]
      /\ queued' = queued /\ sleeping' = sleeping /\ reaped' = reaped
  BY DEF MoveAssign, handleVars
<1> HIDE DEF gone
<1>4. /\ holds'[v] = holds[w] /\ holds'[w] = NoFrame
      /\ \A o \in Objects \ {v, w} : holds'[o] = IF o \in gone THEN NoFrame ELSE holds[o]
      /\ v \notin gone /\ w \notin gone
  BY <1>1, <1>2, <1>3 DEF Goes
<1>5. OwnTypes'
  BY <1>1, <1>3, <1>4 DEF OwnTypes, States
<1>6. \A g \in Frames : state'[g] = IF g \in gone THEN "destroyed" ELSE state[g]
  BY <1>3
<1>7. \A g \in Frames : state'[g] = "unborn" <=> state[g] = "unborn"
  BY <1>2, <1>6 DEF Goes
<1>8. UnbornInv'
  BY <1>1, <1>3, <1>4, <1>7 DEF UnbornInv, OwnTypes
<1>9. FrameInv'
  <2>1. \A f \in Frames : f \in Objects \ {v, w}
    BY <1>1 DEF Objects
  <2> QED  BY <2>1, <1>4, <1>6 DEF FrameInv
<1>10. OwnerInv'
  <2>1. ASSUME NEW f \in Frames, state'[f] \in {"running", "suspended", "done"}
        PROVE  \E q \in Objects : holds'[q] = f /\ \A p \in Objects : holds'[p] = f => p = q
    <3>1. f \notin gone /\ state[f] \in {"running", "suspended", "done"} /\ f # NoFrame
      BY <2>1, <1>6, TaskAssumption
    <3>2. PICK q \in Objects : holds[q] = f /\ \A p \in Objects : holds[p] = f => p = q
      BY <3>1 DEF OwnerInv
    <3>3. q # v /\ q \notin gone
      BY <3>1, <3>2, <1>2 DEF Goes
    <3>4. CASE q = w
      BY <3>1, <3>2, <3>4, <1>1, <1>4
    <3>5. CASE q # w
      BY <3>1, <3>2, <3>3, <3>5, <1>1, <1>4
    <3> QED  BY <3>4, <3>5
  <2>2. \A f \in reaped' : state'[f] = "destroyed"
    BY <1>3, <1>6 DEF OwnerInv, OwnTypes
  <2>3. ASSUME NEW p \in Objects, holds'[p] # NoFrame, state'[holds'[p]] = "destroyed"
        PROVE  holds'[p] \in reaped'
    <3>1. PICK q \in Objects : q # v /\ q \notin gone /\ holds'[p] = holds[q]
      BY <2>3, <1>1, <1>3, <1>4
    <3>2. holds[q] \in Frames
      BY <2>3, <3>1 DEF OwnTypes
    <3> QED  BY <2>3, <3>1, <3>2, <1>2, <1>3, <1>6 DEF OwnerInv, Goes
  <2> QED  BY <2>1, <2>2, <2>3 DEF OwnerInv
<1> QED  BY <1>5, <1>8, <1>9, <1>10

\* stop() destroys the chains of what is queued and not done, and asks no owner.
LEMMA StopOwn ==
    ASSUME OwnInv, StopRuntime
    PROVE  OwnInv'
<1> USE DEF OwnInv
<1> DEFINE roots == {f \in Frames : queued[f] > 0 /\ state[f] # "done"}
           gone  == UNION {Chain(f) : f \in roots}
<1>1. /\ state' = [g \in Frames |-> IF g \in gone THEN "destroyed" ELSE state[g]]
      /\ holds' = [o \in Objects |-> IF o \in gone THEN NoFrame ELSE holds[o]]
      /\ reaped' = reaped \cup roots /\ queued' = [f \in Frames |-> 0] /\ sleeping' = sleeping
  <2>1. {f \in {g \in Frames : queued[g] > 0} : state[f] # "done"} = roots
    OBVIOUS
  <2> QED  BY <2>1 DEF StopRuntime
<1>2. /\ roots \subseteq gone /\ gone \subseteq Frames
      /\ \A g \in gone : holds[g] # NoFrame => holds[g] \in gone
      /\ \A g \in gone : g \in roots \/ \E x \in gone : holds[x] = g
  <2>1. \A f \in roots : /\ Chain(f) \subseteq Frames /\ f \in Chain(f)
                         /\ \A x \in Chain(f) : holds[x] # NoFrame => holds[x] \in Chain(f)
    BY ChainClosed DEF OwnTypes
  <2>2. \A f \in roots : \A g \in Chain(f) : g = f \/ \E x \in Chain(f) : holds[x] = g
    BY ChainLeast DEF OwnTypes
  <2> QED  BY <2>1, <2>2
<1>3. \A g \in roots : state[g] # "unborn"
  BY DEF UnbornInv, OwnTypes
<1> HIDE DEF gone, roots
<1>4. \A g \in gone : g \in Frames /\ g \in Objects /\ g # NoFrame
  BY <1>2, TaskAssumption DEF Objects
<1>5. \A g \in gone : state[g] # "unborn"
  BY <1>2, <1>3, <1>4 DEF UnbornInv
<1>6. \A g \in Frames : /\ state'[g] = IF g \in gone THEN "destroyed" ELSE state[g]
                        /\ state'[g] = "unborn" <=> state[g] = "unborn"
  BY <1>1, <1>5
<1>7. \A p \in Objects : holds'[p] = IF p \in gone THEN NoFrame ELSE holds[p]
  BY <1>1
<1>8. OwnTypes'
  BY <1>1, <1>2 DEF OwnTypes, States
<1>9. UnbornInv'
  BY <1>1, <1>6, <1>7 DEF UnbornInv, OwnTypes
<1>10. FrameInv'
  <2>1. \A f \in Frames : f \in Objects
    BY DEF Objects
  <2> QED  BY <2>1, <1>6, <1>7 DEF FrameInv
<1>11. OwnerInv'
  <2>1. ASSUME NEW f \in Frames, state'[f] \in {"running", "suspended", "done"}
        PROVE  \E q \in Objects : holds'[q] = f /\ \A p \in Objects : holds'[p] = f => p = q
    <3>1. f \notin gone /\ state[f] \in {"running", "suspended", "done"} /\ f # NoFrame
      BY <2>1, <1>6, TaskAssumption
    <3>2. PICK q \in Objects : holds[q] = f /\ \A p \in Objects : holds[p] = f => p = q
      BY <3>1 DEF OwnerInv
    <3>3. q \notin gone
      BY <3>1, <3>2, <1>2
    <3> QED  BY <3>1, <3>2, <3>3, <1>7
  <2>2. \A f \in reaped' : state'[f] = "destroyed"
    BY <1>1, <1>2, <1>6 DEF OwnerInv, OwnTypes
  <2>3. ASSUME NEW p \in Objects, holds'[p] # NoFrame, state'[holds'[p]] = "destroyed"
        PROVE  holds'[p] \in reaped'
    <3>1. p \notin gone /\ holds'[p] = holds[p] /\ holds[p] \in Frames
      BY <2>3, <1>7 DEF OwnTypes
    <3>2. CASE state[holds[p]] = "destroyed"
      BY <2>3, <3>1, <3>2, <1>1 DEF OwnerInv
    <3>3. CASE state[holds[p]] # "destroyed"
      <4>1. holds[p] \in gone
        BY <2>3, <3>1, <3>3, <1>6
      <4>2. state[holds[p]] \in {"running", "suspended", "done"}
        BY <3>1, <3>3, <4>1, <1>5 DEF OwnTypes, States
      <4>3. ~ \E x \in gone : holds[x] = holds[p]
        BY <3>1, <4>2, <1>4 DEF OwnerInv
      <4> QED  BY <4>1, <4>3, <3>1, <1>1, <1>2
    <3> QED  BY <3>2, <3>3
  <2> QED  BY <2>1, <2>2, <2>3 DEF OwnerInv
<1> QED  BY <1>8, <1>9, <1>10, <1>11

LEMMA OwnStep ==
    ASSUME OwnInv, [Next]_vars
    PROVE  OwnInv'
<1>1. \A v \in Variables : v \in Objects
  BY DEF Objects
<1>2. Client \in Threads
  BY DEF Threads
<1>3. ASSUME NEW v \in Variables, Drop(v) PROVE OwnInv'
  BY <1>1, <1>3, ReplaceOwn DEF Drop, handleVars
<1>4. CASE ClientStep
  BY <1>1, <1>2, <1>3, <1>4, CallOwn, MoveOwn, RunTaskOwn DEF ClientStep
<1>5. ASSUME NEW f \in Frames, SleepDone(f) PROVE OwnInv'
  <2>1. /\ sleeping[f] > 0 /\ sleeping' = [sleeping EXCEPT ![f] = @ - 1] /\ queued' = Scheduled(f)
        /\ state' = state /\ holds' = holds /\ reaped' = reaped
    BY <1>5 DEF SleepDone, frameVars
  <2>2. state[f] # "unborn" /\ sleeping' \in [Frames -> Nat]
    BY <2>1 DEF OwnInv, OwnTypes, UnbornInv
  <2>3. \A g \in Frames : state[g] = "unborn" => sleeping'[g] = sleeping[g]
    BY <2>1, <2>2 DEF OwnInv, OwnTypes
  <2> QED  BY <2>1, <2>2, <2>3, ScheduledOwn, OwnersStay DEF OwnInv, OwnTypes
<1>6. ASSUME NEW e \in Executors, NEW f \in Frames, Take(e, f) PROVE OwnInv'
  <2>1. /\ queued[f] > 0 /\ queued' = [queued EXCEPT ![f] = @ - 1]
        /\ holds' = holds /\ reaped' = reaped /\ sleeping' = sleeping
    BY <1>6 DEF Take
  <2>2. state[f] # "unborn" /\ queued' \in [Frames -> Nat]
    BY <2>1 DEF OwnInv, OwnTypes, UnbornInv
  <2>3. \A g \in Frames : state[g] = "unborn" => queued'[g] = queued[g]
    BY <2>1, <2>2 DEF OwnInv, OwnTypes
  <2>4. /\ state' \in [Frames -> States]
        /\ \A g \in Frames : state'[g] = state[g] \/ (state[g] = "suspended" /\ state'[g] = "running")
    BY <1>6 DEF Take, OwnInv, OwnTypes, States
  <2> QED  BY <2>1, <2>2, <2>3, <2>4, OwnersStay DEF OwnInv, OwnTypes
<1>7. CASE UNCHANGED vars
  BY <1>7, OwnersStay DEF vars, frameVars, handleVars, OwnInv, OwnTypes
<1> QED  BY <1>4, <1>5, <1>6, <1>7, BodyOwn, StopOwn DEF Next

\* A frame that exists is owned by one task object: moves, co_await of a
\* temporary, results that are tasks, run() and unwinding neither lose nor
\* double an owner (task.h:58-82, 104, 113-121).
THEOREM FramesHaveOneOwner == Spec => []OneOwner
<1>1. OwnInv => OneOwner
  <2> SUFFICES ASSUME OwnInv, NEW f \in Born PROVE Cardinality(Owners(f)) = 1 /\ f \notin reaped
    BY DEF OneOwner
  <2>1. f \in Frames /\ state[f] \in {"running", "suspended", "done"}
    BY DEF Born
  <2>2. PICK o \in Objects : holds[o] = f /\ \A p \in Objects : holds[p] = f => p = o
    BY <2>1 DEF OwnInv, OwnerInv
  <2>3. Owners(f) = {o}
    BY <2>2 DEF Owners
  <2>4. f \notin reaped
    BY <2>1 DEF OwnInv, OwnerInv
  <2> QED  BY <2>3, <2>4, FS_Singleton
<1> QED  BY <1>1, OwnInit, OwnStep, PTL DEF Spec

\* No task object is left with a destroyed frame, which its destructor would
\* destroy again, but where stop() destroyed what it found in the queue
\* (runtime.cpp:371-376).
THEOREM OnlyStopDestroysOwned == Spec => []OnlyStopLeavesOwners
<1>1. OwnInv => OnlyStopLeavesOwners
  BY TaskAssumption DEF OwnInv, OwnerInv, OnlyStopLeavesOwners, Owners
<1> QED  BY <1>1, OwnInit, OwnStep, PTL DEF Spec

-----------------------------------------------------------------------------
\* Who drives a coroutine

\* The safety part of DrivenEnds.
DriverStays ==
    [][\A f \in Frames : HasDriver(f) /\ ~stopped' /\ ~crashed' /\ state'[f] \notin {"done", "destroyed"}
                             => HasDriver(f)']_vars

\* A body that runs is inside a thread.
RunInv == \A f \in Frames : state[f] = "running" => \E t \in Threads : f \in ToSet(stack[t])

\* The frame at place i of t's stack was called there, and is in its first part:
\* all but those that executors resumed.
Starts(t, i) == t = Client \/ i > 1

Young(f) == state[f] = "running" /\ \E t \in Threads : \E i \in DOMAIN stack[t] : Starts(t, i) /\ stack[t][i] = f

\* First parts are called one by the other, and nobody else knows them: they are
\* neither queued nor asleep.
FirstInv ==
    \A t \in Threads : \A i \in DOMAIN stack[t] :
        /\ \A j \in DOMAIN stack[t] : j < i => stack[t][j] < stack[t][i]
        /\ Starts(t, i) /\ state[stack[t][i]] = "running" =>
               /\ queued[stack[t][i]] = 0 /\ sleeping[stack[t][i]] = 0
               /\ \A o \in Objects : holds[o] = stack[t][i] =>
                     (t = Client /\ o \in Variables) \/ o \in ToSet(stack[t])

\* What was never scheduled by somebody who was not alone with the handle has one
\* handle at most, in the queue, with a sleep() or with an executor.
HandleInv ==
    \A f \in Frames \ doubled :
        /\ queued[f] + sleeping[f] <= 1
        /\ queued[f] + sleeping[f] = 1 => \A e \in Executors : ~Resumes(e, f)

DriveInv == OwnInv /\ InsideInv /\ RunInv /\ FirstInv /\ HandleInv

\* What the stacks and the fields are.
LEMMA DriveTypes ==
    ASSUME DriveInv
    PROVE  /\ stack \in [Threads -> Seq(Frames)] /\ state \in [Frames -> States]
           /\ holds \in [Objects -> Frames \cup {NoFrame}]
           /\ queued \in [Frames -> Nat] /\ sleeping \in [Frames -> Nat]
           /\ Client \in Threads /\ Client \notin Executors /\ Executors \subseteq Threads
           /\ \A t \in Threads : ToSet(stack[t]) \subseteq Frames
           /\ \A f \in Frames : f \in Objects /\ f \notin Variables /\ f # NoFrame /\ f \in Nat
           /\ \A t \in Threads : \A i \in DOMAIN stack[t] : stack[t][i] \in ToSet(stack[t]) /\ stack[t][i] \in Frames
BY TaskAssumption DEF DriveInv, OwnInv, OwnTypes, InsideInv, Threads, Objects, ToSet

\* The innermost frame of a thread leaves: nobody else does.
LEMMA LeavesAlone ==
    ASSUME InsideInv, NEW t \in Threads, NEW f \in Frames, OnTop(t, f), Leave(t)
    PROVE  /\ f \in ToSet(stack[t])
           /\ \A u \in Threads : u # t => stack'[u] = stack[u]
           /\ \A u \in Threads : ToSet(stack'[u]) = ToSet(stack[u]) \ {f}
           /\ \A u \in Threads : stack'[u] \in Seq(Frames)
           /\ \A u \in Threads : \A i \in DOMAIN stack'[u] : i \in DOMAIN stack[u] /\ stack'[u][i] = stack[u][i]
<1> DEFINE q == stack[t]
<1>1. /\ q \in Seq(Frames) /\ q # <<>> /\ f = Last(q) /\ stack' = [stack EXCEPT ![t] = Front(q)]
      /\ stack \in [Threads -> Seq(Frames)] /\ ~crashed
  BY DEF InsideInv, OnTop, Leave
<1>2. /\ Len(q) \in DOMAIN q /\ q[Len(q)] = f /\ Front(q) \in Seq(Frames)
      /\ \A i \in DOMAIN Front(q) : i \in DOMAIN q /\ i # Len(q) /\ Front(q)[i] = q[i]
  BY <1>1, FrontOfStack
<1>3. \A i \in DOMAIN q : i # Len(q) => i \in DOMAIN Front(q)
  BY <1>1 DEF Front
<1>4. stack'[t] = Front(q) /\ \A u \in Threads : u # t => stack'[u] = stack[u]
  BY <1>1
<1> HIDE DEF q
<1>5. \A i \in DOMAIN q : i # Len(q) => q[i] # f
  BY <1>1, <1>2 DEF InsideInv, q
<1>6. \A u \in Threads : u # t => f \notin ToSet(stack[u])
  BY <1>1, <1>2 DEF InsideInv, ToSet, q
<1>7. ToSet(Front(q)) = ToSet(q) \ {f}
  BY <1>2, <1>3, <1>5 DEF ToSet
<1>8. f \in ToSet(stack[t])
  BY <1>2 DEF ToSet, q
<1>9. ASSUME NEW u \in Threads
      PROVE  /\ ToSet(stack'[u]) = ToSet(stack[u]) \ {f} /\ stack'[u] \in Seq(Frames)
             /\ \A i \in DOMAIN stack'[u] : i \in DOMAIN stack[u] /\ stack'[u][i] = stack[u][i]
  <2>1. CASE u = t
    BY <1>2, <1>4, <1>7, <2>1 DEF q
  <2>2. CASE u # t
    BY <1>1, <1>4, <1>6, <2>2
  <2> QED  BY <2>1, <2>2
<1> QED  BY <1>4, <1>8, <1>9

\* Nobody is in two stacks, or twice in one, before a crash.
LEMMA OneStack ==
    ASSUME InsideInv, ~crashed, NEW t \in Threads, NEW u \in Threads,
           NEW i \in DOMAIN stack[t], NEW j \in DOMAIN stack[u], stack[t][i] = stack[u][j]
    PROVE  t = u /\ i = j
BY DEF InsideInv

\* What a step leaves to be shown when it adds no first part.
LEMMA FirstStays ==
    ASSUME FirstInv,
           \A t \in Threads :
               \/ \A i \in DOMAIN stack'[t] : i \in DOMAIN stack[t] /\ stack'[t][i] = stack[t][i]
               \/ t # Client /\ DOMAIN stack'[t] = {1},
           \A t \in Threads : \A i \in DOMAIN stack'[t] :
               Starts(t, i) /\ state'[stack'[t][i]] = "running" =>
                   /\ state[stack'[t][i]] = "running"
                   /\ queued'[stack'[t][i]] = queued[stack'[t][i]]
                   /\ sleeping'[stack'[t][i]] = sleeping[stack'[t][i]]
                   /\ \A o \in Objects : holds'[o] = stack'[t][i] =>
                         holds[o] = stack'[t][i] /\ (o \in ToSet(stack[t]) => o \in ToSet(stack'[t]))
    PROVE  FirstInv'
<1> SUFFICES ASSUME NEW t \in Threads, NEW i \in DOMAIN stack'[t]
             PROVE  /\ \A j \in DOMAIN stack'[t] : j < i => stack'[t][j] < stack'[t][i]
                    /\ Starts(t, i) /\ state'[stack'[t][i]] = "running" =>
                           /\ queued'[stack'[t][i]] = 0 /\ sleeping'[stack'[t][i]] = 0
                           /\ \A o \in Objects : holds'[o] = stack'[t][i] =>
                                 (t = Client /\ o \in Variables) \/ o \in ToSet(stack'[t])
  BY DEF FirstInv, Starts
<1>1. CASE \A k \in DOMAIN stack'[t] : k \in DOMAIN stack[t] /\ stack'[t][k] = stack[t][k]
  BY <1>1 DEF FirstInv
<1>2. CASE t # Client /\ DOMAIN stack'[t] = {1}
  <2>1. i = 1 /\ ~Starts(t, i) /\ \A j \in DOMAIN stack'[t] : ~(j < i)
    BY <1>2 DEF Starts
  <2> QED  BY <2>1
<1> QED  BY <1>1, <1>2

\* A first part is held by nobody who is innermost in a thread.
LEMMA HeldBelow ==
    ASSUME DriveInv, NEW t \in Threads, NEW o \in Frames, OnTop(t, o), holds[o] # NoFrame
    PROVE  ~Young(holds[o])
<1> SUFFICES ASSUME Young(holds[o]) PROVE FALSE
  OBVIOUS
<1>1. o \in Objects /\ o \notin Variables /\ holds[o] \in Frames /\ o < holds[o] /\ o \in Nat /\ holds[o] \in Nat
  BY DriveTypes DEF DriveInv, OwnInv, FrameInv
<1>a. PICK u \in Threads : \E k \in DOMAIN stack[u] : Starts(u, k) /\ stack[u][k] = holds[o] /\ state[holds[o]] = "running"
  BY DEF Young
<1>2. PICK i \in DOMAIN stack[u] : Starts(u, i) /\ stack[u][i] = holds[o] /\ state[holds[o]] = "running"
  BY <1>a
<1>3. o \in ToSet(stack[u])
  BY <1>1, <1>2 DEF DriveInv, FirstInv
<1>4. PICK k \in DOMAIN stack[u] : stack[u][k] = o
  BY <1>3 DEF ToSet
<1>5. stack[t] \in Seq(Frames) /\ stack[t] # <<>> /\ o = Last(stack[t]) /\ ~crashed
  BY DEF OnTop, DriveInv, InsideInv
<1>6. Len(stack[t]) \in DOMAIN stack[t] /\ stack[t][Len(stack[t])] = o
  BY <1>5, FrontOfStack
<1>7. u = t
  BY <1>4, <1>5, <1>6, OneStack DEF DriveInv
<1>8. i \in 1..Len(stack[t]) /\ Len(stack[t]) \in Nat
  BY <1>2, <1>5, <1>7
<1>9. CASE i = Len(stack[t])
  BY <1>1, <1>2, <1>6, <1>7, <1>9
<1>10. CASE i < Len(stack[t])
  <2>1. stack[t][i] < stack[t][Len(stack[t])]
    BY <1>2, <1>6, <1>7, <1>10 DEF DriveInv, FirstInv
  <2> QED  BY <1>1, <1>2, <1>6, <1>7, <2>1
<1> QED  BY <1>8, <1>9, <1>10

\* A thread leaves its innermost frame, which has ended or suspended.
LEMMA LeavesDriven ==
    ASSUME DriveInv, NEW t \in Threads, NEW f \in Frames, OnTop(t, f), Leave(t),
           state'[f] # "running",
           \A g \in Frames : state'[g] = "running" => state[g] = "running",
           \A g \in Frames : g # f /\ Young(g) => queued'[g] = queued[g] /\ sleeping'[g] = sleeping[g],
           \A o \in Objects : holds'[o] # NoFrame => holds'[o] = holds[o]
    PROVE  RunInv' /\ FirstInv'
<1>1. /\ \A u \in Threads : ToSet(stack'[u]) = ToSet(stack[u]) \ {f}
      /\ \A u \in Threads : \A i \in DOMAIN stack'[u] : i \in DOMAIN stack[u] /\ stack'[u][i] = stack[u][i]
  BY LeavesAlone DEF DriveInv
<1>2. RunInv'
  BY <1>1 DEF DriveInv, RunInv
<1>3. ASSUME NEW u \in Threads, NEW i \in DOMAIN stack'[u], Starts(u, i), state'[stack'[u][i]] = "running"
      PROVE  /\ state[stack'[u][i]] = "running"
             /\ queued'[stack'[u][i]] = queued[stack'[u][i]] /\ sleeping'[stack'[u][i]] = sleeping[stack'[u][i]]
             /\ \A o \in Objects : holds'[o] = stack'[u][i] =>
                   holds[o] = stack'[u][i] /\ (o \in ToSet(stack[u]) => o \in ToSet(stack'[u]))
  <2> DEFINE g == stack'[u][i]
  <2>1. i \in DOMAIN stack[u] /\ g = stack[u][i] /\ g \in Frames /\ g # f /\ g # NoFrame /\ state[g] = "running"
    BY <1>1, <1>3, DriveTypes
  <2>2. Young(g)
    BY <1>3, <2>1 DEF Young
  <2> HIDE DEF g
  <2>3. holds[f] # g
    BY <2>1, <2>2, HeldBelow
  <2>4. \A o \in Objects : holds'[o] = g => holds[o] = g /\ o # f
    BY <2>1, <2>3
  <2>5. queued'[g] = queued[g] /\ sleeping'[g] = sleeping[g]
    BY <2>1, <2>2
  <2> QED  BY <1>1, <2>1, <2>4, <2>5 DEF g
<1>4. FirstInv'
  BY <1>1, <1>3, FirstStays DEF DriveInv
<1> QED  BY <1>2, <1>4

\* A step that leaves the stacks alone.
LEMMA StandsDriven ==
    ASSUME DriveInv, stack' = stack,
           \A g \in Frames : state'[g] = "running" => state[g] = "running",
           \A g \in Frames : Young(g) =>
               /\ queued'[g] = queued[g] /\ sleeping'[g] = sleeping[g]
               /\ \A o \in Objects : holds'[o] = g => holds[o] = g
    PROVE  RunInv' /\ FirstInv'
<1>1. RunInv'
  BY DEF DriveInv, RunInv
<1>2. \A t \in Threads : \A i \in DOMAIN stack[t] : stack[t][i] \in Frames
  BY DriveTypes
<1>3. FirstInv'
  <2>1. ASSUME NEW t \in Threads, NEW i \in DOMAIN stack[t], Starts(t, i), state'[stack[t][i]] = "running"
        PROVE  Young(stack[t][i]) /\ state[stack[t][i]] = "running"
    BY <1>2, <2>1 DEF Young
  <2> QED  BY <1>2, <2>1, FirstStays DEF DriveInv
<1> QED  BY <1>1, <1>3

\* What is queued, sleeps or was resumed by an executor is in no first part.
LEMMA KnownIsNotYoung ==
    ASSUME DriveInv, ~crashed, NEW f \in Frames, Known(f)
    PROVE  ~Young(f)
<1> SUFFICES ASSUME Young(f) PROVE FALSE
  OBVIOUS
<1>a. PICK u \in Threads : \E k \in DOMAIN stack[u] : Starts(u, k) /\ stack[u][k] = f /\ state[f] = "running"
  BY DEF Young
<1>1. PICK i \in DOMAIN stack[u] : Starts(u, i) /\ stack[u][i] = f /\ state[f] = "running"
  BY <1>a
<1>2. queued[f] = 0 /\ sleeping[f] = 0
  BY <1>1 DEF DriveInv, FirstInv
<1>3. PICK e \in Executors : Resumes(e, f)
  BY <1>2 DEF Known, HasDriver
<1>4. e \in Threads /\ e # Client /\ 1 \in DOMAIN stack[e] /\ stack[e][1] = f
  <2>1. e \in Threads /\ e # Client
    BY DriveTypes
  <2>2. stack[e] \in Seq(Frames)
    BY <2>1, DriveTypes
  <2> QED  BY <1>3, <2>1, <2>2 DEF Resumes
<1>5. u = e /\ i = 1
  BY <1>1, <1>4, OneStack DEF DriveInv
<1> QED  BY <1>1, <1>4, <1>5 DEF Starts

\* A task object that a thread can reach holds no first part.
LEMMA ReachedIsNotYoung ==
    ASSUME DriveInv, NEW t \in Threads, NEW o \in Objects, Acts(t, o), holds[o] # NoFrame
    PROVE  ~Young(holds[o])
<1>1. CASE o \in Variables
  <2> SUFFICES ASSUME Young(holds[o]) PROVE FALSE
    OBVIOUS
  <2>1. stack[Client] = <<>> /\ o \notin Frames
    BY <1>1, TaskAssumption DEF Acts
  <2>a. PICK u \in Threads : \E k \in DOMAIN stack[u] : Starts(u, k) /\ stack[u][k] = holds[o] /\ state[holds[o]] = "running"
    BY DEF Young
  <2>2. PICK i \in DOMAIN stack[u] : Starts(u, i) /\ stack[u][i] = holds[o] /\ state[holds[o]] = "running"
    BY <2>a
  <2>3. u # Client
    BY <2>1, <2>2
  <2>4. o \in ToSet(stack[u])
    BY <2>2, <2>3 DEF DriveInv, FirstInv
  <2> QED  BY <2>1, <2>4, DriveTypes
<1>2. CASE o \notin Variables
  BY <1>2, HeldBelow DEF Acts, Objects
<1> QED  BY <1>1, <1>2

\* A coroutine is called, by the client or by the body that is innermost in its thread.
LEMMA CallDriven ==
    ASSUME DriveInv, NEW t \in Threads, NEW o \in Objects, NEW f \in Frames, Call(t, o, f)
    PROVE  RunInv' /\ FirstInv'
<1> DEFINE q == stack[t]
<1>1. /\ Acts(t, o) /\ state[f] = "unborn" /\ \A g \in Frames : g < f => state[g] # "unborn"
      /\ state' = [state EXCEPT ![f] = "running"] /\ holds' = [holds EXCEPT ![o] = f]
      /\ stack' = [stack EXCEPT ![t] = Append(@, f)] /\ queued' = queued /\ sleeping' = sleeping
  BY DEF Call, handleVars
<1>2. /\ stack \in [Threads -> Seq(Frames)] /\ state \in [Frames -> States]
      /\ holds \in [Objects -> Frames \cup {NoFrame}] /\ q \in Seq(Frames)
  BY DriveTypes
<1>3. /\ ToSet(stack'[t]) = ToSet(q) \cup {f} /\ \A u \in Threads : u # t => stack'[u] = stack[u]
      /\ stack'[t] = Append(q, f)
  <2>1. stack'[t] = Append(q, f)
    BY <1>1, <1>2
  <2>2. ToSet(Append(q, f)) = ToSet(q) \cup {f}
    <3>1. DOMAIN q = 1..Len(q) /\ DOMAIN Append(q, f) = 1..(Len(q) + 1) /\ Len(q) \in Nat
      BY <1>2
    <3>2. \A i \in DOMAIN q : i \in DOMAIN Append(q, f) /\ Append(q, f)[i] = q[i]
      BY <1>2, <3>1
    <3>3. Len(q) + 1 \in DOMAIN Append(q, f) /\ Append(q, f)[Len(q) + 1] = f
      BY <1>2, <3>1
    <3> QED  BY <1>2, <3>1, <3>2, <3>3, PushedStack DEF ToSet
  <2> QED  BY <1>1, <2>1, <2>2
<1>4. RunInv'
  BY <1>1, <1>2, <1>3 DEF DriveInv, RunInv
<1>5. \A u \in Threads : \A g \in ToSet(stack[u]) : g \in Frames /\ state[g] # "unborn" /\ g # f /\ g < f
  <2>1. \A u \in Threads : \A g \in ToSet(stack[u]) : g \in Frames /\ state[g] \in {"running", "destroyed"}
    BY DEF DriveInv, InsideInv, ToSet
  <2>2. ASSUME NEW g \in Frames, state[g] # "unborn" PROVE g # f /\ g < f
    <3>1. ~(f < g)
      BY <1>1, <2>2 DEF DriveInv, OwnInv, UnbornInv
    <3> QED  BY <1>1, <2>2, <3>1, TaskAssumption
  <2> QED  BY <2>1, <2>2
<1>6. \A p \in Objects : holds[p] # f
  BY <1>1, TaskAssumption DEF DriveInv, OwnInv, UnbornInv
<1>7. (t = Client /\ o \in Variables) \/ o \in ToSet(q)
  <2>1. CASE o \in Variables
    BY <1>1, <2>1 DEF Acts
  <2>2. CASE o \in Frames /\ o \notin Variables
    <3>1. q # <<>> /\ o = Last(q)
      BY <1>1, <2>2 DEF Acts, OnTop
    <3> QED  BY <1>2, <3>1, FrontOfStack DEF ToSet
  <2> QED  BY <2>1, <2>2 DEF Objects
<1>8. \A u \in Threads : \A i \in DOMAIN stack[u] : stack[u][i] \in ToSet(stack[u])
  BY DEF ToSet
<1>9. \A i \in DOMAIN Append(q, f) :
         \/ i \in DOMAIN q /\ Append(q, f)[i] = q[i]
         \/ i = Len(q) + 1 /\ Append(q, f)[i] = f
  BY <1>2, PushedStack
<1>10. DOMAIN q = 1..Len(q) /\ Len(q) \in Nat
  BY <1>2
<1>11. ASSUME NEW u \in Threads, NEW i \in DOMAIN stack'[u]
       PROVE  \/ i \in DOMAIN stack[u] /\ stack'[u][i] = stack[u][i] /\ stack[u][i] # f /\ stack[u][i] \in Frames
              \/ u = t /\ stack'[u][i] = f /\ i = Len(q) + 1
  <2>1. CASE u = t
    BY <1>3, <1>5, <1>8, <1>9, <1>11, <2>1
  <2>2. CASE u # t
    BY <1>3, <1>5, <1>8, <1>11, <2>2
  <2> QED  BY <2>1, <2>2
<1>12. \A u \in Threads : ToSet(stack[u]) \subseteq ToSet(stack'[u])
  BY <1>3
<1>13. /\ state'[f] = "running" /\ \A g \in Frames \ {f} : state'[g] = state[g]
       /\ \A p \in Objects : holds'[p] = IF p = o THEN f ELSE holds[p]
  BY <1>1, <1>2
<1>14. queued[f] = 0 /\ sleeping[f] = 0
  BY <1>1 DEF DriveInv, OwnInv, UnbornInv
<1> HIDE DEF q
<1>15. ASSUME NEW u \in Threads, NEW i \in DOMAIN stack'[u], NEW j \in DOMAIN stack'[u], j < i
       PROVE  stack'[u][j] < stack'[u][i]
  <2>1. CASE i \in DOMAIN stack[u] /\ stack'[u][i] = stack[u][i] /\ j \in DOMAIN stack[u] /\ stack'[u][j] = stack[u][j]
    BY <1>15, <2>1 DEF DriveInv, FirstInv
  <2>2. CASE stack'[u][i] = f /\ j \in DOMAIN stack[u] /\ stack'[u][j] = stack[u][j]
    BY <1>5, <1>8, <2>2
  <2>3. CASE j = Len(q) + 1 /\ u = t
    <3>1. i \in DOMAIN q \/ i = Len(q) + 1
      BY <1>11, <2>3 DEF q
    <3> QED  BY <1>10, <1>15, <2>3, <3>1
  <2> QED  BY <1>11, <2>1, <2>2, <2>3
<1>16. ASSUME NEW u \in Threads, NEW i \in DOMAIN stack'[u], Starts(u, i), state'[stack'[u][i]] = "running"
       PROVE  /\ queued'[stack'[u][i]] = 0 /\ sleeping'[stack'[u][i]] = 0
              /\ \A p \in Objects : holds'[p] = stack'[u][i] =>
                    (u = Client /\ p \in Variables) \/ p \in ToSet(stack'[u])
  <2>1. CASE i \in DOMAIN stack[u] /\ stack'[u][i] = stack[u][i] /\ stack[u][i] # f /\ stack[u][i] \in Frames
    <3>1. state[stack[u][i]] = "running"
      BY <1>13, <1>16, <2>1
    <3>2. /\ queued[stack[u][i]] = 0 /\ sleeping[stack[u][i]] = 0
          /\ \A p \in Objects : holds[p] = stack[u][i] =>
                (u = Client /\ p \in Variables) \/ p \in ToSet(stack[u])
      BY <1>16, <2>1, <3>1 DEF DriveInv, FirstInv
    <3> QED  BY <1>1, <1>12, <1>13, <2>1, <3>2
  <2>2. CASE u = t /\ stack'[u][i] = f
    <3>1. \A p \in Objects : holds'[p] = f => p = o
      BY <1>6, <1>13
    <3> QED  BY <1>1, <1>7, <1>12, <1>14, <2>2, <3>1 DEF q
  <2> QED  BY <1>11, <2>1, <2>2
<1>17. FirstInv'
  BY <1>15, <1>16 DEF FirstInv, Starts
<1> QED  BY <1>4, <1>17

\* What the destructor of a task object and run() leave alone.
LEMMA ReplaceLeaves ==
    ASSUME OwnTypes, NEW o \in Objects, NEW gone, Replace(o, NoFrame, gone)
    PROVE  /\ \A g \in Frames : state'[g] = "running" => state[g] = "running"
           /\ \A p \in Objects : holds'[p] # NoFrame => holds'[p] = holds[p]
BY DEF Replace, OwnTypes

LEMMA RunTaskDriven ==
    ASSUME DriveInv, NEW t \in Threads, NEW o \in Objects, RunTask(t, o)
    PROVE  RunInv' /\ FirstInv'
<1>1. /\ Acts(t, o) /\ holds[o] # NoFrame /\ stack' = stack /\ sleeping' = sleeping
      /\ \/ Replace(o, NoFrame, Chain(holds[o])) /\ queued' = queued
         \/ queued' = Scheduled(holds[o]) /\ state' = state /\ holds' = holds
  BY DEF RunTask
<1>2. OwnTypes
  BY DEF DriveInv, OwnInv
<1>3. /\ \A g \in Frames : state'[g] = "running" => state[g] = "running"
      /\ \A p \in Objects : holds'[p] # NoFrame => holds'[p] = holds[p]
  BY <1>1, <1>2, ReplaceLeaves
<1>4. ~Young(holds[o])
  BY <1>1, ReachedIsNotYoung
<1>5. ASSUME NEW g \in Frames, Young(g) PROVE queued'[g] = queued[g]
  <2>1. g # holds[o] /\ queued \in [Frames -> Nat]
    BY <1>2, <1>4, <1>5 DEF OwnTypes
  <2> QED  BY <1>1, <2>1 DEF Scheduled
<1>6. \A g \in Frames : g # NoFrame
  BY DriveTypes
<1> QED  BY <1>1, <1>3, <1>5, <1>6, StandsDriven

LEMMA SuspendDriven ==
    ASSUME DriveInv, NEW t \in Threads, NEW f \in Frames, NEW h \in {f, NoFrame, holds[f]}, SuspendAnd(t, f, h),
           \A g \in Frames \ {f} : sleeping'[g] = sleeping[g]
    PROVE  RunInv' /\ FirstInv'
<1>1. /\ OnTop(t, f) /\ Leave(t) /\ state' = [state EXCEPT ![f] = "suspended"] /\ holds' = holds
      /\ queued' = [g \in Frames |-> queued[g] + (IF g = h /\ state[g] # "done" THEN 1 ELSE 0)
                                               + (IF g = f /\ Requeues(t) THEN 1 ELSE 0)]
  BY DEF SuspendAnd
<1>2. /\ \A g \in Frames : g # NoFrame
      /\ queued \in [Frames -> Nat] /\ state \in [Frames -> States]
  BY DriveTypes
<1>3. ASSUME NEW g \in Frames, g # f, Young(g)
      PROVE  queued'[g] = queued[g]
  <2>1. g # h
    BY <1>1, <1>2, <1>3, HeldBelow
  <2> QED  BY <1>1, <1>2, <1>3, <2>1
<1>4. /\ state'[f] # "running"
      /\ \A g \in Frames : state'[g] = "running" => state[g] = "running"
  BY <1>1, <1>2
<1> QED  BY <1>1, <1>2, <1>3, <1>4, LeavesDriven

LEMMA BodyDriven ==
    ASSUME DriveInv, NEW t \in Threads, Body(t)
    PROVE  RunInv' /\ FirstInv'
<1>1. OwnTypes /\ \A g \in Frames : g # NoFrame /\ g \in Objects
  BY DriveTypes DEF DriveInv, OwnInv
<1>2. ASSUME NEW f \in Frames, End(t, f) \/ EndWithTask(t, f) PROVE RunInv' /\ FirstInv'
  <2>1. OnTop(t, f) /\ Leave(t) /\ queued' = queued /\ sleeping' = sleeping
    BY <1>2 DEF End, EndWithTask, Finish, handleVars
  <2>2. /\ state'[f] # "running" /\ \A g \in Frames : state'[g] = "running" => state[g] = "running"
        /\ \A o \in Objects : holds'[o] # NoFrame => holds'[o] = holds[o]
    BY <1>1, <1>2 DEF End, EndWithTask, OwnTypes
  <2> QED  BY <2>1, <2>2, LeavesDriven
<1>3. ASSUME NEW f \in Frames, AwaitResume(t, f) PROVE RunInv' /\ FirstInv'
  <2>1. stack' = stack /\ queued' = queued /\ sleeping' = sleeping /\ Replace(f, NoFrame, Chain(holds[f]))
    BY <1>3 DEF AwaitResume, handleVars
  <2>2. /\ \A g \in Frames : state'[g] = "running" => state[g] = "running"
        /\ \A p \in Objects : holds'[p] # NoFrame => holds'[p] = holds[p]
    BY <1>1, <2>1, ReplaceLeaves
  <2> QED  BY <1>1, <2>1, <2>2, StandsDriven
<1>4. ASSUME NEW f \in Frames, Yield(t, f) \/ Sleep(t, f) \/ Await(t, f) PROVE RunInv' /\ FirstInv'
  <2>1. \A g \in Frames \ {f} : sleeping'[g] = sleeping[g]
    BY <1>1, <1>4 DEF Yield, Sleep, Await, OwnTypes
  <2> QED  BY <1>4, <2>1, SuspendDriven DEF Yield, Sleep, Await
<1>5. ASSUME NEW o \in Frames, NEW f \in Frames, Call(t, o, f) PROVE RunInv' /\ FirstInv'
  BY <1>1, <1>5, CallDriven
<1>6. ASSUME NEW o \in Frames, RunTask(t, o) PROVE RunInv' /\ FirstInv'
  BY <1>1, <1>6, RunTaskDriven
<1>7. CASE Stumble(t)
  BY <1>7, StandsDriven DEF Stumble, frameVars, handleVars
<1> QED  BY <1>2, <1>3, <1>4, <1>5, <1>6, <1>7 DEF Body

LEMMA TakeDriven ==
    ASSUME DriveInv, NEW e \in Executors, NEW f \in Frames, Take(e, f)
    PROVE  RunInv' /\ FirstInv'
<1>1. /\ queued[f] > 0 /\ queued' = [queued EXCEPT ![f] = @ - 1] /\ sleeping' = sleeping /\ holds' = holds
      /\ stack[e] = <<>> /\ ~crashed
  BY DEF Take, ExecutorFree
<1>2. /\ queued \in [Frames -> Nat] /\ state \in [Frames -> States] /\ stack \in [Threads -> Seq(Frames)]
      /\ e \in Threads /\ e # Client
  BY DriveTypes
<1>3. ~Young(f)
  BY <1>1, KnownIsNotYoung DEF Known, HasDriver
<1>4. \A g \in Frames : Young(g) => queued'[g] = queued[g]
  BY <1>1, <1>2, <1>3
<1>5. CASE state[f] \in {"suspended", "running"}
  <2>1. state' = [state EXCEPT ![f] = "running"] /\ stack' = [stack EXCEPT ![e] = <<f>>]
    BY <1>5 DEF Take
  <2>2. stack'[e] = <<f>> /\ \A u \in Threads \ {e} : stack'[u] = stack[u]
    BY <1>2, <2>1
  <2>3. f \in ToSet(stack'[e]) /\ DOMAIN stack'[e] = {1}
    BY <2>2 DEF ToSet
  <2>4. RunInv'
    <3> SUFFICES ASSUME NEW g \in Frames, state'[g] = "running" PROVE \E t \in Threads : g \in ToSet(stack'[t])
      BY DEF RunInv
    <3>1. CASE g = f
      BY <1>2, <2>3, <3>1
    <3>2. CASE g # f
      <4>1. PICK t \in Threads : g \in ToSet(stack[t])
        BY <1>2, <2>1, <3>2 DEF DriveInv, RunInv
      <4>2. t # e
        BY <1>1, <4>1 DEF ToSet
      <4> QED  BY <2>2, <4>1, <4>2
    <3> QED  BY <3>1, <3>2
  <2>5. ASSUME NEW t \in Threads, NEW i \in DOMAIN stack'[t], Starts(t, i), state'[stack'[t][i]] = "running"
        PROVE  /\ state[stack'[t][i]] = "running"
               /\ queued'[stack'[t][i]] = queued[stack'[t][i]]
               /\ sleeping'[stack'[t][i]] = sleeping[stack'[t][i]]
               /\ \A o \in Objects : holds'[o] = stack'[t][i] =>
                     holds[o] = stack'[t][i] /\ (o \in ToSet(stack[t]) => o \in ToSet(stack'[t]))
    <3>1. t # e
      BY <1>2, <2>3, <2>5 DEF Starts
    <3>2. stack'[t] = stack[t] /\ stack[t][i] \in Frames
      BY <2>2, <2>5, <3>1, DriveTypes
    <3>3. state[stack[t][i]] = "running"
      <4>1. stack[t][i] \notin {f} \/ state[f] = "running"
        BY <1>5, <2>5, <3>2 DEF DriveInv, InsideInv
      <4> QED  BY <1>2, <2>1, <2>5, <3>2, <4>1
    <3>4. Young(stack[t][i])
      BY <2>5, <3>2, <3>3 DEF Young
    <3> QED  BY <1>1, <1>4, <3>2, <3>3, <3>4
  <2>6. FirstInv'
    BY <1>2, <2>2, <2>3, <2>5, FirstStays DEF DriveInv
  <2> QED  BY <2>4, <2>6
<1>6. CASE state[f] \notin {"suspended", "running"}
  BY <1>1, <1>4, <1>6, StandsDriven DEF Take
<1> QED  BY <1>5, <1>6

-----------------------------------------------------------------------------
\* Who holds a handle

\* What is to be shown of each step.
LEMMA HandlesStay ==
    ASSUME DriveInv, queued' \in [Frames -> Nat], sleeping' \in [Frames -> Nat], doubled \subseteq doubled',
           \A f \in Frames \ doubled' :
               \/ /\ queued'[f] + sleeping'[f] <= queued[f] + sleeping[f]
                  /\ \A e \in Executors : Resumes(e, f)' => Resumes(e, f)
               \/ /\ queued'[f] + sleeping'[f] <= 1
                  /\ \A e \in Executors : ~Resumes(e, f)'
               \/ queued'[f] + sleeping'[f] = 0
    PROVE  HandleInv'
<1> SUFFICES ASSUME NEW f \in Frames \ doubled'
             PROVE  /\ queued'[f] + sleeping'[f] <= 1
                    /\ queued'[f] + sleeping'[f] = 1 => \A e \in Executors : ~Resumes(e, f)'
  BY DEF HandleInv
<1>1. queued[f] \in Nat /\ sleeping[f] \in Nat /\ queued'[f] \in Nat /\ sleeping'[f] \in Nat
  BY DriveTypes
<1>2. /\ queued[f] + sleeping[f] <= 1
      /\ queued[f] + sleeping[f] = 1 => \A e \in Executors : ~Resumes(e, f)
  BY DEF DriveInv, HandleInv
<1> QED  BY <1>1, <1>2

\* Nobody knows a frame: nothing is queued, asleep or resumed.
LEMMA UnknownHasNoHandle ==
    ASSUME DriveInv, NEW f \in Frames, ~Known(f)
    PROVE  queued[f] = 0 /\ sleeping[f] = 0 /\ \A e \in Executors : ~Resumes(e, f)
<1>1. queued[f] \in Nat /\ sleeping[f] \in Nat
  BY DriveTypes
<1> QED  BY <1>1 DEF Known, HasDriver

\* A frame that leaves its thread was resumed there by nobody else.
LEMMA LeavesHandles ==
    ASSUME DriveInv, NEW t \in Threads, NEW f \in Frames, OnTop(t, f), Leave(t)
    PROVE  /\ \A e \in Executors, g \in Frames : Resumes(e, g)' => Resumes(e, g)
           /\ \A e \in Executors : ~Resumes(e, f)'
           /\ Requeues(t) => t \in Executors /\ Resumes(t, f)
<1>1. /\ \A u \in Threads : ToSet(stack'[u]) = ToSet(stack[u]) \ {f}
      /\ \A u \in Threads : stack'[u] \in Seq(Frames)
      /\ \A u \in Threads : \A i \in DOMAIN stack'[u] : i \in DOMAIN stack[u] /\ stack'[u][i] = stack[u][i]
  BY LeavesAlone DEF DriveInv
<1>2. Executors \subseteq Threads /\ stack \in [Threads -> Seq(Frames)]
  BY DriveTypes
<1>3. ASSUME NEW e \in Executors, NEW g \in Frames, Resumes(e, g)'
      PROVE  Resumes(e, g) /\ g \in ToSet(stack'[e])
  <2>1. e \in Threads /\ stack[e] \in Seq(Frames)
    BY <1>2
  <2>2. stack'[e] # <<>> /\ Head(stack'[e]) = g /\ stack'[e] \in Seq(Frames)
    BY <1>1, <1>3, <2>1 DEF Resumes
  <2>3. 1 \in DOMAIN stack'[e] /\ stack'[e][1] = g
    BY <2>2
  <2>4. 1 \in DOMAIN stack[e] /\ stack[e][1] = g
    BY <1>1, <2>1, <2>3
  <2>5. stack[e] # <<>> /\ Head(stack[e]) = g
    BY <2>1, <2>4
  <2> QED  BY <2>3, <2>5 DEF Resumes, ToSet
<1>4. ASSUME NEW e \in Executors PROVE ~Resumes(e, f)'
  BY <1>1, <1>2, <1>3
<1>5. ASSUME Requeues(t) PROVE t \in Executors /\ Resumes(t, f)
  <2>1. stack[t] \in Seq(Frames) /\ Len(stack[t]) = 1 /\ t \in Executors /\ f = Last(stack[t])
    BY <1>2, <1>5 DEF Requeues, OnTop
  <2> QED  BY <2>1 DEF Last, Resumes
<1> QED  BY <1>3, <1>4, <1>5

\* A coroutine suspends on what schedules h.
LEMMA SuspendHandles ==
    ASSUME DriveInv, NEW t \in Threads, NEW f \in Frames, NEW h \in {f, NoFrame, holds[f]}, SuspendAnd(t, f, h),
           sleeping' \in [Frames -> Nat], \A g \in Frames \ {f} : sleeping'[g] = sleeping[g],
           \/ h = NoFrame /\ sleeping'[f] = sleeping[f] + 1 /\ Hands(f)
           \/ h = f /\ sleeping' = sleeping /\ Hands(f)
           \/ h = holds[f] /\ h # NoFrame /\ sleeping' = sleeping /\ Hands(h)
    PROVE  HandleInv'
<1>1. /\ OnTop(t, f) /\ Leave(t)
      /\ queued' = [g \in Frames |-> queued[g] + (IF g = h /\ state[g] # "done" THEN 1 ELSE 0)
                                               + (IF g = f /\ Requeues(t) THEN 1 ELSE 0)]
  BY DEF SuspendAnd
<1>2. /\ \A g \in Frames : g # NoFrame /\ g \in Objects /\ g \in Nat
      /\ queued \in [Frames -> Nat] /\ sleeping \in [Frames -> Nat]
  BY DriveTypes
<1>3. queued' \in [Frames -> Nat] /\ doubled \subseteq doubled'
  BY <1>1, <1>2 DEF Hands
<1>4. /\ \A e \in Executors, g \in Frames : Resumes(e, g)' => Resumes(e, g)
      /\ \A e \in Executors : ~Resumes(e, f)'
      /\ Requeues(t) => t \in Executors /\ Resumes(t, f)
  BY <1>1, LeavesHandles
<1>5. holds[f] # f
  <2>1. holds[f] # NoFrame => f < holds[f]
    BY <1>2 DEF DriveInv, OwnInv, FrameInv
  <2> QED  BY <1>2, <2>1
<1>6. ASSUME NEW g \in Frames \ doubled'
      PROVE  \/ /\ queued'[g] + sleeping'[g] <= queued[g] + sleeping[g]
                /\ \A e \in Executors : Resumes(e, g)' => Resumes(e, g)
             \/ /\ queued'[g] + sleeping'[g] <= 1
                /\ \A e \in Executors : ~Resumes(e, g)'
  <2>1. /\ g \in Frames /\ g \notin doubled /\ queued[g] \in Nat /\ sleeping[g] \in Nat
        /\ queued'[g] = queued[g] + (IF g = h /\ state[g] # "done" THEN 1 ELSE 0)
                                  + (IF g = f /\ Requeues(t) THEN 1 ELSE 0)
    BY <1>1, <1>2, <1>3
  <2>2. CASE g = f /\ Hands(f) /\ ((h = NoFrame /\ sleeping'[f] = sleeping[f] + 1) \/ (h = f /\ sleeping' = sleeping))
    <3>1. ~Known(f)
      BY <2>2 DEF Hands
    <3>2. queued[f] = 0 /\ sleeping[f] = 0 /\ \A e \in Executors : ~Resumes(e, f)
      BY <3>1, UnknownHasNoHandle
    <3>3. ~Requeues(t)
      BY <1>4, <3>2
    <3>4. (h = f /\ sleeping'[f] = 0) \/ (h # f /\ sleeping'[f] = 1)
      BY <1>2, <2>2, <3>2
    <3> QED  BY <1>4, <2>1, <2>2, <3>2, <3>3, <3>4
  <2>3. CASE g = f /\ h = holds[f] /\ sleeping' = sleeping
    <3>1. /\ queued[f] + sleeping[f] <= 1
          /\ queued[f] + sleeping[f] = 1 => ~Requeues(t)
      BY <1>4, <2>1, <2>3 DEF DriveInv, HandleInv
    <3>2. queued'[f] = queued[f] + (IF Requeues(t) THEN 1 ELSE 0) /\ sleeping'[f] = sleeping[f]
      BY <1>5, <2>1, <2>3
    <3> QED  BY <1>4, <2>1, <2>3, <3>1, <3>2
  <2>4. CASE g # f /\ g = h
    <3>1. Hands(g) /\ sleeping'[g] = sleeping[g]
      BY <1>2, <2>4
    <3>2. ~Known(g)
      BY <3>1 DEF Hands
    <3>3. queued[g] = 0 /\ sleeping[g] = 0 /\ \A e \in Executors : ~Resumes(e, g)
      BY <3>2, UnknownHasNoHandle
    <3> QED  BY <1>4, <2>1, <2>4, <3>1, <3>3
  <2>5. CASE g # f /\ g # h
    BY <1>4, <2>1, <2>5
  <2> QED  BY <2>2, <2>3, <2>4, <2>5
<1> QED  BY <1>3, <1>6, HandlesStay

LEMMA RunTaskHandles ==
    ASSUME DriveInv, NEW t \in Threads, NEW o \in Objects, RunTask(t, o)
    PROVE  HandleInv'
<1> DEFINE f == holds[o]
<1>1. f \in Frames /\ stack' = stack /\ sleeping' = sleeping
  BY DriveTypes DEF RunTask
<1>2. \/ queued' = queued /\ doubled' = doubled
      \/ queued' = Scheduled(f) /\ Hands(f)
  BY DEF RunTask
<1>3. queued \in [Frames -> Nat] /\ sleeping \in [Frames -> Nat]
  BY DriveTypes
<1>4. \A e \in Executors, g \in Frames : Resumes(e, g)' = Resumes(e, g)
  BY <1>1 DEF Resumes
<1> HIDE DEF f
<1>5. CASE queued' = queued /\ doubled' = doubled
  BY <1>1, <1>3, <1>4, <1>5, HandlesStay
<1>6. CASE queued' = Scheduled(f) /\ Hands(f)
  <2>1. queued' \in [Frames -> Nat] /\ doubled \subseteq doubled'
    BY <1>1, <1>3, <1>6 DEF Scheduled, Hands
  <2>2. ASSUME NEW g \in Frames \ doubled'
        PROVE  \/ /\ queued'[g] + sleeping'[g] <= queued[g] + sleeping[g]
                  /\ \A e \in Executors : Resumes(e, g)' => Resumes(e, g)
               \/ /\ queued'[g] + sleeping'[g] <= 1
                  /\ \A e \in Executors : ~Resumes(e, g)'
    <3>1. CASE g = f
      <4>1. ~Known(f)
        BY <1>6, <3>1 DEF Hands
      <4>2. queued[f] = 0 /\ sleeping[f] = 0 /\ \A e \in Executors : ~Resumes(e, f)
        BY <1>1, <4>1, UnknownHasNoHandle
      <4>3. queued'[f] <= 1
        BY <1>1, <1>3, <1>6, <4>2 DEF Scheduled
      <4> QED  BY <1>1, <1>4, <2>1, <3>1, <4>2, <4>3
    <3>2. CASE g # f
      BY <1>1, <1>3, <1>4, <1>6, <3>2 DEF Scheduled
    <3> QED  BY <3>1, <3>2
  <2> QED  BY <1>1, <1>3, <2>1, <2>2, HandlesStay
<1> QED  BY <1>2, <1>5, <1>6

\* What the executors resumed does not change, or gets less.
LEMMA BodyHandles ==
    ASSUME DriveInv, NEW t \in Threads, Body(t)
    PROVE  HandleInv'
<1>1. /\ queued \in [Frames -> Nat] /\ sleeping \in [Frames -> Nat]
      /\ \A f \in Frames : f \in Objects /\ f \notin Variables /\ f # NoFrame
  BY DriveTypes
<1>2. ASSUME NEW f \in Frames, End(t, f) \/ EndWithTask(t, f) PROVE HandleInv'
  <2>1. OnTop(t, f) /\ Leave(t) /\ UNCHANGED handleVars
    BY <1>2 DEF End, EndWithTask, Finish
  <2>2. \A e \in Executors, g \in Frames : Resumes(e, g)' => Resumes(e, g)
    BY <2>1, LeavesHandles
  <2> QED  BY <1>1, <2>1, <2>2, HandlesStay DEF handleVars
<1>3. ASSUME stack' = stack, UNCHANGED handleVars PROVE HandleInv'
  BY <1>1, <1>3, HandlesStay DEF handleVars, Resumes
<1>4. ASSUME NEW f \in Frames, Yield(t, f) PROVE HandleInv'
  BY <1>1, <1>4, SuspendHandles DEF Yield
<1>5. ASSUME NEW f \in Frames, Sleep(t, f) PROVE HandleInv'
  <2>1. SuspendAnd(t, f, NoFrame) /\ sleeping' = [sleeping EXCEPT ![f] = @ + 1] /\ Hands(f)
    BY <1>5 DEF Sleep
  <2>2. sleeping' \in [Frames -> Nat] /\ sleeping'[f] = sleeping[f] + 1 /\ \A g \in Frames \ {f} : sleeping'[g] = sleeping[g]
    BY <1>1, <2>1
  <2> QED  BY <2>1, <2>2, SuspendHandles
<1>6. ASSUME NEW f \in Frames, Await(t, f) PROVE HandleInv'
  BY <1>1, <1>6, SuspendHandles DEF Await
<1>7. ASSUME NEW o \in Frames, NEW f \in Frames, Call(t, o, f) PROVE HandleInv'
  <2>1. stack' = [stack EXCEPT ![t] = Append(@, f)] /\ stack[t] # <<>> /\ UNCHANGED handleVars
    BY <1>1, <1>7 DEF Call, Acts, OnTop
  <2>2. stack \in [Threads -> Seq(Frames)] /\ Executors \subseteq Threads
    BY DriveTypes
  <2>3. ASSUME NEW e \in Executors, NEW g \in Frames, Resumes(e, g)' PROVE Resumes(e, g)
    <3>1. CASE e = t
      <4>1. stack'[t] = Append(stack[t], f) /\ stack[t] \in Seq(Frames)
        BY <2>1, <2>2
      <4>2. Head(Append(stack[t], f)) = Head(stack[t])
        BY <2>1, <4>1
      <4> QED  BY <2>1, <2>3, <3>1, <4>1, <4>2 DEF Resumes
    <3>2. CASE e # t
      BY <2>1, <2>2, <2>3, <3>2 DEF Resumes
    <3> QED  BY <3>1, <3>2
  <2> QED  BY <1>1, <2>1, <2>3, HandlesStay DEF handleVars
<1> QED  BY <1>1, <1>2, <1>3, <1>4, <1>5, <1>6, <1>7, RunTaskHandles DEF Body, AwaitResume, Stumble

\* The executor that takes a handle has it from the queue.
LEMMA TakeHandles ==
    ASSUME DriveInv, NEW e \in Executors, NEW f \in Frames, Take(e, f)
    PROVE  HandleInv'
<1>1. /\ queued[f] > 0 /\ queued' = [queued EXCEPT ![f] = @ - 1] /\ sleeping' = sleeping /\ doubled' = doubled
      /\ stack' = stack \/ stack' = [stack EXCEPT ![e] = <<f>>]
  BY DEF Take
<1>2. /\ queued \in [Frames -> Nat] /\ sleeping \in [Frames -> Nat] /\ stack \in [Threads -> Seq(Frames)]
      /\ Executors \subseteq Threads
  BY DriveTypes
<1>3. queued' \in [Frames -> Nat] /\ queued'[f] = queued[f] - 1 /\ \A g \in Frames \ {f} : queued'[g] = queued[g]
  BY <1>1, <1>2
<1>4. ASSUME NEW u \in Executors, NEW g \in Frames, g # f, Resumes(u, g)' PROVE Resumes(u, g)
  <2>1. CASE stack' = stack
    BY <1>4, <2>1 DEF Resumes
  <2>2. CASE stack' = [stack EXCEPT ![e] = <<f>>]
    <3>1. stack'[u] = IF u = e THEN <<f>> ELSE stack[u]
      BY <1>2, <2>2
    <3> QED  BY <1>4, <3>1 DEF Resumes
  <2> QED  BY <1>1, <2>1, <2>2
<1>5. ASSUME f \notin doubled PROVE queued'[f] + sleeping'[f] = 0
  <2>1. queued[f] + sleeping[f] <= 1 /\ queued[f] \in Nat /\ sleeping[f] \in Nat
    BY <1>2, <1>5 DEF DriveInv, HandleInv
  <2> QED  BY <1>1, <1>3, <2>1
<1> QED  BY <1>1, <1>2, <1>3, <1>4, <1>5, HandlesStay

\* What is taken while a thread is inside of it was scheduled twice.
LEMMA EnteredIsDoubled ==
    ASSUME DriveInv, NEW e \in Executors, NEW f \in Frames, Take(e, f), state[f] = "running"
    PROVE  f \in doubled
<1>1. queued[f] > 0 /\ ~crashed
  BY DEF Take, ExecutorFree
<1>2. PICK t \in Threads : f \in ToSet(stack[t])
  BY DEF DriveInv, RunInv
<1>3. PICK i \in DOMAIN stack[t] : stack[t][i] = f
  BY <1>2 DEF ToSet
<1>4. ~Starts(t, i)
  BY <1>1, <1>3, KnownIsNotYoung DEF Young, Known, HasDriver
<1>5. stack[t] \in Seq(Frames) /\ t \in Executors
  BY <1>4, DriveTypes DEF Starts, Threads
<1>6. i = 1 /\ stack[t] # <<>> /\ Head(stack[t]) = f
  BY <1>3, <1>4, <1>5 DEF Starts
<1>7. Resumes(t, f)
  BY <1>6 DEF Resumes
<1>8. queued[f] \in Nat /\ sleeping[f] \in Nat
  BY DriveTypes
<1> QED  BY <1>1, <1>5, <1>7, <1>8 DEF DriveInv, HandleInv

LEMMA DriveStep ==
    ASSUME DriveInv, [Next]_vars
    PROVE  DriveInv'
<1>1. OwnInv' /\ InsideInv'
  BY OwnStep, InsideStep, EnteredIsDoubled DEF DriveInv
<1>2. /\ OwnTypes /\ Client \in Threads /\ \A v \in Variables : v \in Objects
      /\ \A g \in Frames : g # NoFrame
      /\ queued \in [Frames -> Nat] /\ sleeping \in [Frames -> Nat]
  BY DriveTypes DEF DriveInv, OwnInv, Objects
<1>3. ASSUME stack' = stack, UNCHANGED handleVars PROVE HandleInv'
  BY <1>2, <1>3, HandlesStay DEF handleVars, Resumes
<1>4. CASE ClientStep
  <2>1. ASSUME NEW v \in Variables, NEW f \in Frames, Call(Client, v, f) PROVE RunInv' /\ FirstInv' /\ HandleInv'
    <3>1. stack' = [stack EXCEPT ![Client] = Append(@, f)] /\ UNCHANGED handleVars
      BY <2>1 DEF Call
    <3>2. \A e \in Executors : stack'[e] = stack[e]
      BY <3>1, DriveTypes
    <3>3. HandleInv'
      <4>1. \A e \in Executors, g \in Frames : Resumes(e, g)' = Resumes(e, g)
        BY <3>2 DEF Resumes
      <4> QED  BY <1>2, <3>1, <4>1, HandlesStay DEF handleVars
    <3> QED  BY <1>2, <2>1, <3>3, CallDriven
  <2>2. ASSUME NEW v \in Variables, NEW w \in Variables, MoveAssign(v, w) PROVE RunInv' /\ FirstInv' /\ HandleInv'
    <3>1. /\ stack' = stack /\ UNCHANGED handleVars /\ Acts(Client, w) /\ holds[w] # NoFrame
          /\ \A g \in Frames : state'[g] = "running" => state[g] = "running"
          /\ \A o \in Objects : holds'[o] # NoFrame => holds'[o] = holds[w] \/ holds'[o] = holds[o]
      BY <1>2, <2>2 DEF MoveAssign, OwnTypes, Acts
    <3>2. ~Young(holds[w])
      BY <1>2, <3>1, ReachedIsNotYoung
    <3>3. RunInv' /\ FirstInv'
      BY <1>2, <3>1, <3>2, StandsDriven DEF handleVars
    <3> QED  BY <1>3, <3>1, <3>3
  <2>3. ASSUME NEW v \in Variables, Drop(v) PROVE RunInv' /\ FirstInv' /\ HandleInv'
    <3>1. stack' = stack /\ UNCHANGED handleVars /\ Replace(v, NoFrame, Chain(holds[v]))
      BY <2>3 DEF Drop
    <3>2. /\ \A g \in Frames : state'[g] = "running" => state[g] = "running"
          /\ \A p \in Objects : holds'[p] # NoFrame => holds'[p] = holds[p]
      BY <1>2, <3>1, ReplaceLeaves
    <3>3. RunInv' /\ FirstInv'
      BY <1>2, <3>1, <3>2, StandsDriven DEF handleVars
    <3> QED  BY <1>3, <3>1, <3>3
  <2>4. ASSUME NEW v \in Variables, RunTask(Client, v) PROVE RunInv' /\ FirstInv' /\ HandleInv'
    BY <1>2, <2>4, RunTaskDriven, RunTaskHandles
  <2> QED  BY <1>1, <1>4, <2>1, <2>2, <2>3, <2>4 DEF ClientStep, DriveInv
<1>5. ASSUME NEW f \in Frames, SleepDone(f) PROVE RunInv' /\ FirstInv' /\ HandleInv'
  <2>1. /\ sleeping[f] > 0 /\ sleeping' = [sleeping EXCEPT ![f] = @ - 1] /\ queued' = Scheduled(f) /\ ~crashed
        /\ state' = state /\ holds' = holds /\ stack' = stack /\ doubled' = doubled
    BY <1>5 DEF SleepDone, frameVars
  <2>2. ~Young(f)
    BY <2>1, KnownIsNotYoung DEF Known
  <2>3. \A g \in Frames : Young(g) => queued'[g] = queued[g] /\ sleeping'[g] = sleeping[g]
    BY <1>2, <2>1, <2>2 DEF Scheduled
  <2>4. RunInv' /\ FirstInv'
    BY <2>1, <2>3, StandsDriven
  <2>5. /\ queued' \in [Frames -> Nat] /\ sleeping' \in [Frames -> Nat]
        /\ \A g \in Frames : queued'[g] + sleeping'[g] <= queued[g] + sleeping[g]
    BY <1>2, <2>1 DEF Scheduled
  <2>6. HandleInv'
    BY <2>1, <2>5, HandlesStay DEF Resumes
  <2> QED  BY <2>4, <2>6
<1>6. CASE StopRuntime
  <2>1. /\ stack' = stack /\ (\A t \in Threads : stack[t] = <<>>)
        /\ queued' = [f \in Frames |-> 0] /\ sleeping' = sleeping /\ doubled' = doubled
    BY <1>6 DEF StopRuntime
  <2>2. \A f \in Frames : ~Young(f)
    BY <2>1 DEF Young
  <2>3. \A g \in Frames : state'[g] = "running" => state[g] = "running"
    BY <1>2, <1>6 DEF StopRuntime, OwnTypes
  <2>4. RunInv' /\ FirstInv'
    BY <2>1, <2>2, <2>3, StandsDriven
  <2>5. /\ queued' \in [Frames -> Nat]
        /\ \A g \in Frames : queued'[g] + sleeping'[g] <= queued[g] + sleeping[g]
    BY <1>2, <2>1
  <2>6. HandleInv'
    BY <1>2, <2>1, <2>5, HandlesStay DEF Resumes
  <2> QED  BY <1>1, <2>4, <2>6 DEF DriveInv
<1>7. CASE UNCHANGED vars
  BY <1>1, <1>3, <1>7, StandsDriven DEF vars, frameVars, handleVars, DriveInv
<1> QED  BY <1>1, <1>4, <1>5, <1>6, <1>7, BodyDriven, BodyHandles, TakeDriven, TakeHandles DEF Next, DriveInv

LEMMA DriveInit ==
    ASSUME Init
    PROVE  DriveInv
<1>1. \A t \in Threads : stack[t] = <<>> /\ DOMAIN stack[t] = {}
  BY DEF Init
<1>2. RunInv /\ FirstInv /\ HandleInv
  BY <1>1 DEF Init, RunInv, FirstInv, HandleInv
<1> QED  BY <1>2, OwnInit, InsideInit DEF DriveInv

\* A coroutine that has ended is inside no thread, and one is inside two only if
\* it was scheduled by somebody who was not alone in holding its handle: what
\* awaits, is awaited or run once stays in one thread, with any number of them
\* (runtime.cpp:85-120; task.h:87-91, 113-127).
THEOREM EndedStaysOut == Spec => []InsideOnce
<1>1. DriveInv => InsideOnce
  <2> SUFFICES ASSUME DriveInv PROVE InsideOnce
    OBVIOUS
  <2>1. Inside \cap ended = {}
    BY DEF DriveInv, InsideInv, Inside, ToSet
  <2>2. ASSUME NEW t \in Threads, NEW u \in Threads, NEW i \in DOMAIN stack[t], NEW j \in DOMAIN stack[u],
               stack[t][i] = stack[u][j], <<t, i>> # <<u, j>>
        PROVE  stack[t][i] \in doubled
    BY <2>2 DEF DriveInv, InsideInv
  <2> QED  BY <2>1, <2>2 DEF InsideOnce
<1> QED  BY <1>1, DriveInit, DriveStep, PTL DEF Spec

\* The innermost frame of a thread is the outermost as long as it is alone.
LEMMA HeadStays ==
    ASSUME NEW S, NEW q \in Seq(S), NEW f \in S
    PROVE  /\ q # <<>> => Append(q, f) # <<>> /\ Head(Append(q, f)) = Head(q)
           /\ q # <<>> /\ Len(q) # 1 => Front(q) # <<>> /\ Head(Front(q)) = Head(q)
           /\ Len(q) = 1 => Head(q) = Last(q)
<1>1. q # <<>> => Append(q, f) # <<>> /\ Head(Append(q, f)) = Head(q)
  OBVIOUS
<1>2. q # <<>> /\ Len(q) # 1 => Front(q) # <<>> /\ Head(Front(q)) = Head(q)
  <2> SUFFICES ASSUME q # <<>>, Len(q) # 1 PROVE Front(q) # <<>> /\ Head(Front(q)) = Head(q)
    OBVIOUS
  <2>0. Len(q) \in Nat /\ Len(q) # 0
    BY FrontOfStack
  <2>a. \A n \in Nat : n # 0 /\ n # 1 => n >= 2
    OBVIOUS
  <2>1. Len(q) \in Nat /\ Len(q) >= 2
    BY <2>0, <2>a
  <2>2. /\ Front(q) \in Seq(S) /\ Len(Front(q)) = Len(q) - 1
        /\ \A i \in 1..(Len(q) - 1) : Front(q)[i] = q[i]
    BY <2>1 DEF Front
  <2>3. Front(q)[1] = q[1] /\ Front(q) # <<>>
    BY <2>1, <2>2
  <2> QED  BY <2>2, <2>3
<1>3. Len(q) = 1 => Head(q) = Last(q)
  BY DEF Last
<1> QED  BY <1>1, <1>2, <1>3

\* A coroutine that was queued, or that an executor resumed, is queued again
\* whenever it suspends: it gets lost only at its end, with its frame, when the
\* runtime stops, or in a crash (runtime.cpp:112-120; task.h:107-132).
THEOREM DriversStay == Spec => DriverStays
<1>1. DriveInv /\ [Next]_vars =>
          [\A f \in Frames : HasDriver(f) /\ ~stopped' /\ ~crashed' /\ state'[f] \notin {"done", "destroyed"}
                                 => HasDriver(f)']_vars
  <2> SUFFICES ASSUME DriveInv, Next, NEW f \in Frames, HasDriver(f), ~stopped', ~crashed',
                      state'[f] \notin {"done", "destroyed"}
               PROVE  HasDriver(f)'
    BY DEF vars
  <2>1. /\ queued \in [Frames -> Nat] /\ state \in [Frames -> States] /\ stack \in [Threads -> Seq(Frames)]
        /\ Executors \subseteq Threads /\ Client \in Threads /\ Client \notin Executors
    BY DriveTypes
  <2>2. ASSUME queued[f] > 0 => queued'[f] > 0, \A e \in Executors : stack'[e] = stack[e] PROVE HasDriver(f)'
    BY <2>2 DEF HasDriver, Resumes
  <2>3. ASSUME NEW t \in Threads, NEW o, NEW g \in Frames, Call(t, o, g) PROVE HasDriver(f)'
    <3>1. stack' = [stack EXCEPT ![t] = Append(@, g)] /\ queued' = queued
      BY <2>3 DEF Call, handleVars
    <3>2. ASSUME NEW e \in Executors, Resumes(e, f) PROVE Resumes(e, f)'
      <4>1. stack[e] \in Seq(Frames) /\ (stack'[e] = stack[e] \/ stack'[e] = Append(stack[e], g))
        BY <2>1, <3>1
      <4> QED  BY <3>2, <4>1, HeadStays DEF Resumes
    <3> QED  BY <3>1, <3>2 DEF HasDriver
  <2>4. ASSUME NEW t \in Threads, NEW g \in Frames, OnTop(t, g), Leave(t), queued[f] > 0 => queued'[f] > 0,
               Requeues(t) /\ g = f => queued'[f] > 0
        PROVE  HasDriver(f)'
    <3>1. CASE queued[f] > 0
      BY <2>4, <3>1 DEF HasDriver
    <3>2. ASSUME NEW e \in Executors, Resumes(e, f) PROVE HasDriver(f)'
      <4>1. stack[e] \in Seq(Frames) /\ stack[e] # <<>> /\ Head(stack[e]) = f
        BY <2>1, <3>2 DEF Resumes
      <4>2. stack'[e] = stack[e] \/ (t = e /\ g = Last(stack[e]) /\ stack'[e] = Front(stack[e]))
        BY <2>1, <2>4 DEF Leave, OnTop
      <4>3. CASE stack'[e] = stack[e]
        BY <4>1, <4>3 DEF HasDriver, Resumes
      <4>4. CASE t = e /\ g = Last(stack[e]) /\ stack'[e] = Front(stack[e])
        <5>1. CASE Len(stack[e]) = 1
          <6>1. g = f /\ Requeues(t)
            BY <4>1, <4>4, <5>1, HeadStays DEF Requeues
          <6> QED  BY <2>4, <6>1 DEF HasDriver
        <5>2. CASE Len(stack[e]) # 1
          BY <4>1, <4>4, <5>2, HeadStays DEF HasDriver, Resumes
        <5> QED  BY <5>1, <5>2
      <4> QED  BY <4>2, <4>3, <4>4
    <3> QED  BY <3>1, <3>2 DEF HasDriver
  <2>5. ASSUME NEW t \in Threads, NEW g \in Frames, End(t, g) \/ EndWithTask(t, g) PROVE HasDriver(f)'
    <3>1. OnTop(t, g) /\ Leave(t) /\ queued' = queued /\ state'[g] = "done"
      BY <2>1, <2>5 DEF End, EndWithTask, Finish, handleVars
    <3>2. g # f
      BY <3>1
    <3> QED  BY <2>4, <3>1, <3>2
  <2>6. ASSUME NEW t \in Threads, NEW g \in Frames, NEW h, SuspendAnd(t, g, h) PROVE HasDriver(f)'
    <3>1. /\ OnTop(t, g) /\ Leave(t)
          /\ queued'[f] = queued[f] + (IF f = h /\ state[f] # "done" THEN 1 ELSE 0)
                                    + (IF f = g /\ Requeues(t) THEN 1 ELSE 0)
      BY <2>6 DEF SuspendAnd
    <3>2. (queued[f] > 0 => queued'[f] > 0) /\ (f = g /\ Requeues(t) => queued'[f] > 0)
      BY <2>1, <3>1
    <3> QED  BY <2>4, <3>1, <3>2
  <2>7. ASSUME NEW t \in Threads, NEW o, RunTask(t, o) PROVE HasDriver(f)'
    <3>1. stack' = stack /\ (queued' = queued \/ \E g : queued' = Scheduled(g))
      BY <2>7 DEF RunTask
    <3>2. ASSUME NEW g, queued' = Scheduled(g), queued[f] > 0 PROVE queued'[f] > 0
      <4>1. queued'[f] = queued[f] \/ queued'[f] = queued[f] + 1
        BY <2>1, <3>2 DEF Scheduled
      <4> QED  BY <2>1, <3>2, <4>1
    <3> QED  BY <2>2, <3>1, <3>2
  <2>8. ASSUME NEW t \in Threads, Body(t) PROVE HasDriver(f)'
    <3>1. ASSUME NEW g \in Frames, AwaitResume(t, g) PROVE HasDriver(f)'
      BY <2>2, <3>1 DEF AwaitResume, handleVars
    <3>2. ASSUME NEW g \in Frames, Yield(t, g) \/ Sleep(t, g) \/ Await(t, g) PROVE HasDriver(f)'
      BY <2>6, <3>2 DEF Yield, Sleep, Await
    <3>3. ~Stumble(t)
      BY DEF Stumble
    <3> QED  BY <2>3, <2>5, <2>7, <2>8, <3>1, <3>2, <3>3 DEF Body
  <2>9. ASSUME NEW g \in Frames, SleepDone(g) PROVE HasDriver(f)'
    BY <2>1, <2>2, <2>9 DEF SleepDone, Scheduled
  <2>10. ASSUME NEW e \in Executors, NEW g \in Frames, Take(e, g) PROVE HasDriver(f)'
    <3>1. /\ stack[e] = <<>> /\ queued[g] > 0 /\ queued' = [queued EXCEPT ![g] = @ - 1]
          /\ state[g] \in {"suspended", "running", "done", "destroyed"}
          /\ state[g] \in {"suspended", "running"} => stack' = [stack EXCEPT ![e] = <<g>>]
          /\ state[g] \in {"done", "destroyed"} => stack' = stack /\ state' = state
      BY <2>10 DEF Take, ExecutorFree
    <3>2. CASE g = f
      <4>1. stack'[e] = <<f>>
        BY <2>1, <3>1, <3>2
      <4> QED  BY <4>1 DEF HasDriver, Resumes
    <3>3. CASE g # f
      <4>1. queued'[f] = queued[f]
        BY <2>1, <3>1, <3>3
      <4>2. ASSUME NEW u \in Executors, Resumes(u, f) PROVE Resumes(u, f)'
        <5>1. u # e
          BY <3>1, <4>2 DEF Resumes
        <5>2. stack'[u] = stack[u]
          BY <2>1, <3>1, <5>1
        <5> QED  BY <4>2, <5>2 DEF Resumes
      <4> QED  BY <4>1, <4>2 DEF HasDriver
    <3> QED  BY <3>2, <3>3
  <2>11. ASSUME NEW v, NEW w, MoveAssign(v, w) \/ Drop(v) PROVE HasDriver(f)'
    BY <2>2, <2>11 DEF MoveAssign, Drop, handleVars
  <2>12. ~StopRuntime
    BY DEF StopRuntime
  <2> QED  BY <2>1, <2>3, <2>7, <2>8, <2>9, <2>10, <2>11, <2>12 DEF Next, ClientStep
<1> QED  BY <1>1, DriveInit, DriveStep, PTL DEF Spec, DriverStays

=============================================================================
