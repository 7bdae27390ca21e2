-------------------------- MODULE TraversalProofs --------------------------
(***************************************************************************)
(* What the walks of module Traversal find, for every graph and query: no  *)
(* walk finds what is not there, and none misses what is unless it was cut *)
(* short.                                                                  *)
(***************************************************************************)
EXTENDS Traversal, TLAPS, FiniteSetTheorems

-----------------------------------------------------------------------------
(* The stack. *)

LEMMA AppendTyped ==
    ASSUME NEW S, NEW s \in Seq(S), NEW e \in S
    PROVE  /\ Append(s, e) \in Seq(S)
           /\ Len(Append(s, e)) = Len(s) + 1
           /\ Append(s, e)[Len(s) + 1] = e
           /\ \A i \in 1 .. Len(s) : Append(s, e)[i] = s[i]
    OBVIOUS

\* Replacing the top frame leaves a stack of the same height, with the same frames
\* below.
LEMMA TopReplaced ==
    ASSUME stack \in Seq(FrameType), stack # <<>>,
           NEW frame \in FrameType
    PROVE  /\ WithTop(frame) \in Seq(FrameType)
           /\ Len(WithTop(frame)) = Len(stack)
           /\ WithTop(frame)[Len(stack)] = frame
           /\ \A i \in 1 .. Len(stack) - 1 : WithTop(frame)[i] = stack[i]
    BY DEF WithTop

\* The top frame is a frame, and there is one.
LEMMA TopTyped ==
    ASSUME stack \in Seq(FrameType), stack # <<>>
    PROVE  /\ Len(stack) \in Nat \ {0}
           /\ Top = stack[Len(stack)]
           /\ Top \in FrameType
           /\ Top.node \in Node /\ Top.rest \in Seq(Node)
           /\ Top.open \in BOOLEAN /\ Top.went \in BOOLEAN
  <1>1. Len(stack) \in Nat \ {0}
    OBVIOUS
  <1>2. stack[Len(stack)] \in FrameType
    BY <1>1
  <1>3. Top \in FrameType
    BY <1>2 DEF Top
  <1> QED
    BY <1>1, <1>3 DEF Top, FrameType

\* The frames below the top are a stack.
LEMMA CallersTyped ==
    ASSUME stack \in Seq(FrameType), stack # <<>>
    PROVE  /\ Callers \in Seq(FrameType)
           /\ Len(Callers) = Len(stack) - 1
           /\ \A i \in 1 .. Len(stack) - 1 : Callers[i] = stack[i]
    BY DEF Callers, Depth

LEMMA PathTyped ==
    ASSUME stack \in Seq(FrameType)
    PROVE  /\ Trail \in Seq(Node)
           /\ Len(Trail) = Len(stack)
           /\ \A i \in 1 .. Len(stack) : Trail[i] = stack[i].node
  <1>1. Len(stack) \in Nat
    OBVIOUS
  <1>2. \A i \in 1 .. Len(stack) : stack[i].node \in Node
    <2> TAKE i \in 1 .. Len(stack)
    <2>1. stack[i] \in FrameType
      OBVIOUS
    <2> QED
      BY <2>1 DEF FrameType
  <1>3. Trail \in [1 .. Len(stack) -> Node]
    BY <1>2 DEF Trail
  <1> QED
    BY <1>1, <1>3 DEF Trail

LEMMA NeighborTyped ==
    ASSUME stack \in Seq(FrameType), Looking
    PROVE  /\ Neighbor \in Node
           /\ Tail(Top.rest) \in Seq(Node)
           /\ Len(Top.rest) \in Nat \ {0}
           /\ Neighbor = Top.rest[1]
           /\ Len(Tail(Top.rest)) = Len(Top.rest) - 1
           /\ \A i \in 1 .. Len(Top.rest) - 1 : Tail(Top.rest)[i] = Top.rest[i + 1]
    BY TopTyped DEF Looking, Neighbor

-----------------------------------------------------------------------------
(* Types. *)

\* What is collected in a mode.
Kind == IF Mode = "nodes" THEN Node ELSE Seq(Node)

LEMMA LookedTyped ==
    ASSUME stack \in Seq(FrameType), Looking, NEW went \in BOOLEAN
    PROVE  /\ Looked(went) \in Seq(FrameType)
           /\ Len(Looked(went)) = Len(stack)
           /\ Looked(went)[Len(stack)] =
                 [Top EXCEPT !.rest = Tail(@), !.went = @ \/ went]
           /\ \A i \in 1 .. Len(stack) - 1 : Looked(went)[i] = stack[i]
  <1>1. [Top EXCEPT !.rest = Tail(@), !.went = @ \/ went] \in FrameType
    <2>1. Top \in FrameType /\ Tail(Top.rest) \in Seq(Node) /\ Top.went \in BOOLEAN
      BY TopTyped, NeighborTyped DEF Looking
    <2>2. (Top.went \/ went) \in BOOLEAN
      OBVIOUS
    <2> QED
      BY <2>1, <2>2 DEF FrameType
  <1> QED
    BY <1>1, TopReplaced DEF Looked, Looking

\* A walk at its start.
Begun ==
    /\ q \in QueryType
    /\ stack = <<Frame(q.start)>>
    /\ visited = IF q.mode = "nodes" THEN {} ELSE {q.start}
    /\ out = <<>>

LEMMA InitBegins == Init => Begun
  BY TraversalAssumption DEF Init, Begun

LEMMA TypeInit == Begun => TypeOK
  <1> SUFFICES ASSUME Begun PROVE TypeOK
    OBVIOUS
  <1>1. q \in QueryType /\ q.start \in Node
    BY DEF Begun, QueryType
  <1>2. Frame(q.start) \in FrameType
    BY <1>1 DEF Frame, FrameType
  <1> QED
    BY <1>1, <1>2 DEF Begun, TypeOK

\* A query never changes, nor does what hangs on it alone.
LEMMA QueryKept ==
    ASSUME [Next]_walk
    PROVE  q' = q /\ Mode' = Mode
    BY DEF Next, walk, CutFull, CutDeep, Open, Skip, Stop, Go, Return, Leave, Mode

LEMMA TypeNext == TypeOK /\ [Next]_walk => TypeOK'
  <1> SUFFICES ASSUME TypeOK, [Next]_walk PROVE TypeOK'
    OBVIOUS
  <1>q. q' = q /\ Mode' = Mode /\ q \in QueryType
    BY QueryKept DEF TypeOK
  <1>s. stack \in Seq(FrameType) /\ visited \in SUBSET Node /\ out \in Seq(Kind)
    BY DEF TypeOK, Kind
  <1>k. TypeOK' <=> /\ stack' \in Seq(FrameType)
                    /\ visited' \in SUBSET Node
                    /\ out' \in Seq(Kind)
    BY <1>q DEF TypeOK, Kind
  <1>l. ASSUME Leave, stack # <<>>
        PROVE  stack' \in Seq(FrameType) /\ visited' \in SUBSET Node
    BY <1>l, <1>s, CallersTyped DEF Leave
  <1>p. ASSUME Mode # "nodes" PROVE Trail \in Kind
    BY <1>p, <1>s, PathTyped DEF Kind
  <1>1. CASE CutFull
    BY <1>1, <1>k, <1>l, <1>s DEF CutFull, Entering
  <1>2. CASE CutDeep
    <2>1. stack' \in Seq(FrameType) /\ visited' \in SUBSET Node
      BY <1>2, <1>l DEF CutDeep, Entering
    <2>2. out' \in Seq(Kind)
      BY <1>2, <1>s, <1>p DEF CutDeep
    <2> QED
      BY <2>1, <2>2, <1>k
  <1>3. CASE Open
    <2>1. [Top EXCEPT !.open = TRUE, !.rest = q.nbrs[Top.node]] \in FrameType
      BY <1>3, <1>q, <1>s, TopTyped DEF Open, Entering, FrameType, QueryType
    <2>2. stack' \in Seq(FrameType)
      BY <1>3, <1>s, <2>1, TopReplaced DEF Open, Entering
    <2> QED
      BY <1>3, <2>2, <1>k, <1>s DEF Open
  <1>4. CASE Skip
    BY <1>4, <1>s, <1>k, LookedTyped DEF Skip
  <1>5. CASE Stop
    <2>1. stack' \in Seq(FrameType)
      BY <1>5, <1>s, LookedTyped DEF Stop
    <2>2. Neighbor \in Node
      BY <1>5, <1>s, NeighborTyped DEF Stop
    <2>3. visited' \in SUBSET Node
      BY <1>5, <1>s, <2>2 DEF Stop
    <2>4. (IF Mode = "nodes" THEN Neighbor ELSE Append(Trail, Neighbor)) \in Kind
      <3>1. Trail \in Seq(Node)
        BY <1>s, PathTyped
      <3>2. Append(Trail, Neighbor) \in Seq(Node)
        BY <2>2, <3>1
      <3> QED
        BY <2>2, <3>2 DEF Kind
    <2>5. out' \in Seq(Kind)
      BY <1>5, <2>4, <1>s DEF Stop
    <2> QED
      BY <2>1, <2>3, <2>5, <1>k
  <1>6. CASE Go
    <2>1. Neighbor \in Node
      BY <1>6, <1>s, NeighborTyped DEF Go
    <2>2. Frame(Neighbor) \in FrameType
      BY <2>1 DEF Frame, FrameType
    <2>3. stack' \in Seq(FrameType)
      <3>1. Looked(TRUE) \in Seq(FrameType)
        BY <1>6, <1>s, LookedTyped DEF Go
      <3>2. stack' = Append(Looked(TRUE), Frame(Neighbor))
        BY <1>6 DEF Go
      <3> QED
        BY <2>2, <3>1, <3>2, AppendTyped
    <2>4. visited' \in SUBSET Node
      BY <1>6, <1>s, <2>1 DEF Go
    <2>5. out' \in Seq(Kind)
      <3>1. CASE Mode = "nodes" /\ Neighbor \in q.pass
        BY <1>6, <1>s, <2>1, <3>1 DEF Go, Kind
      <3>2. CASE ~(Mode = "nodes" /\ Neighbor \in q.pass)
        BY <1>6, <1>s, <3>2 DEF Go
      <3> QED
        BY <3>1, <3>2
    <2> QED
      BY <2>3, <2>4, <2>5, <1>k
  <1>7. CASE Return
    <2>1. stack' \in Seq(FrameType) /\ visited' \in SUBSET Node
      BY <1>7, <1>l DEF Return
    <2>2. out' \in Seq(Kind)
      BY <1>7, <1>s, <1>p DEF Return
    <2> QED
      BY <2>1, <2>2, <1>k
  <1>8. CASE UNCHANGED walk
    BY <1>8, <1>s, <1>k DEF walk
  <1> QED
    BY <1>1, <1>2, <1>3, <1>4, <1>5, <1>6, <1>7, <1>8 DEF Next

\* The variables of a walk keep their types, for every graph and query.
THEOREM WalkTypeCorrect == Spec => []TypeOK
  <1> QED
    BY InitBegins, TypeInit, TypeNext, PTL DEF Spec

-----------------------------------------------------------------------------
(* Paths.  PathsSound is not inductive: a path is copied from the stack, so *)
(* the invariant says the same of the stack, and what is left to look at.  *)

\* Where a path may pass through.
Through(n) ==
    n \in q.pass /\ n \notin q.until /\ ~(Mode = "target" /\ n = q.target)

Listed(n, m) == \E k \in 1 .. Len(q.nbrs[n]) : q.nbrs[n][k] = m

\* The nodes of the stack are a path the search may take, in visited.
StackIsPath ==
    /\ stack[1].node = q.start
    /\ \A i \in 2 .. Len(stack) :
          Step(stack[i - 1].node, stack[i].node) /\ Through(stack[i].node)
    /\ \A i, j \in 1 .. Len(stack) : stack[i].node = stack[j].node => i = j
    /\ visited = {stack[i].node : i \in 1 .. Len(stack)}

\* Every frame but the top one has gone on; an open one lies within the depth.
FramesOpen ==
    /\ \A i \in 1 .. Len(stack) - 1 : stack[i].open /\ stack[i].went
    /\ \A i \in 1 .. Len(stack) :
          stack[i].open => q.depth = NoLimit \/ i <= q.depth

\* What a frame has left are neighbours of its node, and a frame which went
\* nowhere yet has left all the neighbours it may still go to.
RestListed ==
    /\ \A i \in 1 .. Len(stack) : \A j \in 1 .. Len(stack[i].rest) :
          Listed(stack[i].node, stack[i].rest[j])
    /\ Top.open /\ ~Top.went =>
          \A m \in q.pass :
              Step(Top.node, m) =>
                  m \in visited \/ \E j \in 1 .. Len(Top.rest) : Top.rest[j] = m

PathInv ==
    /\ TypeOK
    /\ Mode # "nodes" /\ stack # <<>> => StackIsPath /\ FramesOpen /\ RestListed
    /\ PathsSound

LEMMA PathInit == Begun => PathInv
  <1> SUFFICES ASSUME Begun PROVE PathInv
    OBVIOUS
  <1>1. TypeOK
    BY TypeInit
  <1>2. stack = <<Frame(q.start)>> /\ Len(stack) = 1 /\ stack[1] = Frame(q.start)
    BY DEF Begun
  <1>3. ASSUME Mode # "nodes" PROVE StackIsPath
    <2>1. visited = {q.start}
      BY <1>3 DEF Begun, Mode
    <2> QED
      BY <1>2, <2>1 DEF StackIsPath, Frame
  <1>4. FramesOpen /\ RestListed
    BY <1>2 DEF FramesOpen, RestListed, Frame, Top
  <1>5. PathsSound
    BY DEF Begun, PathsSound, Results
  <1> QED
    BY <1>1, <1>3, <1>4, <1>5 DEF PathInv

\* The steps which only change the top frame.
LEMMA TopStep ==
    ASSUME TypeOK, Open \/ Skip \/ Stop
    PROVE  /\ stack # <<>> /\ stack' # <<>> /\ stack' \in Seq(FrameType)
           /\ Len(stack) \in Nat \ {0} /\ Len(stack') = Len(stack)
           /\ \A i \in 1 .. Len(stack) - 1 : stack'[i] = stack[i]
           /\ stack'[Len(stack)].node = Top.node
           /\ Top = stack[Len(stack)] /\ Top' = stack'[Len(stack)]
  <1>1. stack # <<>> /\ stack \in Seq(FrameType)
    BY DEF TypeOK, Open, Skip, Stop, Entering, Looking
  <1>2. Len(stack) \in Nat \ {0} /\ Top = stack[Len(stack)] /\ Top \in FrameType
    BY <1>1, TopTyped
  <1>3. CASE Open
    <2>1. [Top EXCEPT !.open = TRUE, !.rest = q.nbrs[Top.node]] \in FrameType
      BY <1>2 DEF TypeOK, FrameType, QueryType
    <2>2. [Top EXCEPT !.open = TRUE, !.rest = q.nbrs[Top.node]].node = Top.node
      BY <1>2 DEF FrameType
    <2>3. stack' = WithTop([Top EXCEPT !.open = TRUE, !.rest = q.nbrs[Top.node]])
      BY <1>3 DEF Open
    <2>4. stack' \in Seq(FrameType) /\ Len(stack') = Len(stack)
          /\ stack'[Len(stack)].node = Top.node
          /\ \A i \in 1 .. Len(stack) - 1 : stack'[i] = stack[i]
      BY <1>1, <2>1, <2>2, <2>3, TopReplaced
    <2> QED
      BY <1>1, <1>2, <2>4 DEF Top
  <1>4. ASSUME NEW went \in BOOLEAN, Looking, stack' = Looked(went)
        PROVE  /\ stack' \in Seq(FrameType) /\ Len(stack') = Len(stack)
               /\ stack'[Len(stack)].node = Top.node
               /\ \A i \in 1 .. Len(stack) - 1 : stack'[i] = stack[i]
    <2>1. [Top EXCEPT !.rest = Tail(@), !.went = @ \/ went].node = Top.node
      BY <1>2 DEF FrameType
    <2> QED
      BY <1>1, <1>4, <2>1, LookedTyped
  <1>5. CASE Skip
    BY <1>1, <1>2, <1>4, <1>5 DEF Skip, Top
  <1>6. CASE Stop
    BY <1>1, <1>2, <1>4, <1>6 DEF Stop, Top
  <1> QED
    BY <1>3, <1>5, <1>6

\* Such a step keeps the path, if it keeps visited.
LEMMA SamePath ==
    ASSUME TypeOK, Open \/ Skip \/ Stop, visited' = visited, q' = q, Mode' = Mode,
           StackIsPath
    PROVE  StackIsPath'
  <1>1. \A i \in 1 .. Len(stack) : stack'[i].node = stack[i].node
    BY TopStep
  <1>2. Len(stack') = Len(stack) /\ Len(stack) \in Nat \ {0}
    BY TopStep
  <1>5. stack'[1].node = q'.start
    BY <1>1, <1>2 DEF StackIsPath
  <1>6. \A i \in 2 .. Len(stack') :
           Step(stack[i - 1].node, stack[i].node)' /\ Through(stack[i].node)'
    <2> SUFFICES ASSUME NEW i \in 2 .. Len(stack')
                 PROVE  Step(stack[i - 1].node, stack[i].node)' /\ Through(stack[i].node)'
      OBVIOUS
    <2>1. i \in 2 .. Len(stack) /\ i \in 1 .. Len(stack) /\ i - 1 \in 1 .. Len(stack)
      BY <1>2
    <2>2. stack'[i - 1].node = stack[i - 1].node /\ stack'[i].node = stack[i].node
      BY <1>1, <2>1
    <2>3. Step(stack[i - 1].node, stack[i].node) /\ Through(stack[i].node)
      BY <2>1 DEF StackIsPath
    <2>4. Step(stack[i - 1].node, stack[i].node)'
      BY <2>2, <2>3 DEF Step
    <2>5. Through(stack[i].node)'
      BY <2>2, <2>3 DEF Through
    <2> QED
      BY <2>4, <2>5
  <1>7. \A i, j \in 1 .. Len(stack') : stack'[i].node = stack'[j].node => i = j
    BY <1>1, <1>2 DEF StackIsPath
  <1>8. visited' = {stack'[i].node : i \in 1 .. Len(stack')}
    BY <1>1, <1>2 DEF StackIsPath
  <1> QED
    BY <1>5, <1>6, <1>7, <1>8 DEF StackIsPath

\* What was listed of a frame which did not change still is.
LEMMA RestBelow ==
    ASSUME RestListed, q' = q,
           NEW i \in 1 .. Len(stack), stack'[i] = stack[i],
           NEW j \in 1 .. Len(stack'[i].rest)
    PROVE  Listed(stack[i].node, stack[i].rest[j])'
  <1>1. Listed(stack[i].node, stack[i].rest[j])
    BY DEF RestListed
  <1> QED
    BY <1>1 DEF Listed

\* The stack after each kind of step.
LEMMA OpenKeeps ==
    ASSUME PathInv, Mode # "nodes", Open, q' = q, Mode' = Mode
    PROVE  StackIsPath' /\ FramesOpen' /\ RestListed'
  <1>1. TypeOK /\ stack # <<>> /\ StackIsPath /\ FramesOpen /\ RestListed
    BY TopStep DEF PathInv
  <1>2. visited' = visited
    BY DEF Open
  <1>3. StackIsPath'
    BY <1>1, <1>2, SamePath
  <1>4. /\ Len(stack) \in Nat \ {0} /\ Len(stack') = Len(stack)
        /\ \A i \in 1 .. Len(stack) - 1 : stack'[i] = stack[i]
        /\ Top = stack[Len(stack)] /\ Top' = stack'[Len(stack)]
    BY <1>1, TopStep
  <1>5. Top \in FrameType /\ stack \in Seq(FrameType)
    BY <1>1, TopTyped DEF TypeOK
  <1>6. /\ Top'.open /\ Top'.rest = q.nbrs[Top.node] /\ Top'.node = Top.node
        /\ Top'.went = Top.went
    <2>1. [Top EXCEPT !.open = TRUE, !.rest = q.nbrs[Top.node]] \in FrameType
      BY <1>1, <1>5 DEF TypeOK, FrameType, QueryType
    <2>2. Top' = [Top EXCEPT !.open = TRUE, !.rest = q.nbrs[Top.node]]
      BY <1>1, <1>4, <1>5, <2>1, TopReplaced DEF Open
    <2> QED
      BY <1>5, <2>2 DEF FrameType
  <1>7. q.depth = NoLimit \/ Len(stack) <= q.depth
    <2>1. q.depth \in Limit
      BY <1>1 DEF TypeOK, QueryType
    <2>2. q.depth # NoLimit => ~(Len(stack) - 1 >= q.depth)
      BY DEF Open, Deep, Depth
    <2> QED
      BY <1>4, <2>1, <2>2 DEF Limit
  <1>8. FramesOpen'
    BY <1>1, <1>4, <1>7 DEF FramesOpen
  <1>9. RestListed'
    <2>1. \A i \in 1 .. Len(stack') : \A j \in 1 .. Len(stack'[i].rest) :
             Listed(stack[i].node, stack[i].rest[j])'
      <3> SUFFICES ASSUME NEW i \in 1 .. Len(stack),
                          NEW j \in 1 .. Len(stack'[i].rest)
                   PROVE  Listed(stack[i].node, stack[i].rest[j])'
        BY <1>4
      <3>1. CASE i = Len(stack)
        BY <1>4, <1>6, <3>1 DEF Listed
      <3>2. CASE i # Len(stack)
        BY <1>1, <1>4, <3>2, RestBelow
      <3> QED
        BY <3>1, <3>2
    <2>2. \A m : Step(Top.node, m)' => \E j \in 1 .. Len(Top'.rest) : Top'.rest[j] = m
      BY <1>6 DEF Step
    <2> QED
      BY <2>1, <2>2 DEF RestListed
  <1> QED
    BY <1>3, <1>8, <1>9

\* A neighbour was looked at: it is one the search cannot go to, or went is set.
LEMMA LookedKeeps ==
    ASSUME PathInv, Mode # "nodes", Skip \/ Stop, q' = q, Mode' = Mode
    PROVE  StackIsPath' /\ FramesOpen' /\ RestListed'
  <1>1. TypeOK /\ stack # <<>> /\ StackIsPath /\ FramesOpen /\ RestListed
        /\ Looking
    BY TopStep DEF PathInv, Skip, Stop
  <1>2. visited' = visited
    BY DEF Skip, Stop
  <1>3. StackIsPath'
    BY <1>1, <1>2, SamePath
  <1>4. /\ Len(stack) \in Nat \ {0} /\ Len(stack') = Len(stack)
        /\ \A i \in 1 .. Len(stack) - 1 : stack'[i] = stack[i]
        /\ Top = stack[Len(stack)] /\ Top' = stack'[Len(stack)]
    BY <1>1, TopStep
  <1>5. Top \in FrameType /\ stack \in Seq(FrameType)
    BY <1>1, TopTyped DEF TypeOK
  <1>6. /\ Top'.open = Top.open /\ Top'.rest = Tail(Top.rest)
        /\ Top'.node = Top.node /\ Top'.went = (Top.went \/ Stop)
    <2>1. ASSUME NEW went \in BOOLEAN, stack' = Looked(went)
          PROVE  /\ Top'.open = Top.open /\ Top'.rest = Tail(Top.rest)
                 /\ Top'.node = Top.node /\ Top'.went = (Top.went \/ went)
      <3>1. Top' = [Top EXCEPT !.rest = Tail(@), !.went = @ \/ went]
        BY <1>1, <1>4, <1>5, <2>1, LookedTyped
      <3> QED
        BY <1>5, <3>1 DEF FrameType
    <2>2. CASE Skip
      BY <2>1, <2>2 DEF Skip, Stop
    <2>3. CASE Stop
      BY <2>1, <2>3 DEF Stop
    <2> QED
      BY <2>2, <2>3
  <1>7. FramesOpen'
    BY <1>1, <1>4, <1>6 DEF FramesOpen
  <1>8. /\ Neighbor = Top.rest[1] /\ Len(Top.rest) \in Nat \ {0}
        /\ Len(Tail(Top.rest)) = Len(Top.rest) - 1
        /\ \A i \in 1 .. Len(Top.rest) - 1 : Tail(Top.rest)[i] = Top.rest[i + 1]
    BY <1>1, <1>5, NeighborTyped
  <1>9. \A i \in 1 .. Len(stack') : \A j \in 1 .. Len(stack'[i].rest) :
           Listed(stack[i].node, stack[i].rest[j])'
    <2> SUFFICES ASSUME NEW i \in 1 .. Len(stack), NEW j \in 1 .. Len(stack'[i].rest)
                 PROVE  Listed(stack[i].node, stack[i].rest[j])'
      BY <1>4
    <2>1. CASE i < Len(stack)
      BY <1>1, <1>4, <2>1, RestBelow
    <2>2. CASE i = Len(stack)
      <3>1. stack'[i] = Top' /\ stack[i] = Top
        BY <1>4, <2>2
      <3>2. j \in 1 .. Len(Tail(Top.rest))
        BY <1>6, <3>1
      <3>3. j \in 1 .. Len(Top.rest) - 1 /\ j + 1 \in 1 .. Len(Top.rest)
        BY <1>8, <3>2
      <3>4. stack'[i].rest[j] = Top.rest[j + 1]
        BY <1>6, <1>8, <3>1, <3>3
      <3>5. Listed(Top.node, Top.rest[j + 1])
        BY <1>1, <3>1, <3>3 DEF RestListed
      <3> QED
        BY <1>6, <3>1, <3>4, <3>5 DEF Listed
    <2> QED
      BY <1>4, <2>1, <2>2
  <1>10. ASSUME Top'.open, ~Top'.went, NEW m \in q.pass, Step(Top.node, m)'
         PROVE  m \in visited' \/ \E j \in 1 .. Len(Top'.rest) : Top'.rest[j] = m
    <2>1. ~Stop /\ Skip /\ ~Goes
      BY <1>6, <1>10 DEF Skip, Stop
    <2>2. Step(Top.node, m)
      BY <1>6, <1>10 DEF Step
    <2>3. m \in visited \/ \E j \in 1 .. Len(Top.rest) : Top.rest[j] = m
      BY <1>1, <1>6, <1>10, <2>1, <2>2 DEF RestListed
    <2>4. CASE m = Neighbor
      BY <1>2, <2>1, <2>2, <2>4 DEF Goes, Step
    <2>5. CASE m # Neighbor /\ m \notin visited
      <3>1. PICK j \in 1 .. Len(Top.rest) : Top.rest[j] = m
        BY <2>3, <2>5
      <3>2. j # 1 /\ j - 1 \in 1 .. Len(Top.rest) - 1
        BY <1>8, <2>5, <3>1
      <3>3. Top'.rest[j - 1] = m /\ j - 1 \in 1 .. Len(Top'.rest)
        BY <1>6, <1>8, <3>1, <3>2
      <3> QED
        BY <3>3
    <2> QED
      BY <1>2, <2>4, <2>5
  <1> QED
    BY <1>3, <1>7, <1>9, <1>10 DEF RestListed

LEMMA GoKeeps ==
    ASSUME PathInv, Mode # "nodes", Go, q' = q, Mode' = Mode
    PROVE  StackIsPath' /\ FramesOpen' /\ RestListed'
  <1> DEFINE n == Len(stack)
  <1>1. TypeOK /\ Looking /\ stack # <<>> /\ stack \in Seq(FrameType)
        /\ StackIsPath /\ FramesOpen /\ RestListed
    BY DEF PathInv, Go, Looking, TypeOK
  <1>2. /\ n \in Nat \ {0} /\ Top = stack[n] /\ Top \in FrameType
        /\ Top.open /\ Len(Top.rest) \in Nat \ {0} /\ Neighbor = Top.rest[1]
    BY <1>1, TopTyped, NeighborTyped DEF Looking
  <1>3. PICK s \in Seq(FrameType) :
           /\ stack' = Append(s, Frame(Neighbor))
           /\ Len(s) = n
           /\ s[n] = [Top EXCEPT !.rest = Tail(@), !.went = @ \/ TRUE]
           /\ \A i \in 1 .. n - 1 : s[i] = stack[i]
    BY <1>1, LookedTyped DEF Go
  <1>4. Frame(Neighbor) \in FrameType
    BY <1>1, NeighborTyped DEF Frame, FrameType
  <1>5. /\ Len(stack') = n + 1 /\ stack'[n + 1] = Frame(Neighbor)
        /\ \A i \in 1 .. n : stack'[i] = s[i]
    BY <1>3, <1>4, AppendTyped
  <1>6. /\ \A i \in 1 .. n - 1 : stack'[i] = stack[i]
        /\ stack'[n] = [Top EXCEPT !.rest = Tail(@), !.went = @ \/ TRUE]
    BY <1>2, <1>3, <1>5
  <1>7. /\ stack'[n].node = Top.node /\ stack'[n].open /\ stack'[n].went
        /\ stack'[n].rest = Tail(Top.rest)
    BY <1>2, <1>6 DEF FrameType
  <1>8. /\ stack'[n + 1].node = Neighbor /\ ~stack'[n + 1].open
        /\ stack'[n + 1].rest = <<>>
    BY <1>5 DEF Frame
  <1>9. \A i \in 1 .. n : stack'[i].node = stack[i].node
    <2> TAKE i \in 1 .. n
    <2>1. i = n \/ i \in 1 .. n - 1
      BY <1>2
    <2> QED
      BY <1>2, <1>6, <1>7, <2>1
  <1>10. Step(Top.node, Neighbor) /\ Through(Neighbor) /\ Neighbor \notin visited
    <2>1. Listed(Top.node, Neighbor)
      BY <1>1, <1>2 DEF RestListed
    <2>2. <<Top.node, Neighbor>> \in q.match /\ Neighbor \in q.pass
          /\ Neighbor \notin visited /\ ~Stops
      BY DEF Go, Goes
    <2> QED
      BY <2>1, <2>2 DEF Step, Listed, Through, Stops
  <1>11. StackIsPath'
    <2>1. stack'[1].node = q'.start
      BY <1>1, <1>2, <1>9 DEF StackIsPath
    <2>2. ASSUME NEW i \in 2 .. n + 1
          PROVE  Step(stack[i - 1].node, stack[i].node)' /\ Through(stack[i].node)'
      <3>1. CASE i = n + 1
        BY <1>2, <1>7, <1>8, <1>10, <3>1 DEF Step, Through
      <3>2. CASE i \in 2 .. n
        <4>1. Step(stack[i - 1].node, stack[i].node) /\ Through(stack[i].node)
          BY <1>1, <3>2 DEF StackIsPath
        <4>2. stack'[i].node = stack[i].node /\ stack'[i - 1].node = stack[i - 1].node
          BY <1>2, <1>9, <3>2
        <4> QED
          BY <4>1, <4>2 DEF Step, Through
      <3> QED
        BY <1>2, <3>1, <3>2
    <2>3. \A i, j \in 1 .. n + 1 : stack'[i].node = stack'[j].node => i = j
      <3>1. \A i \in 1 .. n : stack'[i].node \in visited
        BY <1>1, <1>9 DEF StackIsPath
      <3>2. \A i, j \in 1 .. n : stack'[i].node = stack'[j].node => i = j
        BY <1>1, <1>9 DEF StackIsPath
      <3> TAKE i, j \in 1 .. n + 1
      <3>3. CASE i = n + 1 /\ j \in 1 .. n
        BY <1>8, <1>10, <3>1, <3>3
      <3>4. CASE i \in 1 .. n /\ j = n + 1
        BY <1>8, <1>10, <3>1, <3>4
      <3>5. CASE i \in 1 .. n /\ j \in 1 .. n
        BY <3>2, <3>5
      <3>6. CASE i = n + 1 /\ j = n + 1
        BY <3>6
      <3> QED
        BY <1>2, <3>3, <3>4, <3>5, <3>6
    <2>4. visited' = {stack'[i].node : i \in 1 .. n + 1}
      <3>1. visited' = visited \cup {Neighbor}
        BY DEF Go
      <3>2. visited = {stack'[i].node : i \in 1 .. n}
        <4>1. visited = {stack[i].node : i \in 1 .. n}
          BY <1>1 DEF StackIsPath
        <4> HIDE DEF n
        <4>2. \A m : m \in {stack'[i].node : i \in 1 .. n} <=> m \in visited
          BY <1>9, <4>1
        <4> QED
          BY <4>2
      <3>3. 1 .. n + 1 = (1 .. n) \cup {n + 1}
        BY <1>2
      <3> QED
        BY <1>8, <3>1, <3>2, <3>3
    <2> QED
      BY <1>5, <2>1, <2>2, <2>3, <2>4 DEF StackIsPath
  <1>12. FramesOpen'
    <2>1. \A i \in 1 .. n : stack'[i].open /\ stack'[i].went
      <3> TAKE i \in 1 .. n
      <3>1. CASE i = n
        BY <1>7, <3>1
      <3>2. CASE i \in 1 .. n - 1
        <4>1. stack[i].open /\ stack[i].went
          BY <1>1, <3>2 DEF FramesOpen
        <4> QED
          BY <1>6, <3>2, <4>1
      <3> QED
        BY <1>2, <3>1, <3>2
    <2>2. \A i \in 1 .. n : q.depth = NoLimit \/ i <= q.depth
      BY <1>1, <1>2 DEF FramesOpen
    <2> QED
      BY <1>2, <1>5, <1>8, <2>1, <2>2 DEF FramesOpen
  <1>13. RestListed'
    <2>1. ASSUME NEW i \in 1 .. n + 1, NEW j \in 1 .. Len(stack'[i].rest)
          PROVE  Listed(stack[i].node, stack[i].rest[j])'
      <3>1. CASE i \in 1 .. n - 1
        BY <1>1, <1>2, <1>6, <3>1, RestBelow
      <3>2. CASE i = n
        <4>1. j \in 1 .. Len(Tail(Top.rest))
          BY <1>7, <3>2
        <4>2. j \in 1 .. Len(Top.rest) - 1 /\ j + 1 \in 1 .. Len(Top.rest)
              /\ Tail(Top.rest)[j] = Top.rest[j + 1]
          BY <1>1, <4>1, NeighborTyped
        <4>3. Listed(Top.node, Top.rest[j + 1])
          BY <1>1, <1>2, <4>2 DEF RestListed
        <4> QED
          BY <1>7, <3>2, <4>2, <4>3 DEF Listed
      <3>3. CASE i = n + 1
        BY <1>8, <3>3
      <3> QED
        BY <1>2, <3>1, <3>2, <3>3
    <2>2. ~Top'.open
      BY <1>5, <1>8 DEF Top
    <2> QED
      BY <1>5, <2>1, <2>2 DEF RestListed
  <1> QED
    BY <1>11, <1>12, <1>13

LEMMA LeaveKeeps ==
    ASSUME PathInv, Mode # "nodes", stack # <<>>, Leave, q' = q, Mode' = Mode,
           stack' # <<>>
    PROVE  StackIsPath' /\ FramesOpen' /\ RestListed'
  <1> DEFINE n == Len(stack)
  <1>1. TypeOK /\ stack \in Seq(FrameType)
        /\ StackIsPath /\ FramesOpen /\ RestListed
    BY DEF PathInv, TypeOK
  <1>2. n \in Nat \ {0} /\ Top = stack[n]
    BY <1>1, TopTyped
  <1>3. stack' \in Seq(FrameType) /\ Len(stack') = n - 1
        /\ \A i \in 1 .. n - 1 : stack'[i] = stack[i]
    BY <1>1, CallersTyped DEF Leave
  <1>4. n - 1 \in 1 .. n - 1 /\ Top' = stack[n - 1]
    <2>1. Len(stack') # 0
      BY <1>3
    <2>2. n - 1 \in 1 .. n - 1
      BY <1>2, <1>3, <2>1
    <2> QED
      BY <1>3, <2>2 DEF Top
  <1>5. visited' = visited \ {stack[n].node}
    BY <1>2, <1>4 DEF Leave, Depth
  <1>6. StackIsPath'
    <2>1. stack'[1].node = q'.start
      BY <1>1, <1>3, <1>4 DEF StackIsPath
    <2>2. ASSUME NEW i \in 2 .. n - 1
          PROVE  Step(stack[i - 1].node, stack[i].node)' /\ Through(stack[i].node)'
      <3>1. Step(stack[i - 1].node, stack[i].node) /\ Through(stack[i].node)
        BY <1>1, <1>2 DEF StackIsPath
      <3>2. stack'[i] = stack[i] /\ stack'[i - 1] = stack[i - 1]
        BY <1>2, <1>3
      <3> QED
        BY <3>1, <3>2 DEF Step, Through
    <2>3. \A i, j \in 1 .. n - 1 : stack'[i].node = stack'[j].node => i = j
      BY <1>1, <1>2, <1>3 DEF StackIsPath
    <2>4. visited' = {stack'[i].node : i \in 1 .. n - 1}
      <3>1. visited = {stack[i].node : i \in 1 .. n}
            /\ \A i, j \in 1 .. n : stack[i].node = stack[j].node => i = j
        BY <1>1 DEF StackIsPath
      <3>2. 1 .. n = (1 .. n - 1) \cup {n} /\ n \notin 1 .. n - 1
        BY <1>2
      <3>3. {stack'[i].node : i \in 1 .. n - 1} = {stack[i].node : i \in 1 .. n - 1}
        BY <1>3
      <3>4. \A i \in 1 .. n - 1 : stack[i].node # stack[n].node
        BY <3>1, <3>2
      <3> QED
        BY <1>5, <3>1, <3>2, <3>3, <3>4
    <2> QED
      BY <1>3, <2>1, <2>2, <2>3, <2>4 DEF StackIsPath
  <1>7. FramesOpen'
    BY <1>1, <1>2, <1>3 DEF FramesOpen
  <1>8. RestListed'
    <2>1. ASSUME NEW i \in 1 .. n - 1, NEW j \in 1 .. Len(stack'[i].rest)
          PROVE  Listed(stack[i].node, stack[i].rest[j])'
      BY <1>1, <1>2, <1>3, RestBelow
    <2>2. Top'.went
      <3>1. stack[n - 1].went
        BY <1>1, <1>4 DEF FramesOpen
      <3> QED
        BY <1>4, <3>1
    <2> QED
      BY <1>3, <2>1, <2>2 DEF RestListed
  <1> QED
    BY <1>6, <1>7, <1>8

\* Every step keeps the stack as the invariant wants it.
LEMMA StackKept ==
    ASSUME PathInv, Mode # "nodes", [Next]_walk, stack' # <<>>
    PROVE  StackIsPath' /\ FramesOpen' /\ RestListed'
  <1>1. q' = q /\ Mode' = Mode
    BY QueryKept
  <1>2. CASE Open
    BY <1>1, <1>2, OpenKeeps
  <1>3. CASE Skip \/ Stop
    BY <1>1, <1>3, LookedKeeps
  <1>4. CASE Go
    BY <1>1, <1>4, GoKeeps
  <1>5. CASE CutFull \/ CutDeep \/ Return
    BY <1>1, <1>5, LeaveKeeps DEF CutFull, CutDeep, Return, Entering
  <1>6. CASE UNCHANGED walk
    <2>1. stack' = stack /\ visited' = visited /\ q' = q
      BY <1>6 DEF walk
    <2>2. StackIsPath /\ FramesOpen /\ RestListed
      BY <2>1 DEF PathInv
    <2>3. StackIsPath'
      BY <2>1, <2>2 DEF StackIsPath, Step, Through, Mode
    <2>4. FramesOpen'
      BY <2>1, <2>2 DEF FramesOpen
    <2>5. RestListed'
      BY <2>1, <2>2 DEF RestListed, Listed, Top, Step
    <2> QED
      BY <2>3, <2>4, <2>5
  <1> QED
    BY <1>2, <1>3, <1>4, <1>5, <1>6 DEF Next

-----------------------------------------------------------------------------
(* The results. *)

\* The path on the stack may be taken, and is within the depth.
LEMMA PathWalkable ==
    ASSUME TypeOK, stack # <<>>, StackIsPath, FramesOpen
    PROVE  /\ Walkable(Trail) /\ Short(Trail)
           /\ \A i \in 2 .. Len(Trail) : Through(Trail[i])
           /\ visited = {Trail[i] : i \in 1 .. Len(Trail)}
  <1>1. /\ stack \in Seq(FrameType) /\ Len(stack) \in Nat \ {0}
        /\ Len(Trail) = Len(stack)
        /\ \A i \in 1 .. Len(stack) : Trail[i] = stack[i].node
    BY PathTyped, TopTyped DEF TypeOK
  <1>2. Trail[1] = q.start /\ Distinct(Trail)
    BY <1>1 DEF StackIsPath, Distinct
  <1>3. \A i \in 2 .. Len(Trail) : Step(Trail[i - 1], Trail[i]) /\ Through(Trail[i])
    BY <1>1 DEF StackIsPath
  <1>4. Walkable(Trail)
    BY <1>1, <1>2, <1>3 DEF Walkable, Through
  <1>5. Short(Trail)
    <2>1. q.depth \in Limit
      BY DEF TypeOK, QueryType
    <2>2. CASE Len(stack) = 1
      BY <1>1, <2>1, <2>2 DEF Short, Limit
    <2>3. CASE Len(stack) # 1
      <3>1. Len(stack) - 1 \in 1 .. Len(stack) - 1
        BY <1>1, <2>3
      <3>2. q.depth = NoLimit \/ Len(stack) - 1 <= q.depth
        BY <1>1, <3>1 DEF FramesOpen
      <3> QED
        BY <1>1, <2>1, <3>2 DEF Short, Limit
    <2> QED
      BY <2>2, <2>3
  <1>6. visited = {Trail[i] : i \in 1 .. Len(Trail)}
    BY <1>1 DEF StackIsPath
  <1> QED
    BY <1>3, <1>4, <1>5, <1>6

\* Where a path stops it is a result.
LEMMA StopSought ==
    ASSUME PathInv, Mode # "nodes", Stop
    PROVE  Sought(Append(Trail, Neighbor))
  <1>1. TypeOK /\ Looking /\ stack # <<>> /\ stack \in Seq(FrameType)
        /\ StackIsPath /\ FramesOpen /\ RestListed
    BY DEF PathInv, Stop, Looking, TypeOK
  <1>2. PICK p \in Seq(Node) : p = Append(Trail, Neighbor)
    BY <1>1, PathTyped, NeighborTyped, AppendTyped
  <1>3. PICK n \in Nat \ {0} :
           /\ n = Len(stack) /\ n = Len(Trail) /\ Len(p) = n + 1
           /\ p[n + 1] = Neighbor /\ \A i \in 1 .. n : p[i] = Trail[i]
    <2>1. Len(stack) \in Nat \ {0} /\ Len(Trail) = Len(stack) /\ Trail \in Seq(Node)
          /\ Neighbor \in Node
      BY <1>1, PathTyped, TopTyped, NeighborTyped
    <2> QED
      BY <1>2, <2>1, AppendTyped
  <1>4. /\ Walkable(Trail) /\ \A i \in 2 .. n : Through(Trail[i])
        /\ visited = {Trail[i] : i \in 1 .. n}
    BY <1>1, <1>3, PathWalkable
  <1>5. /\ Trail[n] = Top.node /\ Top = stack[n] /\ Top.open
        /\ Neighbor = Top.rest[1] /\ 1 \in 1 .. Len(Top.rest)
    BY <1>1, <1>3, PathTyped, TopTyped, NeighborTyped DEF Looking
  <1>6. Step(Trail[n], Neighbor)
    <2>1. Listed(Top.node, Neighbor)
      BY <1>1, <1>3, <1>5 DEF RestListed
    <2> QED
      BY <1>5, <2>1 DEF Stop, Goes, Step, Listed
  <1>7. Neighbor \in q.pass /\ Neighbor \notin visited /\ Stops
    BY DEF Stop, Goes
  <1>8. Walkable(p)
    <2>1. p[1] = q.start
      BY <1>3, <1>4 DEF Walkable
    <2>2. Distinct(p)
      <3>1. \A i, j \in 1 .. n : p[i] = p[j] => i = j
        BY <1>3, <1>4 DEF Walkable, Distinct
      <3>2. \A i \in 1 .. n : p[i] # p[n + 1]
        BY <1>3, <1>4, <1>7
      <3>3. \A i \in 1 .. n + 1 : i \in 1 .. n \/ i = n + 1
        BY <1>3
      <3> QED
        BY <1>3, <3>1, <3>2, <3>3 DEF Distinct
    <2>3. ASSUME NEW i \in 2 .. n + 1
          PROVE  Step(p[i - 1], p[i]) /\ p[i] \in q.pass
      <3>1. CASE i = n + 1
        BY <1>3, <1>6, <1>7, <3>1
      <3>2. CASE i \in 2 .. n
        <4>1. i \in 1 .. n /\ i - 1 \in 1 .. n
          BY <3>2
        <4> QED
          BY <1>3, <1>4, <3>2, <4>1 DEF Walkable
      <3> QED
        BY <1>3, <3>1, <3>2
    <2>4. \A i \in 2 .. n : Through(p[i])
      BY <1>3, <1>4
    <2> QED
      BY <1>3, <2>1, <2>2, <2>3, <2>4 DEF Walkable, Through
  <1>9. Short(p)
    <2>1. q.depth \in Limit
      BY <1>1 DEF TypeOK, QueryType
    <2>2. q.depth = NoLimit \/ n <= q.depth
      BY <1>1, <1>3, <1>5 DEF FramesOpen
    <2> QED
      BY <1>3, <2>1, <2>2 DEF Short, Limit
  <1>10. Ends(p)
    BY <1>3, <1>7 DEF Ends, Stops
  <1> QED
    BY <1>2, <1>8, <1>9, <1>10 DEF Sought

\* Where a path is cut by the depth, or could not go on, it is one too.
LEMMA PathSought ==
    ASSUME PathInv, Mode = "paths", CutDeep \/ (Return /\ ~Top.went)
    PROVE  Sought(Trail)
  <1>1. TypeOK /\ stack # <<>> /\ stack \in Seq(FrameType)
        /\ StackIsPath /\ FramesOpen /\ RestListed
    BY DEF PathInv, CutDeep, Return, Entering, TypeOK
  <1>2. PICK n \in Nat \ {0} :
           /\ n = Len(stack) /\ n = Len(Trail) /\ Trail[n] = Top.node
    BY <1>1, PathTyped, TopTyped
  <1>3. Walkable(Trail) /\ Short(Trail) /\ visited = {Trail[i] : i \in 1 .. n}
    BY <1>1, <1>2, PathWalkable
  <1>4. CASE CutDeep
    <2>1. q.depth \in Limit
      BY <1>1 DEF TypeOK, QueryType
    <2>2. q.depth # NoLimit /\ n - 1 >= q.depth
      BY <1>2, <1>4 DEF CutDeep, Deep, Depth
    <2>3. n = q.depth + 1
      BY <1>2, <1>3, <2>1, <2>2 DEF Short, Limit
    <2> QED
      BY <1>2, <1>3, <2>2, <2>3 DEF Sought, Ends
  <1>5. CASE Return /\ ~Top.went
    <2>1. Top.open /\ Top.rest = <<>>
      BY <1>5 DEF Return
    <2>2. \A m \in q.pass : Step(Top.node, m) => m \in visited
      BY <1>1, <1>5, <2>1 DEF RestListed
    <2>3. \A m \in q.pass : Step(Trail[n], m) => \E i \in 1 .. n : Trail[i] = m
      BY <1>2, <1>3, <2>2
    <2> QED
      BY <1>2, <1>3, <2>3 DEF Sought, Ends
  <1> QED
    BY <1>4, <1>5

\* One more path the query asks for leaves the results sound.
LEMMA SoundKept ==
    ASSUME Mode # "nodes", TypeOK, PathsSound, q' = q, Mode' = Mode,
           out' = out \/ \E p \in Seq(Node) : out' = Append(out, p) /\ Sought(p)
    PROVE  PathsSound'
  <1>1. \A p : Sought(p)' <=> Sought(p)
    BY DEF Sought, Walkable, Short, Ends, Step
  <1>2. out \in Seq(Seq(Node))
    BY DEF TypeOK
  <1>3. CASE out' = out
    BY <1>1, <1>3 DEF PathsSound, Results
  <1>4. ASSUME NEW p \in Seq(Node), out' = Append(out, p), Sought(p)
        PROVE  PathsSound'
    <2>1. /\ Len(out) \in Nat /\ Len(out') = Len(out) + 1
          /\ out'[Len(out) + 1] = p
          /\ \A i \in 1 .. Len(out) : out'[i] = out[i]
      BY <1>2, <1>4, AppendTyped
    <2>2. Results' = Results \cup {p}
      BY <2>1 DEF Results
    <2> QED
      BY <1>1, <1>4, <2>2 DEF PathsSound
  <1> QED
    BY <1>3, <1>4

LEMMA PathNext == PathInv /\ [Next]_walk => PathInv'
  <1> SUFFICES ASSUME PathInv, [Next]_walk PROVE PathInv'
    OBVIOUS
  <1>1. TypeOK' /\ TypeOK /\ q' = q /\ Mode' = Mode
    BY TypeNext, QueryKept DEF PathInv
  <1>2. ASSUME Mode' # "nodes", stack' # <<>>
        PROVE  StackIsPath' /\ FramesOpen' /\ RestListed'
    BY <1>1, <1>2, StackKept
  <1>3. PathsSound'
    <2>1. CASE Mode = "nodes"
      BY <1>1, <2>1 DEF PathsSound
    <2>2. CASE Mode # "nodes"
      <3>1. out' = out \/ \E p \in Seq(Node) : out' = Append(out, p) /\ Sought(p)
        <4>1. stack \in Seq(FrameType) /\ Trail \in Seq(Node)
          BY <1>1, PathTyped DEF TypeOK
        <4>2. CASE Stop
          <5>1. Append(Trail, Neighbor) \in Seq(Node)
            BY <4>1, <4>2, NeighborTyped, AppendTyped DEF Stop
          <5> QED
            BY <2>2, <4>2, <5>1, StopSought DEF Stop
        <4>3. CASE CutDeep
          <5>1. CASE Mode = "paths" /\ Depth > 0
            <6>1. Sought(Trail)
              BY <4>3, <5>1, PathInv, PathSought
            <6>2. out' = Append(out, Trail)
              BY <4>3, <5>1 DEF CutDeep
            <6> QED
              BY <4>1, <6>1, <6>2
          <5>2. CASE ~(Mode = "paths" /\ Depth > 0)
            BY <4>3, <5>2 DEF CutDeep
          <5> QED
            BY <5>1, <5>2
        <4>4. CASE Return
          <5>1. CASE Mode = "paths" /\ ~Top.went /\ Depth > 0
            <6>1. Sought(Trail)
              BY <4>4, <5>1, PathSought
            <6>2. out' = Append(out, Trail)
              BY <4>4, <5>1 DEF Return
            <6> QED
              BY <4>1, <6>1, <6>2
          <5>2. CASE ~(Mode = "paths" /\ ~Top.went /\ Depth > 0)
            BY <4>4, <5>2 DEF Return
          <5> QED
            BY <5>1, <5>2
        <4>5. CASE CutFull \/ Open \/ Skip \/ Go \/ UNCHANGED walk
          BY <2>2, <4>5 DEF CutFull, Open, Skip, Go, walk
        <4> QED
          BY <4>2, <4>3, <4>4, <4>5 DEF Next
      <3> QED
        BY <1>1, <2>2, <3>1, SoundKept DEF PathInv
    <2> QED
      BY <2>1, <2>2
  <1> QED
    BY <1>1, <1>2, <1>3 DEF PathInv

\* Every path a walk returns is one the query asks for, on every graph and under
\* every combination of filters and limits.
THEOREM WalkPathsSound == Spec => []PathsSound
  <1>1. PathInv => PathsSound
    BY DEF PathInv
  <1> QED
    BY InitBegins, PathInit, PathNext, <1>1, PTL DEF Spec

\* Backtracking by hand is right: visited is the current path.
THEOREM WalkVisitedIsPath == Spec => []VisitedIsPath
  <1>1. PathInv => VisitedIsPath
    BY PathWalkable DEF PathInv, VisitedIsPath, Walkable
  <1> QED
    BY InitBegins, PathInit, PathNext, <1>1, PTL DEF Spec

-----------------------------------------------------------------------------
(* Nodes.  collect_nodes visits each node once, so a cycle or a second way  *)
(* to a node must cost it nothing.  First the calls under way, as a set.    *)

Frames == {stack[i] : i \in 1 .. Len(stack)}

LEMMA TopIsFrame ==
    ASSUME stack \in Seq(FrameType), stack # <<>>
    PROVE  Top \in Frames
    BY TopTyped DEF Frames

LEMMA FrameTyped ==
    ASSUME stack \in Seq(FrameType), NEW f \in Frames
    PROVE  f \in FrameType
    BY DEF Frames

\* The top frame gives way to another.
LEMMA Replaced ==
    ASSUME stack \in Seq(FrameType), stack # <<>>, NEW g \in FrameType,
           stack' = WithTop(g)
    PROVE  /\ g \in Frames'
           /\ \A f \in Frames' : f = g \/ f \in Frames
           /\ \A f \in Frames : f = Top \/ f \in Frames'
  <1>1. /\ Len(stack) \in Nat \ {0} /\ Len(stack') = Len(stack)
        /\ stack'[Len(stack)] = g /\ Top = stack[Len(stack)]
        /\ \A i \in 1 .. Len(stack) - 1 : stack'[i] = stack[i]
    BY TopReplaced, TopTyped
  <1>2. g \in Frames'
    BY <1>1 DEF Frames
  <1>3. ASSUME NEW i \in 1 .. Len(stack'), stack'[i] # g
        PROVE  stack'[i] \in Frames
    <2>1. i \in 1 .. Len(stack) - 1
      BY <1>1, <1>3
    <2> QED
      BY <1>1, <2>1 DEF Frames
  <1>4. ASSUME NEW i \in 1 .. Len(stack), stack[i] # Top
        PROVE  stack[i] \in Frames'
    <2>1. i \in 1 .. Len(stack) - 1
      BY <1>1, <1>4
    <2> QED
      BY <1>1, <2>1 DEF Frames
  <1> QED
    BY <1>2, <1>3, <1>4 DEF Frames

\* And a call is begun on top of it.
LEMMA Pushed ==
    ASSUME stack \in Seq(FrameType), stack # <<>>,
           NEW g \in FrameType, NEW h \in FrameType,
           stack' = Append(WithTop(g), h)
    PROVE  /\ g \in Frames' /\ h \in Frames'
           /\ \A f \in Frames' : f = g \/ f = h \/ f \in Frames
           /\ \A f \in Frames : f = Top \/ f \in Frames'
  <1>1. /\ Len(stack) \in Nat \ {0} /\ WithTop(g) \in Seq(FrameType)
        /\ Len(WithTop(g)) = Len(stack)
        /\ WithTop(g)[Len(stack)] = g /\ Top = stack[Len(stack)]
        /\ \A i \in 1 .. Len(stack) - 1 : WithTop(g)[i] = stack[i]
    BY TopReplaced, TopTyped
  <1>2. /\ Len(stack') = Len(stack) + 1 /\ stack'[Len(stack) + 1] = h
        /\ stack'[Len(stack)] = g
        /\ \A i \in 1 .. Len(stack) - 1 : stack'[i] = stack[i]
    BY <1>1, AppendTyped
  <1>3. g \in Frames' /\ h \in Frames'
    BY <1>1, <1>2 DEF Frames
  <1>4. ASSUME NEW i \in 1 .. Len(stack'), stack'[i] # g, stack'[i] # h
        PROVE  stack'[i] \in Frames
    <2>1. i \in 1 .. Len(stack) - 1
      BY <1>1, <1>2, <1>4
    <2> QED
      BY <1>1, <1>2, <2>1 DEF Frames
  <1>5. ASSUME NEW i \in 1 .. Len(stack), stack[i] # Top
        PROVE  stack[i] \in Frames'
    <2>1. i \in 1 .. Len(stack) - 1
      BY <1>1, <1>5
    <2> QED
      BY <1>1, <1>2, <2>1 DEF Frames
  <1> QED
    BY <1>3, <1>4, <1>5 DEF Frames

\* The top call returns.
LEMMA Popped ==
    ASSUME stack \in Seq(FrameType), stack # <<>>, stack' = Callers
    PROVE  /\ \A f \in Frames' : f \in Frames
           /\ \A f \in Frames : f = Top \/ f \in Frames'
  <1>1. /\ Len(stack) \in Nat \ {0} /\ Top = stack[Len(stack)]
        /\ Len(stack') = Len(stack) - 1
        /\ \A i \in 1 .. Len(stack) - 1 : stack'[i] = stack[i]
    BY CallersTyped, TopTyped
  <1>2. ASSUME NEW i \in 1 .. Len(stack')
        PROVE  stack'[i] \in Frames
    <2>1. i \in 1 .. Len(stack) - 1 /\ i \in 1 .. Len(stack)
      BY <1>1
    <2> QED
      BY <1>1, <2>1 DEF Frames
  <1>3. ASSUME NEW i \in 1 .. Len(stack), stack[i] # Top
        PROVE  stack[i] \in Frames'
    <2>1. i \in 1 .. Len(stack) - 1
      BY <1>1, <1>3
    <2> QED
      BY <1>1, <2>1 DEF Frames
  <1> QED
    BY <1>2, <1>3 DEF Frames

\* The frame a look at a neighbour leaves.
TopAfter(went) == [Top EXCEPT !.rest = Tail(@), !.went = @ \/ went]

LEMMA LookedFrame ==
    ASSUME stack \in Seq(FrameType), Looking, NEW went \in BOOLEAN
    PROVE  /\ TopAfter(went) \in FrameType /\ Looked(went) = WithTop(TopAfter(went))
           /\ TopAfter(went).node = Top.node /\ TopAfter(went).rest = Tail(Top.rest)
           /\ TopAfter(went).open = Top.open
  <1>1. Top \in FrameType /\ Tail(Top.rest) \in Seq(Node) /\ Top.went \in BOOLEAN
    BY TopTyped, NeighborTyped DEF Looking
  <1>2. (Top.went \/ went) \in BOOLEAN
    OBVIOUS
  <1>3. TopAfter(went) \in FrameType
    BY <1>1, <1>2 DEF FrameType, TopAfter
  <1>4. /\ TopAfter(went).node = Top.node /\ TopAfter(went).rest = Tail(Top.rest)
        /\ TopAfter(went).open = Top.open
    BY <1>1 DEF FrameType, TopAfter
  <1> QED
    BY <1>3, <1>4 DEF Looked, TopAfter

-----------------------------------------------------------------------------
(* What is found is reached.  The nodes of the calls under way are, too, as *)
(* well as what they have left to look at.                                 *)

ReachedBy(n) == n = q.start \/ (n \in Reachable /\ Passable(n))

FrameSound(f) ==
    ReachedBy(f.node) /\ \A j \in 1 .. Len(f.rest) : Listed(f.node, f.rest[j])

SoundInv ==
    /\ TypeOK
    /\ Mode = "nodes" =>
          /\ visited \subseteq Reachable
          /\ \A f \in Frames : FrameSound(f)
          /\ Results = visited \cap Shown
          /\ Distinct(out)

\* What is reached goes on to what is reached.
LEMMA ReachableGoesOn ==
    ASSUME NEW n, ReachedBy(n), NEW m \in Node, Step(n, m)
    PROVE  m \in Reachable
  <1> SUFFICES ASSUME NEW set \in SUBSET Node, Closed(set) PROVE m \in set
    BY DEF Reachable
  <1>1. Passable(n)
    BY DEF ReachedBy, Passable
  <1>2. n \in set \cup {q.start}
    BY DEF ReachedBy, Reachable
  <1> QED
    BY <1>1, <1>2 DEF Closed

\* A set of nodes which is closed holds all that is reached.
LEMMA ReachableIsLeast ==
    ASSUME NEW set \in SUBSET Node, Closed(set)
    PROVE  Reachable \subseteq set
    BY DEF Reachable

\* What depends on the query alone does not change.
LEMMA ReachedKept ==
    ASSUME q' = q
    PROVE  /\ Reachable' = Reachable /\ Shown' = Shown
           /\ \A n : ReachedBy(n)' <=> ReachedBy(n)
           /\ \A n : Passable(n)' <=> Passable(n)
           /\ \A n, m : Step(n, m)' <=> Step(n, m)
           /\ \A n, m : Listed(n, m)' <=> Listed(n, m)
    BY DEF Reachable, Shown, ReachedBy, Passable, Step, Listed, Closed

LEMMA FrameSoundKept ==
    ASSUME q' = q
    PROVE  \A f : FrameSound(f)' <=> FrameSound(f)
    BY ReachedKept DEF FrameSound

\* One more result.
LEMMA Appended ==
    ASSUME out \in Seq(Node), NEW n \in Node, out' = Append(out, n),
           Distinct(out), n \notin Results
    PROVE  Results' = Results \cup {n} /\ Distinct(out)'
  <1>1. /\ Len(out) \in Nat /\ Len(out') = Len(out) + 1 /\ out'[Len(out) + 1] = n
        /\ \A i \in 1 .. Len(out) : out'[i] = out[i]
    BY AppendTyped
  <1>2. \A i \in 1 .. Len(out) + 1 : i \in 1 .. Len(out) \/ i = Len(out) + 1
    BY <1>1
  <1>3. \A m : m \in Results' <=> m \in Results \cup {n}
    BY <1>1, <1>2 DEF Results
  <1>4. \A i \in 1 .. Len(out) : out[i] # n
    BY DEF Results
  <1>5. ASSUME NEW i \in 1 .. Len(out'), NEW j \in 1 .. Len(out'), out'[i] = out'[j]
        PROVE  i = j
    BY <1>1, <1>2, <1>4, <1>5 DEF Distinct
  <1> QED
    BY <1>3, <1>5 DEF Distinct

LEMMA SoundInit == Begun => SoundInv
  <1> SUFFICES ASSUME Begun PROVE SoundInv
    OBVIOUS
  <1>1. TypeOK
    BY TypeInit
  <1>2. Len(stack) = 1 /\ stack[1] = Frame(q.start) /\ out = <<>>
    BY DEF Begun
  <1>3. FrameSound(Frame(q.start))
    BY DEF FrameSound, ReachedBy, Frame
  <1>4. \A f \in Frames : FrameSound(f)
    BY <1>2, <1>3 DEF Frames
  <1>5. Mode = "nodes" => visited = {}
    BY DEF Begun, Mode
  <1>6. Results = {} /\ Distinct(out)
    BY <1>2 DEF Results, Distinct
  <1> QED
    BY <1>1, <1>4, <1>5, <1>6 DEF SoundInv

\* The neighbour a walk goes to is reached, and is none it has found before.
LEMMA NeighborReached ==
    ASSUME SoundInv, Mode = "nodes", Looking
    PROVE  /\ Neighbor \in Node /\ Listed(Top.node, Neighbor)
           /\ Goes => /\ Step(Top.node, Neighbor)
                     /\ Neighbor \in Reachable /\ Neighbor \notin visited
  <1>1. stack \in Seq(FrameType) /\ stack # <<>>
    BY DEF SoundInv, TypeOK, Looking
  <1>2. Top \in Frames /\ FrameSound(Top)
    BY <1>1, TopIsFrame DEF SoundInv
  <1>3. Neighbor \in Node /\ Neighbor = Top.rest[1] /\ 1 \in 1 .. Len(Top.rest)
    BY <1>1, NeighborTyped
  <1>4. Listed(Top.node, Neighbor)
    BY <1>2, <1>3 DEF FrameSound
  <1>5. Goes => Step(Top.node, Neighbor) /\ Neighbor \notin visited
    BY <1>4 DEF Goes, Step, Listed
  <1>6. ReachedBy(Top.node)
    BY <1>2 DEF FrameSound
  <1> QED
    BY <1>3, <1>4, <1>5, <1>6, ReachableGoesOn

\* The frame a look at a neighbour leaves is sound.
LEMMA TopAfterSound ==
    ASSUME SoundInv, Mode = "nodes", Looking, NEW went \in BOOLEAN
    PROVE  FrameSound(TopAfter(went))
  <1>1. stack \in Seq(FrameType) /\ stack # <<>>
    BY DEF SoundInv, TypeOK, Looking
  <1>2. Top \in Frames /\ FrameSound(Top)
    BY <1>1, TopIsFrame DEF SoundInv
  <1>3. /\ TopAfter(went).node = Top.node /\ TopAfter(went).rest = Tail(Top.rest)
    BY <1>1, LookedFrame
  <1>4. /\ Len(Top.rest) \in Nat \ {0} /\ Len(Tail(Top.rest)) = Len(Top.rest) - 1
        /\ \A i \in 1 .. Len(Top.rest) - 1 : Tail(Top.rest)[i] = Top.rest[i + 1]
    BY <1>1, NeighborTyped
  <1>5. ASSUME NEW j \in 1 .. Len(Top.rest) - 1
        PROVE  Listed(Top.node, Tail(Top.rest)[j])
    <2>1. j + 1 \in 1 .. Len(Top.rest)
      BY <1>4
    <2> QED
      BY <1>2, <1>4, <2>1 DEF FrameSound
  <1> QED
    BY <1>2, <1>3, <1>4, <1>5 DEF FrameSound

LEMMA SoundNext == SoundInv /\ [Next]_walk => SoundInv'
  <1> SUFFICES ASSUME SoundInv, [Next]_walk PROVE SoundInv'
    OBVIOUS
  <1>t. TypeOK /\ TypeOK' /\ stack \in Seq(FrameType)
    BY TypeNext DEF SoundInv, TypeOK
  <1>q. q' = q /\ Mode' = Mode
    BY QueryKept
  <1> SUFFICES ASSUME Mode = "nodes"
               PROVE  /\ (visited \subseteq Reachable)'
                      /\ \A f \in Frames' : FrameSound(f)
                      /\ (Results = visited \cap Shown)'
                      /\ Distinct(out)'
    BY <1>t, <1>q, FrameSoundKept DEF SoundInv
  <1>i. /\ visited \subseteq Reachable /\ \A f \in Frames : FrameSound(f)
        /\ Results = visited \cap Shown /\ Distinct(out)
    BY DEF SoundInv
  <1>k. Reachable' = Reachable /\ Shown' = Shown
    BY <1>q, ReachedKept
  <1>o. out \in Seq(Node)
    BY <1>t DEF TypeOK
  <1>same. ASSUME visited' = visited, out' = out
           PROVE  /\ (visited \subseteq Reachable)' /\ (Results = visited \cap Shown)'
                  /\ Distinct(out)'
    BY <1>same, <1>i, <1>k DEF Results, Distinct
  <1>leave. ASSUME Leave, stack # <<>>
            PROVE  visited' = visited /\ \A f \in Frames' : FrameSound(f)
    BY <1>leave, <1>i, <1>t, Popped DEF Leave
  <1>1. CASE CutFull
    BY <1>1, <1>same, <1>leave DEF CutFull, Entering
  <1>2. CASE CutDeep
    BY <1>2, <1>same, <1>leave DEF CutDeep, Entering
  <1>3. CASE Open
    <2> DEFINE g == [Top EXCEPT !.open = TRUE, !.rest = q.nbrs[Top.node]]
    <2>1. stack # <<>> /\ stack' = WithTop(g) /\ visited' = visited /\ out' = out
      BY <1>3 DEF Open, Entering
    <2>2. Top \in FrameType /\ Top.node \in Node /\ Top \in Frames
      BY <1>t, <2>1, TopTyped, TopIsFrame
    <2>3. g \in FrameType /\ g.node = Top.node /\ g.rest = q.nbrs[Top.node]
      BY <1>t, <2>2 DEF FrameType, TypeOK, QueryType
    <2>4. FrameSound(g)
      BY <1>i, <2>2, <2>3 DEF FrameSound, Listed
    <2>5. \A f \in Frames' : f = g \/ f \in Frames
      BY <1>t, <2>1, <2>3, Replaced
    <2> QED
      BY <1>i, <1>same, <2>1, <2>4, <2>5
  <1>4. CASE Skip
    <2>1. Looking /\ stack # <<>> /\ stack' = Looked(FALSE) /\ visited' = visited
          /\ out' = out
      BY <1>4 DEF Skip, Looking
    <2>2. \A f \in Frames' : f = TopAfter(FALSE) \/ f \in Frames
      BY <1>t, <2>1, LookedFrame, Replaced
    <2> QED
      BY <1>i, <1>same, <2>1, <2>2, TopAfterSound
  <1>new. ASSUME Looking, Goes, visited' = visited \cup {Neighbor},
                 out' = IF Neighbor \in Shown THEN Append(out, Neighbor) ELSE out
          PROVE  /\ (visited \subseteq Reachable)' /\ (Results = visited \cap Shown)'
                 /\ Distinct(out)'
    <2>1. Neighbor \in Node /\ Neighbor \in Reachable /\ Neighbor \notin visited
      BY <1>new, NeighborReached
    <2>2. CASE Neighbor \in Shown
      <3>1. Neighbor \notin Results /\ out' = Append(out, Neighbor)
        BY <1>i, <1>new, <2>1, <2>2
      <3>2. Results' = Results \cup {Neighbor} /\ Distinct(out)'
        BY <1>i, <1>o, <2>1, <3>1, Appended
      <3> QED
        BY <1>i, <1>k, <1>new, <2>1, <2>2, <3>2
    <2>3. CASE Neighbor \notin Shown
      BY <1>i, <1>k, <1>new, <2>1, <2>3 DEF Results, Distinct
    <2> QED
      BY <2>2, <2>3
  <1>5. CASE Stop
    <2>1. Looking /\ Goes /\ Stops /\ stack # <<>> /\ stack' = Looked(TRUE)
          /\ visited' = visited \cup {Neighbor} /\ out' = Append(out, Neighbor)
      BY <1>5 DEF Stop, Looking
    <2>2. Neighbor \in Shown
      BY <2>1 DEF Stops, Shown
    <2>3. \A f \in Frames' : f = TopAfter(TRUE) \/ f \in Frames
      BY <1>t, <2>1, LookedFrame, Replaced
    <2> QED
      BY <1>i, <1>new, <2>1, <2>2, <2>3, TopAfterSound
  <1>6. CASE Go
    <2>1. Looking /\ Goes /\ ~Stops /\ stack # <<>>
          /\ stack' = Append(Looked(TRUE), Frame(Neighbor))
          /\ visited' = visited \cup {Neighbor}
          /\ out' = IF Neighbor \in q.pass THEN Append(out, Neighbor) ELSE out
      BY <1>6 DEF Go, Looking
    <2>2. Neighbor \in Node /\ Neighbor \in Reachable
      BY <2>1, NeighborReached
    <2>3. Neighbor \in Shown <=> Neighbor \in q.pass
      BY <2>1 DEF Stops, Shown
    <2>4. FrameSound(Frame(Neighbor)) /\ Frame(Neighbor) \in FrameType
      BY <2>1, <2>2 DEF FrameSound, ReachedBy, Passable, Stops, Frame, FrameType
    <2>5. \A f \in Frames' : f = TopAfter(TRUE) \/ f = Frame(Neighbor) \/ f \in Frames
      BY <1>t, <2>1, <2>4, LookedFrame, Pushed
    <2> QED
      BY <1>i, <1>new, <2>1, <2>3, <2>4, <2>5, TopAfterSound
  <1>7. CASE Return
    <2>1. out' = out
      BY <1>7 DEF Return
    <2> QED
      BY <1>7, <2>1, <1>same, <1>leave DEF Return
  <1>8. CASE UNCHANGED walk
    BY <1>8, <1>i, <1>same DEF walk, Frames
  <1> QED
    BY <1>1, <1>2, <1>3, <1>4, <1>5, <1>6, <1>7, <1>8 DEF Next

\* What collect_nodes returns is reached, shown, and there once, on every graph and
\* under every filter and limit.
THEOREM WalkNodesSound == Spec => []NodesSound
  <1>1. SoundInv => NodesSound
    BY DEF SoundInv, NodesSound
  <1> QED
    BY <1>1, InitBegins, SoundInit, SoundNext, PTL DEF Spec

-----------------------------------------------------------------------------
(* Without limits all that is reached is found: whoever steps on from a    *)
(* visited node has been there, or a call under way has yet to look.       *)

Unlimited == Mode = "nodes" /\ q.depth = NoLimit /\ q.limit = NoLimit

\* The call has its neighbours to look at still, or has visited them.
Covers(f) ==
    f.open => \A m \in Node : Step(f.node, m) =>
                 m \in visited \/ \E j \in 1 .. Len(f.rest) : f.rest[j] = m

Finished(n) == \A m \in Node : Step(n, m) => m \in visited

Attended(n) == Finished(n) \/ \E f \in Frames : f.node = n /\ Covers(f)

CompleteInv ==
    /\ SoundInv
    /\ Unlimited => \A n \in visited \cup {q.start} : Passable(n) => Attended(n)

LEMMA CompleteInit == Begun => CompleteInv
  <1> SUFFICES ASSUME Begun PROVE CompleteInv
    OBVIOUS
  <1>1. Len(stack) = 1 /\ stack[1] = Frame(q.start)
    BY DEF Begun
  <1>2. Frame(q.start) \in Frames
    BY <1>1 DEF Frames
  <1>3. Frame(q.start).node = q.start /\ Covers(Frame(q.start))
    BY DEF Frame, Covers
  <1>4. Attended(q.start)
    BY <1>2, <1>3 DEF Attended
  <1>5. Mode = "nodes" => visited = {}
    BY DEF Begun, Mode
  <1> QED
    BY <1>4, <1>5, SoundInit DEF CompleteInv, Unlimited

\* What is covered or finished stays so, since nothing is ever taken back.
LEMMA CoveredKept ==
    ASSUME q' = q, visited \subseteq visited'
    PROVE  /\ \A f : Covers(f) => Covers(f)'
           /\ \A n : Finished(n) => Finished(n)'
    BY ReachedKept DEF Covers, Finished

\* A look at a neighbour leaves the call covered, if it has been there since.
LEMMA TopAfterCovers ==
    ASSUME stack \in Seq(FrameType), Looking, NEW went \in BOOLEAN, Covers(Top),
           q' = q, visited \subseteq visited',
           Step(Top.node, Neighbor) => Neighbor \in visited',
           NEW g, g = TopAfter(went)
    PROVE  Covers(g)'
  <1>1. g.node = Top.node /\ g.rest = Tail(Top.rest) /\ Top.open
    BY LookedFrame DEF Looking
  <1>2. /\ Len(Top.rest) \in Nat \ {0} /\ Len(Tail(Top.rest)) = Len(Top.rest) - 1
        /\ Neighbor = Top.rest[1]
        /\ \A i \in 1 .. Len(Top.rest) - 1 : Tail(Top.rest)[i] = Top.rest[i + 1]
    BY NeighborTyped
  <1>3. ASSUME NEW m \in Node, Step(Top.node, m), m \notin visited'
        PROVE  \E j \in 1 .. Len(Tail(Top.rest)) : Tail(Top.rest)[j] = m
    <2>1. PICK j \in 1 .. Len(Top.rest) : Top.rest[j] = m
      BY <1>1, <1>3 DEF Covers
    <2>2. j # 1
      BY <1>2, <1>3, <2>1
    <2>3. j - 1 \in 1 .. Len(Top.rest) - 1
      BY <1>2, <2>2
    <2> QED
      BY <1>2, <2>1, <2>3
  <1>4. \A m \in Node : Step(g.node, m)' <=> Step(Top.node, m)
    BY <1>1, ReachedKept
  <1> QED
    BY <1>1, <1>3, <1>4 DEF Covers

\* A node stays attended when its call, should it be the top one, is succeeded by one
\* which covers it, or has finished.
LEMMA AttendedKept ==
    ASSUME q' = q, visited \subseteq visited', stack # <<>>,
           NEW top, top = Top, \A f \in Frames : f = top \/ f \in Frames',
           Covers(top) => \/ \E g \in Frames' : g.node = top.node /\ Covers(g)'
                          \/ Finished(top.node)',
           NEW n, Attended(n)
    PROVE  Attended(n)'
  <1>1. CASE Finished(n)
    BY <1>1, CoveredKept DEF Attended
  <1>2. ASSUME NEW f \in Frames, f.node = n, Covers(f)
        PROVE  Attended(n)'
    <2>1. Covers(f)'
      BY <1>2, CoveredKept
    <2>2. CASE f = top
      BY <1>2, <2>2 DEF Attended
    <2>3. CASE f \in Frames'
      BY <1>2, <2>1, <2>3 DEF Attended
    <2> QED
      BY <2>2, <2>3
  <1> QED
    BY <1>1, <1>2 DEF Attended

LEMMA CompleteNext == CompleteInv /\ [Next]_walk => CompleteInv'
  <1> SUFFICES ASSUME CompleteInv, [Next]_walk PROVE CompleteInv'
    OBVIOUS
  <1>t. SoundInv /\ SoundInv' /\ TypeOK /\ stack \in Seq(FrameType)
    BY SoundNext DEF CompleteInv, SoundInv, TypeOK
  <1>q. q' = q /\ Mode' = Mode
    BY QueryKept
  <1> SUFFICES ASSUME Unlimited
               PROVE  \A n \in visited' \cup {q.start} : Passable(n) => Attended(n)'
    BY <1>t, <1>q, ReachedKept DEF CompleteInv, Unlimited
  <1>i. \A n \in visited \cup {q.start} : Passable(n) => Attended(n)
    BY DEF CompleteInv
  <1>m. Mode = "nodes" /\ ~Full /\ ~Deep
    BY DEF Unlimited, Full, Deep
  <1>top. PICK top : top = Top
    OBVIOUS
  <1>f. stack # <<>> => top \in Frames /\ top \in FrameType
    BY <1>t, <1>top, TopIsFrame, TopTyped
  <1>1. CASE CutFull
    BY <1>1, <1>m DEF CutFull
  <1>2. CASE CutDeep
    BY <1>2, <1>m DEF CutDeep
  <1>3. CASE Open
    <2> DEFINE g == [Top EXCEPT !.open = TRUE, !.rest = q.nbrs[Top.node]]
    <2>1. stack # <<>> /\ stack' = WithTop(g) /\ visited' = visited
      BY <1>3 DEF Open, Entering
    <2>2. /\ g \in FrameType /\ g.node = top.node /\ g.rest = q.nbrs[top.node]
      BY <1>t, <1>top, <1>f, <2>1 DEF FrameType, TypeOK, QueryType
    <2>3. PICK h : h = g
      OBVIOUS
    <2>4. h \in Frames' /\ \A f \in Frames : f = top \/ f \in Frames'
      BY <1>t, <1>top, <2>1, <2>2, <2>3, Replaced
    <2>5. Covers(h)'
      BY <1>q, <2>2, <2>3, ReachedKept DEF Covers, Step
    <2> QED
      BY <1>i, <1>q, <1>top, <2>1, <2>2, <2>3, <2>4, <2>5, AttendedKept
  <1>look. ASSUME Looking, NEW went \in BOOLEAN, visited \subseteq visited',
                  Step(Top.node, Neighbor) => Neighbor \in visited',
                  TopAfter(went) \in Frames',
                  \A f \in Frames : f = Top \/ f \in Frames',
                  NEW n, Attended(n)
           PROVE  Attended(n)'
    <2>1. PICK g : g = TopAfter(went)
      OBVIOUS
    <2>2. g.node = top.node /\ stack # <<>>
      BY <1>look, <1>t, <1>top, <2>1, LookedFrame DEF Looking
    <2>3. Covers(top) => Covers(g)'
      BY <1>look, <1>t, <1>q, <1>top, <2>1, TopAfterCovers
    <2> QED
      BY <1>look, <1>q, <1>top, <2>1, <2>2, <2>3, AttendedKept
  <1>4. CASE Skip
    <2>1. Looking /\ stack # <<>> /\ stack' = Looked(FALSE) /\ visited' = visited /\ ~Goes
      BY <1>4 DEF Skip, Looking
    <2>2. Step(Top.node, Neighbor) => Neighbor \in visited'
      BY <1>m, <2>1 DEF Goes, Step
    <2>3. /\ TopAfter(FALSE) \in Frames'
          /\ \A f \in Frames : f = Top \/ f \in Frames'
      BY <1>t, <2>1, LookedFrame, Replaced
    <2> QED
      BY <1>i, <1>look, <2>1, <2>2, <2>3
  <1>5. CASE Stop
    <2>1. Looking /\ Stops /\ stack # <<>> /\ stack' = Looked(TRUE)
          /\ visited' = visited \cup {Neighbor}
      BY <1>5, <1>m DEF Stop, Looking
    <2>2. /\ TopAfter(TRUE) \in Frames'
          /\ \A f \in Frames : f = Top \/ f \in Frames'
      BY <1>t, <2>1, LookedFrame, Replaced
    <2>3. Passable(Neighbor) => Neighbor = q.start
      BY <1>m, <2>1 DEF Stops, Passable
    <2> QED
      BY <1>i, <1>look, <2>1, <2>2, <2>3
  <1>6. CASE Go
    <2>1. Looking /\ stack # <<>> /\ stack' = Append(Looked(TRUE), Frame(Neighbor))
          /\ visited' = visited \cup {Neighbor}
      BY <1>6 DEF Go, Looking
    <2>2. Frame(Neighbor) \in FrameType
      BY <1>t, <2>1, NeighborTyped DEF Frame, FrameType
    <2>3. /\ TopAfter(TRUE) \in Frames' /\ Frame(Neighbor) \in Frames'
          /\ \A f \in Frames : f = Top \/ f \in Frames'
      BY <1>t, <2>1, <2>2, LookedFrame, Pushed
    <2>4. ASSUME NEW n, n = Neighbor PROVE Attended(n)'
      <3>1. PICK h : h = Frame(Neighbor)
        OBVIOUS
      <3>2. h \in Frames' /\ h.node = n /\ ~h.open
        BY <2>3, <2>4, <3>1 DEF Frame
      <3> QED
        BY <3>2 DEF Attended, Covers
    <2> QED
      BY <1>i, <1>look, <2>1, <2>3, <2>4
  <1>7. CASE Return
    <2>1. stack # <<>> /\ Top.open /\ Top.rest = <<>> /\ stack' = Callers
          /\ visited' = visited
      BY <1>7, <1>m DEF Return, Leave
    <2>2. \A f \in Frames : f = top \/ f \in Frames'
      BY <1>t, <1>top, <2>1, Popped
    <2>3. Covers(top) => Finished(top.node)
      BY <1>top, <2>1 DEF Covers, Finished
    <2>4. Finished(top.node) => Finished(top.node)'
      BY <1>q, <2>1, CoveredKept
    <2> QED
      BY <1>i, <1>q, <1>top, <2>1, <2>2, <2>3, <2>4, AttendedKept
  <1>8. CASE UNCHANGED walk
    BY <1>8, <1>i DEF walk, Attended, Finished, Covers, Frames, Step
  <1> QED
    BY <1>1, <1>2, <1>3, <1>4, <1>5, <1>6, <1>7, <1>8 DEF Next

\* A walk which is done has no call left, so that what it visited is closed.
LEMMA DoneIsComplete == CompleteInv => NodesComplete
  <1> SUFFICES ASSUME CompleteInv, Done, Unlimited
               PROVE  Results = Reachable \cap Shown
    BY DEF NodesComplete, Unlimited
  <1>1. Mode = "nodes" /\ visited \subseteq Reachable /\ Results = visited \cap Shown
    BY DEF CompleteInv, SoundInv, Unlimited
  <1>2. Frames = {}
    BY DEF Done, Frames
  <1>3. \A n \in visited \cup {q.start} : Passable(n) => Finished(n)
    BY <1>2 DEF CompleteInv, Attended
  <1>4. visited \in SUBSET Node /\ Closed(visited)
    BY <1>3 DEF Closed, Finished, CompleteInv, SoundInv, TypeOK
  <1> QED
    BY <1>1, <1>4, ReachableIsLeast

\* Without limits collect_nodes misses nothing: no visit of a node hides from the
\* result what lies behind it.
THEOREM WalkNodesComplete == Spec => []NodesComplete
  BY InitBegins, CompleteInit, CompleteNext, DoneIsComplete, PTL DEF Spec

-----------------------------------------------------------------------------
(* What each kind of step makes of the stack. *)

LEMMA OpenTop ==
    ASSUME TypeOK, Open, NEW n, n = Len(stack)
    PROVE  /\ n \in Nat \ {0} /\ Len(stack') = n /\ Top = stack[n]
           /\ \A i \in 1 .. n - 1 : stack'[i] = stack[i]
           /\ stack'[n].node = stack[n].node /\ stack'[n].open
           /\ stack'[n].went = stack[n].went
           /\ stack'[n].rest = q.nbrs[stack[n].node]
  <1>1. stack \in Seq(FrameType) /\ stack # <<>>
    BY DEF TypeOK, Open, Entering
  <1>2. Len(stack) \in Nat \ {0} /\ Top = stack[Len(stack)] /\ Top \in FrameType
    BY <1>1, TopTyped
  <1>3. PICK f \in FrameType :
           f = [Top EXCEPT !.open = TRUE, !.rest = q.nbrs[Top.node]]
    BY <1>2 DEF TypeOK, FrameType, QueryType
  <1>4. /\ f.node = Top.node /\ f.open /\ f.went = Top.went
        /\ f.rest = q.nbrs[Top.node]
    BY <1>2, <1>3 DEF FrameType
  <1>5. stack' = WithTop(f)
    BY <1>3 DEF Open
  <1> QED
    BY <1>1, <1>2, <1>4, <1>5, TopReplaced

LEMMA LookTop ==
    ASSUME TypeOK, Looking, NEW went \in BOOLEAN, stack' = Looked(went),
           NEW n, n = Len(stack)
    PROVE  /\ n \in Nat \ {0} /\ Len(stack') = n /\ Top = stack[n]
           /\ \A i \in 1 .. n - 1 : stack'[i] = stack[i]
           /\ stack'[n].node = stack[n].node /\ stack'[n].open
           /\ stack'[n].went = (stack[n].went \/ went)
           /\ stack'[n].rest = Tail(stack[n].rest)
  <1>1. stack \in Seq(FrameType) /\ stack # <<>> /\ Top.open
    BY DEF TypeOK, Looking
  <1>2. Len(stack) \in Nat \ {0} /\ Top = stack[Len(stack)] /\ Top \in FrameType
    BY <1>1, TopTyped
  <1>3. PICK f : f = [Top EXCEPT !.rest = Tail(@), !.went = @ \/ went]
    OBVIOUS
  <1>4. /\ f.node = Top.node /\ f.open = Top.open /\ f.went = (Top.went \/ went)
        /\ f.rest = Tail(Top.rest)
    BY <1>2, <1>3 DEF FrameType
  <1>5. /\ Len(stack') = Len(stack) /\ stack'[Len(stack)] = f
        /\ \A i \in 1 .. Len(stack) - 1 : stack'[i] = stack[i]
    BY <1>1, <1>3, LookedTyped
  <1> QED
    BY <1>1, <1>2, <1>4, <1>5

LEMMA GoTop ==
    ASSUME TypeOK, Go, NEW n, n = Len(stack)
    PROVE  /\ n \in Nat \ {0} /\ Len(stack') = n + 1 /\ Top = stack[n]
           /\ \A i \in 1 .. n - 1 : stack'[i] = stack[i]
           /\ stack'[n].node = stack[n].node /\ stack'[n].open /\ stack'[n].went
           /\ stack'[n].rest = Tail(stack[n].rest)
           /\ stack'[n + 1] = Frame(Neighbor)
  <1>1. stack \in Seq(FrameType) /\ stack # <<>> /\ Looking /\ Top.open
    BY DEF TypeOK, Go, Looking
  <1>2. Len(stack) \in Nat \ {0} /\ Top = stack[Len(stack)] /\ Top \in FrameType
    BY <1>1, TopTyped
  <1>3. PICK f : f = [Top EXCEPT !.rest = Tail(@), !.went = @ \/ TRUE]
    OBVIOUS
  <1>4. f.node = Top.node /\ f.open = Top.open /\ f.went /\ f.rest = Tail(Top.rest)
    BY <1>2, <1>3 DEF FrameType
  <1>5. PICK s \in Seq(FrameType) :
           /\ stack' = Append(s, Frame(Neighbor))
           /\ Len(s) = Len(stack) /\ s[Len(stack)] = f
           /\ \A i \in 1 .. Len(stack) - 1 : s[i] = stack[i]
    BY <1>1, <1>3, LookedTyped DEF Go
  <1>6. Frame(Neighbor) \in FrameType
    BY <1>1, NeighborTyped DEF Frame, FrameType
  <1>7. /\ Len(stack') = Len(stack) + 1 /\ stack'[Len(stack) + 1] = Frame(Neighbor)
        /\ \A i \in 1 .. Len(stack) : stack'[i] = s[i]
    BY <1>5, <1>6, AppendTyped
  <1>8. stack'[Len(stack)] = f /\ \A i \in 1 .. Len(stack) - 1 : stack'[i] = stack[i]
    BY <1>2, <1>5, <1>7
  <1> QED
    BY <1>1, <1>2, <1>4, <1>7, <1>8

LEMMA LeaveTop ==
    ASSUME TypeOK, stack # <<>>, Leave, NEW n, n = Len(stack)
    PROVE  /\ n \in Nat \ {0} /\ Len(stack') = n - 1 /\ Top = stack[n]
           /\ \A i \in 1 .. n - 1 : stack'[i] = stack[i]
    BY CallersTyped, TopTyped DEF TypeOK, Leave

\* The calls below the top one wait, whatever it does.
LEMMA BelowKept ==
    ASSUME TypeOK, Next, NEW n, n = Len(stack)
    PROVE  /\ stack # <<>> /\ n \in Nat \ {0}
           /\ Len(stack') \in {n - 1, n, n + 1}
           /\ \A i \in 1 .. n - 1 : i \in 1 .. Len(stack') /\ stack'[i] = stack[i]
  <1> SUFFICES /\ stack # <<>> /\ n \in Nat \ {0}
               /\ Len(stack') = n - 1 \/ Len(stack') = n \/ Len(stack') = n + 1
               /\ \A i \in 1 .. n - 1 : stack'[i] = stack[i]
    OBVIOUS
  <1>1. CASE Open
    BY <1>1, OpenTop DEF Open, Entering
  <1>2. ASSUME Looking, NEW went \in BOOLEAN, stack' = Looked(went)
        PROVE  /\ stack # <<>> /\ n \in Nat \ {0} /\ Len(stack') = n
               /\ \A i \in 1 .. n - 1 : stack'[i] = stack[i]
    BY <1>2, LookTop DEF Looking
  <1>3. CASE Skip
    BY <1>2, <1>3 DEF Skip
  <1>4. CASE Stop
    BY <1>2, <1>4 DEF Stop
  <1>5. CASE Go
    BY <1>5, GoTop DEF Go, Looking
  <1>6. CASE CutFull \/ CutDeep \/ Return
    BY <1>6, LeaveTop DEF CutFull, CutDeep, Return, Entering
  <1> QED
    BY <1>1, <1>3, <1>4, <1>5, <1>6 DEF Next

\* The tail of a list has what the list has, but for its head.
LEMMA TailWithin ==
    ASSUME NEW S, NEW s \in Seq(S), s # <<>>, NEW k \in 1 .. Len(Tail(s))
    PROVE  k + 1 \in 1 .. Len(s) /\ Tail(s)[k] = s[k + 1]
    OBVIOUS

LEMMA TailListed ==
    ASSUME NEW S, NEW s \in Seq(S), s # <<>>, NEW k \in 1 .. Len(s), s[k] # s[1]
    PROVE  k - 1 \in 1 .. Len(Tail(s)) /\ Tail(s)[k - 1] = s[k]
  <1>1. /\ Len(s) \in Nat \ {0} /\ Len(Tail(s)) = Len(s) - 1
        /\ \A j \in 1 .. Len(s) - 1 : Tail(s)[j] = s[j + 1]
    OBVIOUS
  <1>2. k - 1 \in 1 .. Len(s) - 1
    BY <1>1
  <1> QED
    BY <1>1, <1>2

\* One more result.
LEMMA OneMore ==
    ASSUME NEW S, out \in Seq(S), NEW e \in S, out' = Append(out, e)
    PROVE  /\ Len(out') = Len(out) + 1
           /\ Results' = Results \cup {e}
           /\ Distinct(out) /\ e \notin Results => Distinct(out')
  <1>1. /\ Len(out) \in Nat /\ Len(out') = Len(out) + 1 /\ out'[Len(out) + 1] = e
        /\ \A i \in 1 .. Len(out) : out'[i] = out[i]
    BY AppendTyped
  <1>2. \A i \in 1 .. Len(out) + 1 : i \in 1 .. Len(out) \/ i = Len(out) + 1
    BY <1>1
  <1>3. \A m : m \in Results' <=> m \in Results \cup {e}
    BY <1>1, <1>2 DEF Results
  <1>4. ASSUME Distinct(out), e \notin Results,
               NEW i \in 1 .. Len(out'), NEW j \in 1 .. Len(out'), out'[i] = out'[j]
        PROVE  i = j
    <2>1. \A k \in 1 .. Len(out) : out[k] # e
      BY <1>4 DEF Results
    <2> QED
      BY <1>1, <1>2, <1>4, <2>1 DEF Distinct
  <1> QED
    BY <1>1, <1>3, <1>4 DEF Distinct

-----------------------------------------------------------------------------
(* No path is missed.  A path the query asks for is found, or some call     *)
(* under way still leads to it, unless max_paths cut the search.            *)

\* Call i still leads to path p: it is on it, and has yet to begin, to look at the next
\* node, or to come back without having gone on.
Ahead(i, p) ==
    /\ i <= Len(p)
    /\ \A j \in 1 .. i : p[j] = stack[j].node
    /\ \/ ~stack[i].open
       \/ i = Len(p) /\ ~stack[i].went
       \/ i < Len(p) /\ \E k \in 1 .. Len(stack[i].rest) : stack[i].rest[k] = p[i + 1]

Awaited(p) == \E i \in 1 .. Len(stack) : Ahead(i, p)

FoundInv ==
    /\ PathInv
    /\ Mode # "nodes" =>
          /\ \A i \in 1 .. Len(stack) : ~stack[i].open => ~stack[i].went
          /\ \A p \in Results : Len(p) >= 2
          /\ \A p \in Seq(Node) :
                Sought(p) /\ Len(p) >= 2 => p \in Results \/ Full \/ Awaited(p)

LEMMA FoundInit == Begun => FoundInv
  <1> SUFFICES ASSUME Begun PROVE FoundInv
    OBVIOUS
  <1>1. /\ Len(stack) = 1 /\ stack[1].node = q.start /\ ~stack[1].open
        /\ ~stack[1].went /\ Results = {}
    BY DEF Begun, Frame, Results
  <1>2. ASSUME NEW p \in Seq(Node), Sought(p), Len(p) >= 2
        PROVE  Awaited(p)
    <2>1. p[1] = q.start
      BY <1>2 DEF Sought, Walkable
    <2>2. Ahead(1, p)
      BY <1>1, <1>2, <2>1 DEF Ahead
    <2> QED
      BY <1>1, <2>2 DEF Awaited
  <1> QED
    BY <1>1, <1>2, PathInit DEF FoundInv

\* What a call below the top one leads to, it still leads to after the step.
LEMMA AheadBelow ==
    ASSUME TypeOK, Next, NEW p, NEW i \in 1 .. Len(stack) - 1, Ahead(i, p)
    PROVE  Awaited(p)'
  <1>1. /\ Len(stack) \in Nat \ {0} /\ i \in 1 .. Len(stack')
        /\ \A j \in 1 .. i : stack'[j] = stack[j]
    BY BelowKept
  <1>2. Ahead(i, p)'
    BY <1>1 DEF Ahead
  <1> QED
    BY <1>1, <1>2 DEF Awaited

\* The top call is on the path p.
OnPath(p) ==
    /\ p \in Seq(Node) /\ Sought(p) /\ Len(p) >= 2
    /\ Len(stack) <= Len(p)
    /\ \A j \in 1 .. Len(stack) : p[j] = stack[j].node

\* A path that ends at the top call is cut by the depth there, or cannot go on.
LEMMA TopEnds ==
    ASSUME PathInv, Mode # "nodes", stack # <<>>, NEW p, OnPath(p), Len(p) = Len(stack)
    PROVE  /\ Mode = "paths" /\ p = Trail /\ Depth > 0
           /\ \/ q.depth # NoLimit /\ Len(stack) = q.depth + 1
              \/ \A m \in q.pass : Step(Top.node, m) => m \in visited
  <1>1. TypeOK /\ StackIsPath /\ stack \in Seq(FrameType) /\ p \in Seq(Node)
    BY DEF PathInv, TypeOK, OnPath
  <1>2. PICK n \in Nat : n = Len(stack) /\ n = Len(p) /\ n >= 2 /\ Top = stack[n]
    BY <1>1, TopTyped DEF OnPath
  <1>3. \A i \in 1 .. n : p[i] = stack[i].node
    BY <1>2 DEF OnPath
  <1>4. Trail \in Seq(Node) /\ Len(Trail) = n /\ \A i \in 1 .. n : Trail[i] = p[i]
    BY <1>1, <1>2, <1>3, PathTyped
  <1>5. p = Trail
    BY <1>1, <1>2, <1>4
  <1>6. p[n] = Top.node /\ Through(p[n])
    BY <1>1, <1>2, <1>3 DEF StackIsPath
  <1>7. Ends(p)
    BY DEF OnPath, Sought
  <1>8. /\ Mode = "paths"
        /\ \/ q.depth # NoLimit /\ n = q.depth + 1
           \/ \A m \in q.pass : Step(p[n], m) => \E i \in 1 .. n : p[i] = m
    BY <1>2, <1>6, <1>7 DEF Ends, Through
  <1>9. visited = {p[i] : i \in 1 .. n}
    BY <1>1, <1>2, <1>3 DEF StackIsPath
  <1> QED
    BY <1>2, <1>5, <1>6, <1>8, <1>9 DEF Depth

\* Such a call does not go anywhere once it is open.
LEMMA EndGoesNowhere ==
    ASSUME PathInv, Mode # "nodes", Looking, NEW p, OnPath(p), Len(p) = Len(stack)
    PROVE  ~Goes
  <1>1. TypeOK /\ StackIsPath /\ FramesOpen /\ RestListed /\ stack # <<>>
        /\ stack \in Seq(FrameType)
    BY DEF PathInv, TypeOK, Looking
  <1>2. PICK n \in Nat \ {0} : n = Len(stack) /\ Top = stack[n]
    BY <1>1, TopTyped
  <1>3. q.depth = NoLimit \/ n <= q.depth
    BY <1>1, <1>2 DEF FramesOpen, Looking
  <1>4. q.depth \in Limit
    BY <1>1 DEF TypeOK, QueryType
  <1>5. \A m \in q.pass : Step(Top.node, m) => m \in visited
    BY <1>1, <1>2, <1>3, <1>4, TopEnds DEF Limit
  <1>6. Listed(Top.node, Neighbor)
    BY <1>1, <1>2, NeighborTyped DEF RestListed
  <1> QED
    BY <1>5, <1>6 DEF Goes, Step, Listed

\* The search goes to the next node of a path, and stops there if the path ends.
LEMMA NextIsGone ==
    ASSUME PathInv, Mode # "nodes", Looking, NEW p, OnPath(p), Len(stack) < Len(p),
           Neighbor = p[Len(stack) + 1]
    PROVE  Goes /\ (Stops => Len(p) = Len(stack) + 1)
  <1>1. TypeOK /\ StackIsPath /\ stack # <<>> /\ stack \in Seq(FrameType)
        /\ p \in Seq(Node)
    BY DEF PathInv, TypeOK, Looking, OnPath
  <1>2. PICK n \in Nat \ {0} : n = Len(stack) /\ Top = stack[n]
    BY <1>1, TopTyped
  <1>3. /\ n + 1 \in 2 .. Len(p) /\ p[n] = Top.node /\ Neighbor = p[n + 1]
        /\ Len(p) \in Nat /\ \A i \in 1 .. n : p[i] = stack[i].node
    BY <1>1, <1>2 DEF OnPath
  <1>4. Walkable(p)
    BY DEF OnPath, Sought
  <1>5. Step(p[n], p[n + 1]) /\ p[n + 1] \in q.pass
    <2>1. Step(p[(n + 1) - 1], p[n + 1]) /\ p[n + 1] \in q.pass
      BY <1>3, <1>4 DEF Walkable
    <2>2. (n + 1) - 1 = n
      BY <1>2
    <2> QED
      BY <2>1, <2>2
  <1>6. Neighbor \notin visited
    <2>1. \A i \in 1 .. n : p[i] # p[n + 1]
      <3> TAKE i \in 1 .. n
      <3>1. i \in 1 .. Len(p) /\ n + 1 \in 1 .. Len(p) /\ i # n + 1
        BY <1>2, <1>3
      <3> QED
        BY <1>4, <3>1 DEF Walkable, Distinct
    <2> QED
      BY <1>1, <1>2, <1>3, <2>1 DEF StackIsPath
  <1>7. Goes
    BY <1>3, <1>5, <1>6 DEF Goes, Step
  <1>8. ASSUME Len(p) # n + 1 PROVE ~Stops
    <2>1. n + 1 \in 2 .. Len(p) - 1
      BY <1>2, <1>3, <1>8
    <2> QED
      BY <1>3, <1>4, <2>1 DEF Walkable, Stops
  <1> QED
    BY <1>2, <1>7, <1>8

\* What is left of a neighbour list still leads to the next node of a path, if the one
\* looked at is another.
LEMMA RestLeads ==
    ASSUME TypeOK, Next, NEW n, n = Len(stack), NEW p \in Seq(Node), n < Len(p),
           \A j \in 1 .. n : p[j] = stack[j].node,
           Looking, Ahead(n, p), Neighbor # p[n + 1],
           n \in 1 .. Len(stack'), stack'[n].node = stack[n].node,
           stack'[n].open, stack'[n].rest = Tail(stack[n].rest)
    PROVE  Awaited(p)'
  <1>1. /\ n \in Nat \ {0} /\ stack # <<>> /\ stack \in Seq(FrameType) /\ Top = stack[n]
        /\ \A i \in 1 .. n - 1 : stack'[i] = stack[i]
    BY BelowKept, TopTyped DEF TypeOK
  <1>2. \E k \in 1 .. Len(stack[n].rest) : stack[n].rest[k] = p[n + 1]
    BY <1>1 DEF Ahead, Looking
  <1>3. Top.rest \in Seq(Node) /\ Top.rest # <<>> /\ Neighbor = Top.rest[1]
    BY <1>1, TopTyped, NeighborTyped DEF Looking
  <1>4. \E k \in 1 .. Len(Tail(Top.rest)) : Tail(Top.rest)[k] = p[n + 1]
    <2>1. PICK r \in Seq(Node) : r = Top.rest
      BY <1>3
    <2>2. PICK x : x = p[n + 1]
      OBVIOUS
    <2>3. r # <<>> /\ r[1] # x /\ \E k \in 1 .. Len(r) : r[k] = x
      BY <1>1, <1>2, <1>3, <2>1, <2>2
    <2>4. \E k \in 1 .. Len(Tail(r)) : Tail(r)[k] = x
      <3>1. PICK k \in 1 .. Len(r) : r[k] = x
        BY <2>3
      <3>2. k - 1 \in 1 .. Len(Tail(r)) /\ Tail(r)[k - 1] = x
        BY <2>3, <3>1, TailListed
      <3> QED
        BY <3>2
    <2> QED
      BY <2>1, <2>2, <2>4
  <1>5. \E k \in 1 .. Len(stack'[n].rest) : stack'[n].rest[k] = p[n + 1]
    BY <1>1, <1>4
  <1>6. \A j \in 1 .. n : p[j] = stack'[j].node
    BY <1>1
  <1>7. Ahead(n, p)'
    BY <1>5, <1>6 DEF Ahead
  <1> QED
    BY <1>7 DEF Awaited

\* The path the top call leads to is found by its step, or it or a new call does.
LEMMA TopLeads ==
    ASSUME FoundInv, Mode # "nodes", Next, NEW p \in Seq(Node), Sought(p), Len(p) >= 2,
           Ahead(Len(stack), p), stack # <<>>
    PROVE  p \in Results' \/ Full' \/ Awaited(p)'
  <1>1. PathInv /\ TypeOK /\ stack \in Seq(FrameType) /\ out \in Seq(Seq(Node))
    BY DEF FoundInv, PathInv, TypeOK
  <1>2. PICK n \in Nat \ {0} : n = Len(stack) /\ Top = stack[n]
    BY <1>1, TopTyped
  <1>3. /\ Len(p) \in Nat /\ n <= Len(p) /\ OnPath(p)
        /\ \A j \in 1 .. n : p[j] = stack[j].node
    BY <1>2 DEF Ahead, OnPath
  <1>4. ASSUME out' = Append(out, p) PROVE p \in Results'
    BY <1>1, <1>4, OneMore
  <1>5. CASE CutFull
    <2>1. out' = out /\ Full /\ q' = q
      BY <1>5, QueryKept DEF CutFull
    <2> QED
      BY <2>1 DEF Full
  <1>6. CASE CutDeep
    <2>1. q.depth \in Limit /\ Short(p)
      BY <1>1 DEF TypeOK, QueryType, Sought
    <2>2. q.depth # NoLimit /\ n - 1 >= q.depth
      BY <1>2, <1>6 DEF CutDeep, Deep, Depth
    <2>3. Len(p) = n
      BY <1>2, <1>3, <2>1, <2>2 DEF Short, Limit
    <2>4. Mode = "paths" /\ p = Trail /\ Depth > 0
      BY <1>1, <1>2, <1>3, <2>3, TopEnds
    <2> QED
      BY <1>4, <1>6, <2>4 DEF CutDeep
  <1>7. CASE Open
    <2>1. /\ Len(stack') = n /\ stack'[n].node = stack[n].node /\ stack'[n].open
          /\ stack'[n].went = stack[n].went /\ stack'[n].rest = q.nbrs[stack[n].node]
          /\ \A i \in 1 .. n - 1 : stack'[i] = stack[i]
      BY <1>1, <1>2, <1>7, OpenTop
    <2>2. \A j \in 1 .. n : p[j] = stack'[j].node
      BY <1>3, <2>1
    <2>3. CASE n = Len(p)
      <3>1. ~stack[n].went
        BY <1>2, <1>7 DEF FoundInv, Open, Entering
      <3>2. Ahead(n, p)'
        BY <1>3, <2>1, <2>2, <2>3, <3>1 DEF Ahead
      <3> QED
        BY <1>2, <2>1, <3>2 DEF Awaited
    <2>4. CASE n < Len(p)
      <3>1. Step(p[n], p[n + 1])
        <4>1. n + 1 \in 2 .. Len(p) /\ (n + 1) - 1 = n
          BY <1>2, <1>3, <2>4
        <4>2. Step(p[(n + 1) - 1], p[n + 1])
          BY <4>1 DEF Sought, Walkable
        <4> QED
          BY <4>1, <4>2
      <3>2. p[n] = stack[n].node
        BY <1>2, <1>3
      <3>3. \E k \in 1 .. Len(stack'[n].rest) : stack'[n].rest[k] = p[n + 1]
        BY <2>1, <3>1, <3>2 DEF Step
      <3>4. Ahead(n, p)'
        BY <1>3, <2>2, <2>4, <3>3 DEF Ahead
      <3> QED
        BY <1>2, <2>1, <3>4 DEF Awaited
    <2> QED
      BY <1>2, <1>3, <2>3, <2>4
  <1>8. ASSUME Looking, Len(p) = n
        PROVE  ~Goes
    BY <1>1, <1>2, <1>3, <1>8, EndGoesNowhere
  <1>9. CASE Skip
    <2>1. Looking /\ ~Goes /\ stack' = Looked(FALSE) /\ Top.open
      BY <1>9 DEF Skip, Looking
    <2>2. /\ Len(stack') = n /\ stack'[n].node = stack[n].node /\ stack'[n].open
          /\ stack'[n].went = (stack[n].went \/ FALSE)
          /\ stack'[n].rest = Tail(stack[n].rest)
          /\ \A i \in 1 .. n - 1 : stack'[i] = stack[i]
      BY <1>1, <1>2, <2>1, LookTop
    <2>5. n \in 1 .. Len(stack')
      BY <1>2, <2>2
    <2>3. CASE n = Len(p)
      <3>1. ~stack[n].went
        BY <1>2, <2>1, <2>3 DEF Ahead
      <3>3. ~stack'[n].went
        BY <2>2, <3>1
      <3>4. \A j \in 1 .. n : p[j] = stack'[j].node
        BY <1>2, <1>3, <2>2
      <3>2. Ahead(n, p)'
        BY <1>3, <2>3, <3>3, <3>4 DEF Ahead
      <3> QED
        BY <1>2, <2>2, <3>2 DEF Awaited
    <2>4. CASE n < Len(p)
      <3>1. Neighbor # p[n + 1]
        BY <1>1, <1>2, <1>3, <2>1, <2>4, NextIsGone
      <3> QED
        BY <1>1, <1>2, <1>3, <2>1, <2>2, <2>4, <2>5, <3>1, RestLeads
    <2> QED
      BY <1>2, <1>3, <2>3, <2>4
  <1>10. CASE Stop
    <2>1. Looking /\ Goes /\ Stops /\ stack' = Looked(TRUE) /\ Top.open
          /\ out' = Append(out, Append(Trail, Neighbor))
      BY <1>10 DEF FoundInv, Stop, Looking
    <2>2. /\ Len(stack') = n /\ stack'[n].node = stack[n].node /\ stack'[n].open
          /\ stack'[n].rest = Tail(stack[n].rest)
      BY <1>1, <1>2, <2>1, LookTop
    <2>6. n \in 1 .. Len(stack')
      BY <1>2, <2>2
    <2>3. n < Len(p)
      BY <1>2, <1>3, <1>8, <2>1
    <2>4. CASE Neighbor = p[n + 1]
      <3>1. Len(p) = n + 1
        BY <1>1, <1>2, <1>3, <2>1, <2>3, <2>4, NextIsGone
      <3>2. /\ Trail \in Seq(Node) /\ Len(Trail) = n
            /\ \A i \in 1 .. n : Trail[i] = p[i]
        BY <1>1, <1>2, <1>3, PathTyped
      <3>3. PICK r \in Seq(Node) : r = Append(Trail, Neighbor)
        BY <1>1, <2>1, <3>2, NeighborTyped, AppendTyped
      <3>4. Len(r) = n + 1 /\ \A i \in 1 .. n + 1 : r[i] = p[i]
        <4>1. /\ Len(r) = n + 1 /\ r[n + 1] = Neighbor
              /\ \A i \in 1 .. n : r[i] = Trail[i]
          BY <1>1, <2>1, <3>2, <3>3, NeighborTyped, AppendTyped
        <4>2. \A i \in 1 .. n + 1 : i \in 1 .. n \/ i = n + 1
          BY <1>2
        <4> QED
          BY <2>4, <3>2, <4>1, <4>2
      <3>5. r = p
        BY <3>1, <3>3, <3>4
      <3> QED
        BY <1>4, <2>1, <3>3, <3>5
    <2>5. CASE Neighbor # p[n + 1]
      BY <1>1, <1>2, <1>3, <2>1, <2>2, <2>3, <2>5, <2>6, RestLeads
    <2> QED
      BY <2>4, <2>5
  <1>11. CASE Go
    <2>1. Looking /\ Goes /\ Top.open
      BY <1>11 DEF Go, Looking
    <2>2. /\ Len(stack') = n + 1 /\ stack'[n].node = stack[n].node /\ stack'[n].open
          /\ stack'[n].rest = Tail(stack[n].rest)
          /\ stack'[n + 1] = Frame(Neighbor)
          /\ \A i \in 1 .. n - 1 : stack'[i] = stack[i]
      BY <1>1, <1>2, <1>11, GoTop
    <2>3. n < Len(p)
      BY <1>2, <1>3, <1>8, <2>1
    <2>4. CASE Neighbor = p[n + 1]
      <3>1. stack'[n + 1].node = p[n + 1] /\ ~stack'[n + 1].open
        BY <2>2, <2>4 DEF Frame
      <3>2. \A j \in 1 .. n + 1 : p[j] = stack'[j].node
        <4> TAKE j \in 1 .. n + 1
        <4>1. j = n + 1 \/ j = n \/ j \in 1 .. n - 1
          BY <1>2
        <4> QED
          BY <1>2, <1>3, <2>2, <3>1, <4>1
      <3>3. Ahead(n + 1, p)'
        BY <1>2, <1>3, <2>3, <3>1, <3>2 DEF Ahead
      <3> QED
        BY <1>2, <2>2, <3>3 DEF Awaited
    <2>5. CASE Neighbor # p[n + 1]
      BY <1>1, <1>2, <1>3, <2>1, <2>2, <2>3, <2>5, RestLeads
    <2> QED
      BY <2>4, <2>5
  <1>12. CASE Return
    <2>1. Top.open /\ Top.rest = <<>> /\ Len(Top.rest) = 0
      BY <1>12 DEF Return
    <2>2. n = Len(p) /\ ~Top.went
      BY <1>2, <1>3, <2>1 DEF Ahead
    <2>3. Mode = "paths" /\ p = Trail /\ Depth > 0
      BY <1>1, <1>2, <1>3, <2>2, TopEnds
    <2> QED
      BY <1>4, <1>12, <2>2, <2>3 DEF Return
  <1> QED
    BY <1>5, <1>6, <1>7, <1>9, <1>10, <1>11, <1>12 DEF Next

LEMMA FoundNext == FoundInv /\ [Next]_walk => FoundInv'
  <1> SUFFICES ASSUME FoundInv, [Next]_walk PROVE FoundInv'
    OBVIOUS
  <1>1. PathInv /\ PathInv' /\ TypeOK /\ q' = q /\ Mode' = Mode
    BY PathNext, QueryKept DEF FoundInv, PathInv
  <1>2. CASE UNCHANGED walk
    <2>1. /\ \A p : Sought(p)' <=> Sought(p)
          /\ \A p : Awaited(p)' <=> Awaited(p)
          /\ Results' = Results /\ (Full' <=> Full) /\ stack' = stack
      BY <1>1, <1>2 DEF walk, Results, Full, Awaited, Ahead, Sought, Walkable,
                        Short, Ends, Step
    <2> QED
      BY <1>1, <2>1 DEF FoundInv
  <1> SUFFICES ASSUME Next, Mode # "nodes" PROVE FoundInv'
    BY <1>1, <1>2 DEF FoundInv
  <1>3. /\ stack # <<>> /\ stack \in Seq(FrameType) /\ out \in Seq(Seq(Node))
        /\ Trail \in Seq(Node)
    BY <1>1, BelowKept, PathTyped DEF TypeOK
  <1>4. PICK n \in Nat \ {0} : n = Len(stack) /\ Top = stack[n]
    BY <1>3, TopTyped
  <1>5. ASSUME NEW i \in 1 .. Len(stack'), ~stack'[i].open
        PROVE  ~stack'[i].went
    <2>1. CASE i \in 1 .. n - 1
      <3>1. stack'[i] = stack[i] /\ i \in 1 .. Len(stack)
        BY <1>1, <1>4, <2>1, BelowKept
      <3> QED
        BY <1>5, <3>1 DEF FoundInv
    <2>2. CASE Open
      <3>1. Len(stack') = n /\ stack'[n].open
        BY <1>1, <1>4, <2>2, OpenTop
      <3> QED
        BY <1>4, <1>5, <2>1, <3>1
    <2>3. ASSUME Looking, NEW went \in BOOLEAN, stack' = Looked(went)
          PROVE  ~stack'[i].went
      <3>1. Len(stack') = n /\ stack'[n].open
        BY <1>1, <1>4, <2>3, LookTop
      <3> QED
        BY <1>4, <1>5, <2>1, <3>1
    <2>4. CASE Skip
      BY <2>3, <2>4 DEF Skip
    <2>5. CASE Stop
      BY <2>3, <2>5 DEF Stop
    <2>6. CASE Go
      <3>1. Len(stack') = n + 1 /\ stack'[n].open /\ stack'[n + 1] = Frame(Neighbor)
        BY <1>1, <1>4, <2>6, GoTop
      <3>2. i \in 1 .. n - 1 \/ i = n \/ i = n + 1
        BY <1>4, <3>1
      <3> QED
        BY <1>5, <2>1, <3>1, <3>2 DEF Frame
    <2>7. CASE CutFull \/ CutDeep \/ Return
      <3>1. Len(stack') = n - 1
        BY <1>1, <1>3, <1>4, <2>7, LeaveTop DEF CutFull, CutDeep, Return
      <3> QED
        BY <1>4, <2>1, <3>1
    <2> QED
      BY <2>2, <2>4, <2>5, <2>6, <2>7 DEF Next
  <1>6. \/ out' = out
        \/ \E p \in Seq(Node) : out' = Append(out, p) /\ Len(p) >= 2
    <2>1. Len(Trail) = n
      BY <1>3, <1>4, PathTyped
    <2>2. CASE CutDeep
      BY <1>3, <1>4, <2>1, <2>2 DEF CutDeep, Depth
    <2>3. CASE Return
      BY <1>3, <1>4, <2>1, <2>3 DEF Return, Depth
    <2>4. CASE Stop
      <3>1. PICK r \in Seq(Node) : r = Append(Trail, Neighbor) /\ Len(r) = n + 1
        <4>1. Neighbor \in Node
          BY <1>3, <2>4, NeighborTyped DEF Stop
        <4> QED
          BY <1>3, <2>1, <4>1, AppendTyped
      <3>2. out' = Append(out, r)
        BY <2>4, <3>1 DEF Stop
      <3>3. Len(r) >= 2
        BY <1>4, <3>1
      <3> QED
        BY <3>2, <3>3
    <2>5. CASE CutFull \/ Open \/ Skip \/ Go
      BY <2>5 DEF CutFull, Open, Skip, Go
    <2> QED
      BY <2>2, <2>3, <2>4, <2>5 DEF Next
  <1>7. /\ Results \subseteq Results'
        /\ Full => Full'
        /\ \A p \in Results' : p \in Results \/ Len(p) >= 2
    <2>1. CASE out' = out
      BY <1>1, <2>1 DEF Results, Full
    <2>2. ASSUME NEW p \in Seq(Node), out' = Append(out, p), Len(p) >= 2
          PROVE  /\ Results \subseteq Results'
                 /\ Full => Full'
                 /\ \A r \in Results' : r \in Results \/ Len(r) >= 2
      <3>1. Len(out') = Len(out) + 1 /\ Results' = Results \cup {p}
        BY <1>3, <2>2, OneMore
      <3>2. q.limit \in Limit /\ Len(out) \in Nat
        BY <1>1, <1>3 DEF TypeOK, QueryType
      <3>3. Full => Full'
        BY <1>1, <3>1, <3>2 DEF Full, Limit
      <3> QED
        BY <2>2, <3>1, <3>3
    <2> QED
      BY <1>6, <2>1, <2>2
  <1>8. \A p \in Results' : Len(p) >= 2
    BY <1>7 DEF FoundInv
  <1>9. ASSUME NEW p \in Seq(Node), Sought(p), Len(p) >= 2
        PROVE  p \in Results' \/ Full' \/ Awaited(p)'
    <2>1. p \in Results \/ Full \/ Awaited(p)
      BY <1>9 DEF FoundInv
    <2>2. ASSUME NEW i \in 1 .. Len(stack), Ahead(i, p)
          PROVE  p \in Results' \/ Full' \/ Awaited(p)'
      <3>1. CASE i \in 1 .. Len(stack) - 1
        BY <1>1, <2>2, <3>1, AheadBelow
      <3>2. CASE i = Len(stack)
        BY <1>3, <1>9, <2>2, <3>2, TopLeads
      <3> QED
        BY <1>4, <3>1, <3>2
    <2>3. Awaited(p) => \E i \in 1 .. Len(stack) : Ahead(i, p)
      BY DEF Awaited
    <2>4. CASE Awaited(p)
      <3>1. PICK i \in 1 .. Len(stack) : Ahead(i, p)
        BY <2>3, <2>4
      <3> QED
        BY <2>2, <3>1
    <2>5. CASE p \in Results \/ Full
      BY <1>7, <2>5
    <2> QED
      BY <2>1, <2>4, <2>5
  <1>10. \A p : Sought(p)' <=> Sought(p)
    BY <1>1 DEF Sought, Walkable, Short, Ends, Step
  <1> QED
    BY <1>1, <1>5, <1>8, <1>9, <1>10 DEF FoundInv

-----------------------------------------------------------------------------
(* No path is found twice.  Without parallel edges no call has a neighbour  *)
(* left twice, nor one it has gone to, so that none leads to a path found. *)

\* No call has the next node of the stack left.
GoneOnce ==
    \A i \in 1 .. Len(stack) - 1 : \A k \in 1 .. Len(stack[i].rest) :
        stack[i].rest[k] # stack[i + 1].node

OnceInv ==
    /\ FoundInv
    /\ Mode # "nodes" /\ Simple =>
          /\ \A i \in 1 .. Len(stack) : Distinct(stack[i].rest)
          /\ GoneOnce
          /\ Distinct(out)
          /\ \A p \in Results : ~Awaited(p)

LEMMA OnceInit == Begun => OnceInv
  <1> SUFFICES ASSUME Begun PROVE OnceInv
    OBVIOUS
  <1>1. /\ Len(stack) = 1 /\ stack[1].rest = <<>> /\ out = <<>> /\ Results = {}
    BY DEF Begun, Frame, Results
  <1> QED
    BY <1>1, FoundInit DEF OnceInv, GoneOnce, Distinct

\* A call that leads to a path has led to it before: the walk never turns back to one.
LEMMA AwaitedWas ==
    ASSUME TypeOK, Next, NEW p, Len(p) \in Nat, Awaited(p)'
    PROVE  Awaited(p)
  <1>1. stack # <<>> /\ stack \in Seq(FrameType)
    BY BelowKept DEF TypeOK
  <1>2. PICK n \in Nat \ {0} : n = Len(stack) /\ Top = stack[n]
    BY <1>1, TopTyped
  <1>3. PICK i \in 1 .. Len(stack') : Ahead(i, p)'
    BY DEF Awaited
  <1>4. /\ i <= Len(p) /\ \A j \in 1 .. i : p[j] = stack'[j].node
        /\ \/ ~stack'[i].open
           \/ i = Len(p) /\ ~stack'[i].went
           \/ i < Len(p) /\ \E k \in 1 .. Len(stack'[i].rest) : stack'[i].rest[k] = p[i + 1]
    BY <1>3 DEF Ahead
  <1>5. CASE i \in 1 .. n - 1
    <2>1. \A j \in 1 .. i : stack'[j] = stack[j]
      BY <1>1, <1>2, <1>5, BelowKept
    <2>2. Ahead(i, p) /\ i \in 1 .. Len(stack)
      BY <1>2, <1>4, <1>5, <2>1 DEF Ahead
    <2> QED
      BY <2>2 DEF Awaited
  <1>6. ASSUME n <= Len(p), \A j \in 1 .. n : p[j] = stack[j].node,
               \/ ~stack[n].open
               \/ n = Len(p) /\ ~stack[n].went
               \/ n < Len(p) /\ \E k \in 1 .. Len(stack[n].rest) : stack[n].rest[k] = p[n + 1]
        PROVE  Awaited(p)
    BY <1>2, <1>6 DEF Awaited, Ahead
  <1>7. ASSUME n <= i, n \in 1 .. Len(stack'), stack'[n].node = stack[n].node,
               \A j \in 1 .. n - 1 : stack'[j] = stack[j]
        PROVE  n <= Len(p) /\ \A j \in 1 .. n : p[j] = stack[j].node
    <2>1. n <= Len(p) /\ \A j \in 1 .. n : p[j] = stack'[j].node
      BY <1>2, <1>4, <1>7
    <2>2. \A j \in 1 .. n : j = n \/ j \in 1 .. n - 1
      BY <1>2
    <2> QED
      BY <1>7, <2>1, <2>2
  <1>8. CASE Open
    <2>1. /\ Len(stack') = n /\ stack'[n].node = stack[n].node
          /\ \A j \in 1 .. n - 1 : stack'[j] = stack[j]
      BY <1>2, <1>8, OpenTop
    <2>2. CASE i = n
      <3>1. ~stack[n].open
        BY <1>2, <1>8 DEF Open, Entering
      <3> QED
        BY <1>2, <1>6, <1>7, <2>1, <2>2, <3>1
    <2> QED
      BY <1>2, <1>5, <2>1, <2>2
  <1>9. ASSUME Looking, NEW went \in BOOLEAN, stack' = Looked(went)
        PROVE  Awaited(p)
    <2>1. /\ Len(stack') = n /\ stack'[n].node = stack[n].node /\ stack'[n].open
          /\ stack'[n].went = (stack[n].went \/ went)
          /\ stack'[n].rest = Tail(stack[n].rest)
          /\ \A j \in 1 .. n - 1 : stack'[j] = stack[j]
      BY <1>2, <1>9, LookTop
    <2>2. CASE i = n
      <3>1. n <= Len(p) /\ \A j \in 1 .. n : p[j] = stack[j].node
        BY <1>2, <1>7, <2>1, <2>2
      <3>2. CASE i = Len(p) /\ ~stack'[i].went
        BY <1>6, <2>1, <2>2, <3>1, <3>2
      <3>3. CASE i < Len(p) /\ \E k \in 1 .. Len(stack'[i].rest) : stack'[i].rest[k] = p[i + 1]
        <4>1. stack[n].rest \in Seq(Node) /\ stack[n].rest # <<>>
          BY <1>1, <1>2, <1>9, TopTyped DEF Looking
        <4>2. PICK r \in Seq(Node) : r = stack[n].rest
          BY <4>1
        <4>3. PICK k \in 1 .. Len(Tail(r)) : Tail(r)[k] = p[n + 1]
          BY <2>1, <2>2, <3>3, <4>2
        <4>4. k + 1 \in 1 .. Len(r) /\ r[k + 1] = p[n + 1]
          BY <4>1, <4>2, <4>3, TailWithin
        <4> QED
          BY <1>6, <2>2, <3>1, <3>3, <4>2, <4>4
      <3> QED
        BY <1>4, <2>1, <2>2, <3>2, <3>3
    <2> QED
      BY <1>2, <1>5, <2>1, <2>2
  <1>10. CASE Skip
    BY <1>9, <1>10 DEF Skip
  <1>11. CASE Stop
    BY <1>9, <1>11 DEF Stop
  <1>12. CASE Go
    <2>1. /\ Len(stack') = n + 1 /\ stack'[n].node = stack[n].node /\ stack'[n].open
          /\ stack'[n].went /\ stack'[n].rest = Tail(stack[n].rest)
          /\ stack'[n + 1] = Frame(Neighbor)
          /\ \A j \in 1 .. n - 1 : stack'[j] = stack[j]
      BY <1>2, <1>12, GoTop
    <2>2. n \in 1 .. Len(stack') /\ (n <= i => i = n \/ i = n + 1)
      BY <1>2, <2>1
    <2>3. stack[n].rest \in Seq(Node) /\ stack[n].rest # <<>>
          /\ Neighbor = stack[n].rest[1] /\ 1 \in 1 .. Len(stack[n].rest)
      BY <1>1, <1>2, <1>12, TopTyped, NeighborTyped DEF Go, Looking
    <2>4. ASSUME n <= i PROVE n <= Len(p) /\ \A j \in 1 .. n : p[j] = stack[j].node
      BY <1>7, <2>1, <2>2, <2>4
    <2>5. CASE i = n
      <3>1. i < Len(p) /\ \E k \in 1 .. Len(stack'[i].rest) : stack'[i].rest[k] = p[i + 1]
        BY <1>4, <2>1, <2>5
      <3>2. PICK r \in Seq(Node) : r = stack[n].rest
        BY <2>3
      <3>3. PICK k \in 1 .. Len(Tail(r)) : Tail(r)[k] = p[n + 1]
        BY <2>1, <2>5, <3>1, <3>2
      <3>4. k + 1 \in 1 .. Len(r) /\ r[k + 1] = p[n + 1]
        BY <2>3, <3>2, <3>3, TailWithin
      <3> QED
        BY <1>2, <1>6, <2>4, <2>5, <3>1, <3>2, <3>4
    <2>6. CASE i = n + 1
      <3>1. stack'[n + 1].node = Neighbor
        BY <2>1 DEF Frame
      <3>2. n < Len(p) /\ p[n + 1] = Neighbor
        BY <1>2, <1>4, <2>6, <3>1
      <3> QED
        BY <1>2, <1>6, <2>3, <2>4, <2>6, <3>2
    <2> QED
      BY <1>2, <1>5, <2>1, <2>2, <2>5, <2>6
  <1>13. CASE CutFull \/ CutDeep \/ Return
    <2>1. Len(stack') = n - 1
      BY <1>1, <1>2, <1>13, LeaveTop DEF CutFull, CutDeep, Return
    <2> QED
      BY <1>2, <1>5, <2>1
  <1> QED
    BY <1>8, <1>10, <1>11, <1>12, <1>13 DEF Next

\* The tail of a list without repetition has none either, nor the head.
LEMMA TailDistinct ==
    ASSUME NEW S, NEW s \in Seq(S), s # <<>>, Distinct(s)
    PROVE  Distinct(Tail(s)) /\ \A k \in 1 .. Len(Tail(s)) : Tail(s)[k] # s[1]
  <1>1. 1 \in 1 .. Len(s) /\ \A k \in 1 .. Len(Tail(s)) :
           k \in Nat \ {0} /\ k + 1 \in 1 .. Len(s) /\ Tail(s)[k] = s[k + 1]
    BY TailWithin
  <1>2. \A k \in 1 .. Len(Tail(s)) : Tail(s)[k] # s[1]
    BY <1>1 DEF Distinct
  <1>3. ASSUME NEW j \in 1 .. Len(Tail(s)), NEW k \in 1 .. Len(Tail(s)),
               Tail(s)[j] = Tail(s)[k]
        PROVE  j = k
    <2>1. j + 1 = k + 1
      BY <1>1, <1>3 DEF Distinct
    <2> QED
      BY <1>1, <2>1
  <1> QED
    BY <1>2, <1>3 DEF Distinct

\* What a call has left is without repetition.
LEMMA RestsOnce ==
    ASSUME TypeOK, Next, Simple, \A i \in 1 .. Len(stack) : Distinct(stack[i].rest)
    PROVE  \A i \in 1 .. Len(stack') : Distinct(stack'[i].rest)
  <1>1. stack # <<>> /\ stack \in Seq(FrameType)
    BY BelowKept DEF TypeOK
  <1>2. PICK n \in Nat \ {0} : n = Len(stack) /\ Top = stack[n]
    BY <1>1, TopTyped
  <1> SUFFICES ASSUME NEW i \in 1 .. Len(stack') PROVE Distinct(stack'[i].rest)
    OBVIOUS
  <1>3. CASE i \in 1 .. n - 1
    <2>1. stack'[i] = stack[i] /\ i \in 1 .. Len(stack)
      BY <1>2, <1>3, BelowKept
    <2> QED
      BY <2>1
  <1>4. ASSUME Looking, stack'[n].rest = Tail(stack[n].rest) PROVE Distinct(stack'[n].rest)
    <2>1. PICK r \in Seq(Node) : r = stack[n].rest
      BY <1>1, <1>2, TopTyped
    <2>2. r # <<>> /\ Distinct(r)
      BY <1>2, <1>4, <2>1 DEF Looking
    <2>3. Distinct(Tail(r))
      BY <2>2, TailDistinct
    <2> QED
      BY <1>4, <2>1, <2>3
  <1>5. CASE Open
    <2>1. Len(stack') = n /\ stack'[n].rest = q.nbrs[stack[n].node]
      BY <1>2, <1>5, OpenTop
    <2>2. stack[n].node \in Node
      BY <1>1, <1>2, TopTyped
    <2>3. Distinct(stack'[n].rest)
      BY <2>1, <2>2 DEF Simple
    <2> QED
      BY <1>2, <1>3, <2>1, <2>3
  <1>6. ASSUME Looking, NEW went \in BOOLEAN, stack' = Looked(went)
        PROVE  Distinct(stack'[i].rest)
    <2>1. Len(stack') = n /\ stack'[n].rest = Tail(stack[n].rest)
      BY <1>2, <1>6, LookTop
    <2> QED
      BY <1>2, <1>3, <1>4, <1>6, <2>1
  <1>7. CASE Skip
    BY <1>6, <1>7 DEF Skip
  <1>8. CASE Stop
    BY <1>6, <1>8 DEF Stop
  <1>9. CASE Go
    <2>1. /\ Len(stack') = n + 1 /\ stack'[n].rest = Tail(stack[n].rest)
          /\ stack'[n + 1] = Frame(Neighbor)
      BY <1>2, <1>9, GoTop
    <2>2. Distinct(stack'[n].rest)
      BY <1>4, <1>9, <2>1 DEF Go
    <2>3. Distinct(stack'[n + 1].rest)
      BY <2>1 DEF Frame, Distinct
    <2>4. i \in 1 .. n - 1 \/ i = n \/ i = n + 1
      BY <1>2, <2>1
    <2> QED
      BY <1>3, <2>2, <2>3, <2>4
  <1>10. CASE CutFull \/ CutDeep \/ Return
    <2>1. Len(stack') = n - 1
      BY <1>1, <1>2, <1>10, LeaveTop DEF CutFull, CutDeep, Return
    <2> QED
      BY <1>2, <1>3, <2>1
  <1> QED
    BY <1>5, <1>7, <1>8, <1>9, <1>10 DEF Next

LEMMA GoneKept ==
    ASSUME TypeOK, Next, GoneOnce, \A i \in 1 .. Len(stack) : Distinct(stack[i].rest)
    PROVE  GoneOnce'
  <1>1. stack # <<>> /\ stack \in Seq(FrameType)
    BY BelowKept DEF TypeOK
  <1>2. PICK n \in Nat \ {0} : n = Len(stack) /\ Top = stack[n]
    BY <1>1, TopTyped
  <1>3. /\ Len(stack') \in {n - 1, n, n + 1}
        /\ \A i \in 1 .. n - 1 : stack'[i] = stack[i]
    BY <1>2, BelowKept
  <1>4. \A i \in 1 .. n - 1 : \A k \in 1 .. Len(stack[i].rest) :
            stack[i].rest[k] # stack[i + 1].node
    BY <1>2 DEF GoneOnce
  <1>5. n \in 1 .. Len(stack') => stack'[n].node = stack[n].node
    <2>1. CASE Open
      BY <1>2, <2>1, OpenTop
    <2>2. CASE Skip
      BY <1>2, <2>2, LookTop DEF Skip
    <2>3. CASE Stop
      BY <1>2, <2>3, LookTop DEF Stop
    <2>4. CASE Go
      BY <1>2, <2>4, GoTop
    <2>5. CASE CutFull \/ CutDeep \/ Return
      <3>1. Len(stack') = n - 1
        BY <1>1, <1>2, <2>5, LeaveTop DEF CutFull, CutDeep, Return
      <3> QED
        BY <1>2, <3>1
    <2> QED
      BY <2>1, <2>2, <2>3, <2>4, <2>5 DEF Next
  <1>6. ASSUME NEW i \in 1 .. Len(stack') - 1, i \in 1 .. n - 1
        PROVE  stack'[i] = stack[i] /\ stack'[i + 1].node = stack[i + 1].node
    <2>1. i + 1 \in 1 .. n - 1 \/ (i + 1 = n /\ n \in 1 .. Len(stack'))
      BY <1>2, <1>3, <1>6
    <2> QED
      BY <1>3, <1>5, <1>6, <2>1
  <1>7. ASSUME NEW i \in 1 .. Len(stack') - 1, i \notin 1 .. n - 1
        PROVE  \A k \in 1 .. Len(stack'[i].rest) : stack'[i].rest[k] # stack'[i + 1].node
    <2>1. Len(stack') = n + 1 /\ i = n
      BY <1>2, <1>3, <1>7
    <2>2. Go
      <3>1. CASE Open
        BY <1>2, <2>1, <3>1, OpenTop
      <3>2. ASSUME Looking, NEW went \in BOOLEAN, stack' = Looked(went)
            PROVE  FALSE
        <4>1. Len(stack') = n
          BY <1>2, <3>2, LookTop
        <4> QED
          BY <1>2, <2>1, <4>1
      <3>3. CASE Skip \/ Stop
        BY <3>2, <3>3 DEF Skip, Stop
      <3>4. CASE CutFull \/ CutDeep \/ Return
        BY <1>1, <1>2, <2>1, <3>4, LeaveTop DEF CutFull, CutDeep, Return
      <3> QED
        BY <3>1, <3>2, <3>3, <3>4 DEF Next
    <2>3. stack'[n].rest = Tail(stack[n].rest) /\ stack'[n + 1] = Frame(Neighbor)
      BY <1>2, <2>2, GoTop
    <2>4. PICK r \in Seq(Node) : r = stack[n].rest
      BY <1>1, <1>2, TopTyped
    <2>5. r # <<>> /\ Distinct(r) /\ Neighbor = r[1]
      BY <1>1, <1>2, <2>2, <2>4, NeighborTyped DEF Go, Looking
    <2>6. \A k \in 1 .. Len(Tail(r)) : Tail(r)[k] # r[1]
      BY <2>5, TailDistinct
    <2>7. stack'[n + 1].node = r[1]
      BY <2>3, <2>5 DEF Frame
    <2> QED
      BY <2>1, <2>3, <2>4, <2>6, <2>7
  <1>8. ASSUME NEW i \in 1 .. Len(stack') - 1
        PROVE  \A k \in 1 .. Len(stack'[i].rest) : stack'[i].rest[k] # stack'[i + 1].node
    BY <1>4, <1>6, <1>7, <1>8
  <1> QED
    BY <1>8 DEF GoneOnce

\* What a step appends has been awaited, so it is no result yet, and is not awaited
\* any more: the calls that were on it have gone to its next node.
LEMMA GoneBelow ==
    ASSUME OnceInv, Mode # "nodes", Simple, Next, NEW p, Len(p) \in Nat,
           NEW i \in 1 .. Len(stack) - 1, p[i + 1] = stack[i + 1].node, i < Len(p)
    PROVE  ~Ahead(i, p)'
  <1>1. TypeOK /\ FramesOpen /\ GoneOnce /\ stack # <<>> /\ Len(stack) \in Nat
    BY BelowKept DEF OnceInv, FoundInv, PathInv
  <1>2. stack'[i] = stack[i]
    BY <1>1, BelowKept
  <1>3. stack[i].open /\ stack[i].went
    BY <1>1 DEF FramesOpen
  <1>4. \A k \in 1 .. Len(stack[i].rest) : stack[i].rest[k] # p[i + 1]
    BY <1>1 DEF GoneOnce
  <1> QED
    BY <1>2, <1>3, <1>4 DEF Ahead

LEMMA PathOnce ==
    ASSUME OnceInv, Mode # "nodes", Simple, CutDeep \/ (Return /\ ~Top.went),
           NEW p, p = Trail
    PROVE  p \notin Results /\ ~Awaited(p)'
  <1>1. Next /\ stack # <<>> /\ TypeOK /\ stack \in Seq(FrameType) /\ Leave
    BY DEF Next, CutDeep, Return, Entering, OnceInv, FoundInv, PathInv, TypeOK
  <1>2. PICK n \in Nat \ {0} : n = Len(stack) /\ Top = stack[n]
    BY <1>1, TopTyped
  <1>3. Len(p) = n /\ \A i \in 1 .. n : p[i] = stack[i].node
    BY <1>1, <1>2, PathTyped
  <1>4. Ahead(n, p)
    <2>1. ~stack[n].open \/ ~stack[n].went
      BY <1>2 DEF CutDeep, Entering
    <2> QED
      BY <1>3, <2>1 DEF Ahead
  <1>5. Awaited(p)
    BY <1>2, <1>4 DEF Awaited
  <1>6. p \notin Results
    BY <1>5 DEF OnceInv
  <1>7. ASSUME NEW i \in 1 .. Len(stack'), Ahead(i, p)'
        PROVE  FALSE
    <2>1. Len(stack') = n - 1
      BY <1>1, <1>2, LeaveTop
    <2>2. i \in 1 .. Len(stack) - 1 /\ i < Len(p) /\ Len(p) \in Nat
          /\ i + 1 \in 1 .. n
      BY <1>2, <1>3, <2>1
    <2>3. p[i + 1] = stack[i + 1].node
      BY <1>3, <2>2
    <2> QED
      BY <1>1, <1>7, <2>2, <2>3, GoneBelow
  <1>8. ~Awaited(p)'
    BY <1>7 DEF Awaited
  <1> QED
    BY <1>6, <1>8

LEMMA StopOnce ==
    ASSUME OnceInv, Mode # "nodes", Simple, Stop, NEW p \in Seq(Node),
           p = Append(Trail, Neighbor)
    PROVE  p \notin Results /\ ~Awaited(p)'
  <1>1. Next /\ stack # <<>> /\ TypeOK /\ stack \in Seq(FrameType) /\ Looking
    BY DEF Next, Stop, Looking, OnceInv, FoundInv, PathInv, TypeOK
  <1>2. PICK n \in Nat \ {0} : n = Len(stack) /\ Top = stack[n]
    BY <1>1, TopTyped
  <1>3. /\ Trail \in Seq(Node) /\ Len(Trail) = n
        /\ \A i \in 1 .. n : Trail[i] = stack[i].node
    BY <1>1, <1>2, PathTyped
  <1>4. /\ Len(p) = n + 1 /\ p[n + 1] = Neighbor
        /\ \A i \in 1 .. n : p[i] = stack[i].node
    BY <1>1, <1>3, NeighborTyped, AppendTyped
  <1>5. PICK r \in Seq(Node) : r = stack[n].rest
    BY <1>1, <1>2, TopTyped
  <1>6. r # <<>> /\ Neighbor = r[1] /\ 1 \in 1 .. Len(r)
    BY <1>1, <1>2, <1>5, NeighborTyped DEF Looking
  <1>7. Ahead(n, p)
    BY <1>2, <1>4, <1>5, <1>6 DEF Ahead
  <1>8. Awaited(p)
    BY <1>2, <1>7 DEF Awaited
  <1>9. p \notin Results
    BY <1>8 DEF OnceInv
  <1>10. /\ Len(stack') = n /\ stack'[n].open /\ stack'[n].rest = Tail(r)
    BY <1>1, <1>2, <1>5, LookTop DEF Stop
  <1>11. ASSUME NEW i \in 1 .. Len(stack'), Ahead(i, p)'
         PROVE  FALSE
    <2>1. CASE i \in 1 .. n - 1
      <3>1. i \in 1 .. Len(stack) - 1 /\ i < Len(p) /\ Len(p) \in Nat
            /\ i + 1 \in 1 .. n
        BY <1>2, <1>4, <2>1
      <3>2. p[i + 1] = stack[i + 1].node
        BY <1>4, <3>1
      <3> QED
        BY <1>1, <1>11, <3>1, <3>2, GoneBelow
    <2>2. CASE i = n
      <3>4. Ahead(n, p)' /\ n # Len(p)
        BY <1>2, <1>4, <1>11, <2>2
      <3>1. \E k \in 1 .. Len(Tail(r)) : Tail(r)[k] = Neighbor
        BY <1>4, <1>10, <3>4 DEF Ahead
      <3>2. Distinct(r)
        BY <1>2, <1>5 DEF OnceInv
      <3>3. \A k \in 1 .. Len(Tail(r)) : Tail(r)[k] # r[1]
        BY <1>6, <3>2, TailDistinct
      <3> QED
        BY <1>6, <3>1, <3>3
    <2> QED
      BY <1>2, <1>10, <2>1, <2>2
  <1>12. ~Awaited(p)'
    BY <1>11 DEF Awaited
  <1> QED
    BY <1>9, <1>12

LEMMA OnceNext == OnceInv /\ [Next]_walk => OnceInv'
  <1> SUFFICES ASSUME OnceInv, [Next]_walk PROVE OnceInv'
    OBVIOUS
  <1>1. FoundInv' /\ FoundInv /\ TypeOK /\ q' = q /\ Mode' = Mode /\ (Simple' <=> Simple)
    BY FoundNext, QueryKept DEF OnceInv, FoundInv, PathInv, Simple
  <1>2. CASE UNCHANGED walk
    <2>1. /\ \A p : Awaited(p)' <=> Awaited(p)
          /\ Results' = Results /\ stack' = stack /\ out' = out
      BY <1>2 DEF walk, Results, Awaited, Ahead
    <2> QED
      BY <1>1, <2>1 DEF OnceInv, GoneOnce, Distinct
  <1> SUFFICES ASSUME Next, Mode # "nodes", Simple PROVE OnceInv'
    BY <1>1, <1>2 DEF OnceInv
  <1>3. /\ stack # <<>> /\ stack \in Seq(FrameType) /\ out \in Seq(Seq(Node))
        /\ Trail \in Seq(Node) /\ \A i \in 1 .. Len(stack) : Distinct(stack[i].rest)
    BY <1>1, BelowKept, PathTyped DEF TypeOK, OnceInv
  <1>4. GoneOnce' /\ \A i \in 1 .. Len(stack') : Distinct(stack'[i].rest)
    BY <1>1, <1>3, RestsOnce, GoneKept DEF OnceInv
  <1>5. \/ out' = out
        \/ \E p \in Seq(Node) :
              out' = Append(out, p) /\ p \notin Results /\ ~Awaited(p)'
    <2>1. CASE CutDeep
      <3>1. PICK p \in Seq(Node) : p = Trail
        BY <1>3
      <3>2. p \notin Results /\ ~Awaited(p)'
        BY <2>1, <3>1, PathOnce
      <3> QED
        BY <2>1, <3>1, <3>2 DEF CutDeep
    <2>2. CASE Return
      <3>1. CASE Top.went
        BY <2>2, <3>1 DEF Return
      <3>2. CASE ~Top.went
        <4>1. PICK p \in Seq(Node) : p = Trail
          BY <1>3
        <4>2. p \notin Results /\ ~Awaited(p)'
          BY <2>2, <3>2, <4>1, PathOnce
        <4> QED
          BY <2>2, <4>1, <4>2 DEF Return
      <3> QED
        BY <3>1, <3>2
    <2>3. CASE Stop
      <3>1. PICK p \in Seq(Node) : p = Append(Trail, Neighbor)
        <4>1. Neighbor \in Node
          BY <1>3, <2>3, NeighborTyped DEF Stop
        <4> QED
          BY <1>3, <4>1, AppendTyped
      <3>2. p \notin Results /\ ~Awaited(p)'
        BY <2>3, <3>1, StopOnce
      <3> QED
        BY <2>3, <3>1, <3>2 DEF Stop
    <2>4. CASE CutFull \/ Open \/ Skip \/ Go
      BY <2>4 DEF CutFull, Open, Skip, Go
    <2> QED
      BY <2>1, <2>2, <2>3, <2>4 DEF Next
  <1>6. ASSUME NEW p \in Results PROVE ~Awaited(p)'
    <2>1. ~Awaited(p)
      BY <1>6 DEF OnceInv
    <2>2. p \in Seq(Node) /\ Len(p) \in Nat
      BY <1>3, <1>6 DEF Results
    <2> QED
      BY <1>1, <2>1, <2>2, AwaitedWas
  <1>7. Distinct(out') /\ \A p \in Results' : ~Awaited(p)'
    <2>1. CASE out' = out
      <3>1. Results' = Results
        BY <2>1 DEF Results
      <3> QED
        BY <1>6, <2>1, <3>1 DEF OnceInv
    <2>2. ASSUME NEW p \in Seq(Node), out' = Append(out, p), p \notin Results, ~Awaited(p)'
          PROVE  Distinct(out') /\ \A r \in Results' : ~Awaited(r)'
      <3>1. Results' = Results \cup {p} /\ Distinct(out')
        BY <1>3, <2>2, OneMore DEF OnceInv
      <3> QED
        BY <1>6, <2>2, <3>1
    <2> QED
      BY <1>5, <2>1, <2>2
  <1> QED
    BY <1>1, <1>4, <1>7 DEF OnceInv

-----------------------------------------------------------------------------
(* max_paths bounds a search for all paths without `until`: only a call     *)
(* that opened below the limit, and has gone nowhere, will add a path.      *)

Limited == Mode = "paths" /\ q.until = {} /\ q.limit # NoLimit

LimitInv ==
    /\ PathInv
    /\ Limited => Len(out) <= q.limit
    /\ Limited /\ stack # <<>> => (Top.open /\ ~Top.went => Len(out) < q.limit)

LEMMA LimitInit == Begun => LimitInv
  <1> SUFFICES ASSUME Begun PROVE LimitInv
    OBVIOUS
  <1>1. PathInv /\ Len(out) = 0 /\ ~Top.open
    BY PathInit DEF Begun, Top, Frame
  <1>2. q.limit \in Limit
    BY <1>1 DEF PathInv, TypeOK, QueryType
  <1> QED
    BY <1>1, <1>2 DEF LimitInv, Limited, Limit

LEMMA LimitNext == LimitInv /\ [Next]_walk => LimitInv'
  <1> SUFFICES ASSUME LimitInv, [Next]_walk PROVE LimitInv'
    OBVIOUS
  <1>1. /\ PathInv /\ PathInv' /\ TypeOK /\ TypeOK' /\ q' = q /\ Mode' = Mode
        /\ (Limited' <=> Limited)
    BY PathNext, QueryKept DEF LimitInv, PathInv, Limited
  <1>2. CASE UNCHANGED walk
    BY <1>1, <1>2 DEF LimitInv, walk, Top
  <1> SUFFICES ASSUME Next, Limited
               PROVE  /\ Len(out') <= q.limit
                      /\ stack' # <<>> => (Top'.open /\ ~Top'.went => Len(out') < q.limit)
    BY <1>1, <1>2 DEF LimitInv
  <1>3. /\ q.limit \in Nat /\ out \in Seq(Seq(Node)) /\ Len(out) \in Nat
        /\ Len(out) <= q.limit
        /\ stack # <<>> /\ stack \in Seq(FrameType) /\ stack' \in Seq(FrameType)
        /\ Trail \in Seq(Node)
    <2>1. stack # <<>> /\ stack \in Seq(FrameType) /\ Trail \in Seq(Node)
      BY <1>1, BelowKept, PathTyped DEF TypeOK
    <2>2. stack' \in Seq(FrameType)
      BY <1>1 DEF TypeOK
    <2>3. q.limit \in Nat
      BY <1>1 DEF Limited, TypeOK, QueryType, Limit
    <2>4. out \in Seq(Seq(Node)) /\ Len(out) \in Nat
      BY <1>1 DEF Limited, TypeOK
    <2>5. Len(out) <= q.limit
      BY DEF LimitInv
    <2> QED
      BY <2>1, <2>2, <2>3, <2>4, <2>5
  <1>4. PICK n \in Nat \ {0} : n = Len(stack) /\ Top = stack[n]
    BY <1>3, TopTyped
  <1>5. Top' = stack'[Len(stack')]
    BY DEF Top
  <1>6. ~Full => Len(out) < q.limit
    BY <1>3 DEF Full, Limited
  <1>7. \A p \in Seq(Node) : Len(Append(out, p)) = Len(out) + 1
    BY <1>3
  <1>8. ASSUME Leave, stack' # <<>> PROVE Top'.went
    <2>1. Len(stack') = n - 1 /\ \A i \in 1 .. n - 1 : stack'[i] = stack[i]
      BY <1>1, <1>3, <1>4, <1>8, LeaveTop
    <2>2. n - 1 \in 1 .. n - 1
      BY <1>3, <1>4, <1>8, <2>1
    <2>3. FramesOpen
      BY <1>1, <1>3 DEF PathInv, Limited
    <2>4. stack[n - 1].went
      BY <1>4, <2>2, <2>3 DEF FramesOpen
    <2> QED
      BY <1>5, <2>1, <2>2, <2>4
  <1>9. CASE CutFull
    BY <1>3, <1>8, <1>9 DEF CutFull
  <1>10. CASE CutDeep
    <2>1. Len(out) < q.limit /\ Leave
      BY <1>6, <1>10 DEF CutDeep
    <2>2. Len(out') <= Len(out) + 1 /\ Len(out') \in Nat
      BY <1>3, <1>7, <1>10 DEF CutDeep
    <2> QED
      BY <1>3, <1>8, <2>1, <2>2
  <1>11. CASE Open
    BY <1>3, <1>6, <1>11 DEF Open
  <1>12. CASE Skip
    <2>1. /\ Len(stack') = n /\ stack'[n].went = (stack[n].went \/ FALSE)
          /\ Looking /\ out' = out
      BY <1>1, <1>4, <1>12, LookTop DEF Skip
    <2>2. Top.open /\ (~Top'.went => ~Top.went)
      BY <1>4, <1>5, <2>1 DEF Looking
    <2> QED
      BY <1>3, <2>1, <2>2 DEF LimitInv
  <1>13. CASE Stop
    BY <1>13 DEF Stop, Stops, Limited
  <1>14. CASE Go
    <2>1. Len(stack') = n + 1 /\ stack'[n + 1] = Frame(Neighbor)
      BY <1>1, <1>4, <1>14, GoTop
    <2>2. ~Top'.open
      BY <1>5, <2>1 DEF Frame
    <2>3. out' = out
      BY <1>14 DEF Go, Limited
    <2> QED
      BY <1>3, <2>2, <2>3
  <1>15. CASE Return
    <2>1. CASE out' = out
      BY <1>3, <1>8, <1>15, <2>1 DEF Return
    <2>2. CASE out' # out
      <3>1. ~Top.went /\ Top.open /\ out' = Append(out, Trail)
        BY <1>15, <2>2 DEF Return
      <3>2. Len(out) < q.limit /\ Len(out') = Len(out) + 1
        BY <1>3, <1>7, <3>1 DEF LimitInv
      <3> QED
        BY <1>3, <1>8, <1>15, <3>2 DEF Return
    <2> QED
      BY <2>1, <2>2
  <1> QED
    BY <1>9, <1>10, <1>11, <1>12, <1>13, <1>14, <1>15 DEF Next

-----------------------------------------------------------------------------
(* The answer. *)

\* A simple path has no more nodes than the graph.
LEMMA PathsShort ==
    ASSUME NEW p \in Seq(Node), Distinct(p)
    PROVE  Len(p) <= Cardinality(Node)
  <1>1. Len(p) \in Nat /\ p \in [1 .. Len(p) -> Node]
    OBVIOUS
  <1>2. p \in Injection(1 .. Len(p), Node)
    BY <1>1 DEF Injection, IsInjective, Distinct
  <1>3. Cardinality(1 .. Len(p)) <= Cardinality(Node)
    BY <1>2, FS_Injection, TraversalAssumption
  <1>4. Cardinality(1 .. Len(p)) = Len(p)
    BY <1>1, FS_Interval
  <1> QED
    BY <1>3, <1>4

\* A search that is done, and was not cut by max_paths, found just the paths sought.
LEMMA DoneFound ==
    ASSUME FoundInv, Mode # "nodes", Done, q.limit = NoLimit \/ Len(out) < q.limit
    PROVE  Results = Answer
  <1>1. TypeOK /\ PathsSound /\ Len(stack) = 0 /\ out \in Seq(Seq(Node))
    BY DEF FoundInv, PathInv, TypeOK, Done
  <1>2. q.limit \in Limit /\ Len(out) \in Nat
    BY <1>1 DEF TypeOK, QueryType
  <1>3. ~Full
    BY <1>2 DEF Full, Limit
  <1>4. \A p : ~Awaited(p)
    BY <1>1 DEF Awaited
  <1>5. ASSUME NEW p \in Seq(Node), Len(p) >= 2, Sought(p) PROVE p \in Results
    BY <1>3, <1>4, <1>5 DEF FoundInv
  <1>6. ASSUME NEW p \in Results
        PROVE  p \in Seq(Node) /\ Sought(p) /\ Len(p) \in 2 .. Cardinality(Node)
    <2>1. p \in Seq(Node) /\ Len(p) >= 2 /\ Sought(p)
      BY <1>1, <1>6 DEF Results, FoundInv, PathsSound
    <2>2. Len(p) <= Cardinality(Node) /\ Cardinality(Node) \in Nat
      BY <2>1, PathsShort, FS_CardinalityType, TraversalAssumption
         DEF Sought, Walkable
    <2> QED
      BY <2>1, <2>2
  <1>7. Cardinality(Node) \in Nat
    BY FS_CardinalityType, TraversalAssumption
  <1>8. \A p : p \in Answer <=>
           (\E k \in 2 .. Cardinality(Node) : p \in [1 .. k -> Node]) /\ Sought(p)
    BY DEF Answer
  <1>9. ASSUME NEW p \in Answer PROVE p \in Results
    <2>1. PICK k \in 2 .. Cardinality(Node) : p \in [1 .. k -> Node]
      BY <1>8, <1>9
    <2>2. k \in Nat /\ k >= 2
      BY <1>7, <2>1
    <2>3. p \in Seq(Node) /\ Len(p) = k
      BY <2>1, <2>2
    <2> QED
      BY <1>5, <1>8, <1>9, <2>2, <2>3
  <1>10. ASSUME NEW p \in Results PROVE p \in Answer
    <2>1. p \in Seq(Node) /\ Sought(p) /\ Len(p) \in 2 .. Cardinality(Node)
      BY <1>6, <1>10
    <2>2. p \in [1 .. Len(p) -> Node]
      BY <2>1
    <2> QED
      BY <1>8, <2>1, <2>2
  <1> QED
    BY <1>9, <1>10

\* A search for paths that max_paths did not cut returns every path the query asks for,
\* on every graph; without parallel edges none of them twice, and a search for all
\* paths without `until` returns max_paths at most.
THEOREM WalkPathsComplete == Spec => []PathsComplete
  <1>1. OnceInv /\ LimitInv => PathsComplete
    BY DoneFound DEF OnceInv, LimitInv, Limited, PathsComplete
  <1>2. Spec => []OnceInv
    BY InitBegins, OnceInit, OnceNext, PTL DEF Spec
  <1>3. Spec => []LimitInv
    BY InitBegins, LimitInit, LimitNext, PTL DEF Spec
  <1> QED
    BY <1>1, <1>2, <1>3, PTL

=============================================================================
