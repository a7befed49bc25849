------------------------- MODULE ElementEventsProofs -------------------------
(* Proofs about ElementEvents, for any elements, handlers, resources and    *)
(* bounds on the depth of nested scripts.                                   *)
EXTENDS ElementEvents, SequenceTheorems, TLAPS

-----------------------------------------------------------------------------
(* What the suspended calls rely on, said of any stack s and any state w of *)
(* the elements, handlers and resources, so that the lemmas below are about *)
(* values and hold of the next state as well.                               *)

World == [alive |-> alive, group |-> group, on |-> on, owner |-> owner, open |-> open]

\* What a call has in its hands.
Alone(f, w) ==
    /\ {f.at, f.source} \subseteq w.alive \cup {Root}
    /\ f.left \subseteq w.alive
    /\ f.kind \in {"unlink", "destroy"} => f.at \in Elements
    /\ f.kind # "call" => f.todo = {}
    /\ \A h \in f.todo : w.on[h] = f.at
    /\ f.kind = "run" => /\ f.handler \in Handlers
                         /\ w.on[f.handler] = f.at /\ w.owner[f.handler] \in w.open
    /\ f.kind \in {"start", "stop", "abort"} => f.vm \in VMs
    /\ f.kind \in {"start", "stop"} => f.vm \in w.open

\* A resource starts with no elements and no scripts: f is below its frame g.
Over(f, g, w) ==
    /\ g.kind \in {"start", "stop", "abort"} /\ f.at \in Elements => w.group[f.at] # g.vm
    /\ g.kind \in {"start", "stop"} =>
          /\ f.kind = "run" => w.owner[f.handler] # g.vm
          /\ f.kind \in {"start", "stop"} => f.vm # g.vm

CallsIn(s) == {s[i].at : i \in {j \in 1..Len(s) : s[j].kind = "call"}}

\* A handler runs in the Call of its element; nested is set in all the calls
\* at an element but the outermost.
Follows(s, i) ==
    /\ s[i].kind = "run" => i > 1 /\ s[i-1].kind = "call" /\ s[i-1].at = s[i].at
    /\ s[i].kind = "call" =>
          (s[i].nested <=> \E j \in 1..(i-1) : s[j].kind = "call" /\ s[j].at = s[i].at)

Sound(s, w) ==
    \A i \in 1..Len(s) : /\ Alone(s[i], w) /\ Follows(s, i)
                         /\ \A j \in 1..(i-1) : Over(s[j], s[i], w)

\* f may be pushed on s.
Joins(s, f, w) ==
    /\ Alone(f, w)
    /\ f.kind = "run" => s # <<>> /\ s[Len(s)].kind = "call" /\ s[Len(s)].at = f.at
    /\ f.kind = "call" => (f.nested <=> f.at \in CallsIn(s))
    /\ \A j \in 1..Len(s) : Over(s[j], f, w)

Below(s) == SubSeq(s, 1, Len(s) - 1)

\* What pushing a frame does.
LEMMA Pushed ==
    ASSUME NEW s \in Seq(Frames), NEW f \in Frames
    PROVE  /\ Append(s, f) \in Seq(Frames)
           /\ Append(s, f) # <<>>
           /\ Len(Append(s, f)) = Len(s) + 1
           /\ Append(s, f)[Len(s) + 1] = f
           /\ \A i \in 1..Len(s) : Append(s, f)[i] = s[i]
BY AppendProperties

\* What returning does.
LEMMA Popped ==
    ASSUME NEW s \in Seq(Frames), s # <<>>
    PROVE  /\ Len(s) \in Nat \ {0}
           /\ s[Len(s)] \in Frames
           /\ Below(s) \in Seq(Frames)
           /\ Len(Below(s)) = Len(s) - 1
           /\ \A i \in 1..(Len(s) - 1) : Below(s)[i] = s[i]
<1>1. Len(s) \in Nat \ {0} /\ s \in [1..Len(s) -> Frames]
  BY EmptySeq, LenProperties
<1>2. /\ Below(s) \in Seq(Frames)
      /\ Len(Below(s)) = Len(s) - 1
      /\ \A i \in 1..(Len(s) - 1) : Below(s)[i] = s[i]
  BY <1>1, SubSeqProperties DEF Below
<1> QED BY <1>1, <1>2

LEMMA SoundPushed ==
    ASSUME NEW s \in Seq(Frames), NEW f \in Frames, NEW w,
           Sound(s, w), Joins(s, f, w)
    PROVE  Sound(Append(s, f), w)
<1> DEFINE t == Append(s, f)
           n == Len(s)
<1>1. /\ n \in Nat /\ Len(t) = n + 1 /\ t[n + 1] = f
      /\ \A i \in 1..n : t[i] = s[i]
  BY Pushed, LenProperties
<1>2. ASSUME NEW i \in 1..n
      PROVE  /\ Alone(t[i], w) /\ Follows(t, i)
             /\ \A j \in 1..(i-1) : Over(t[j], t[i], w)
  <2>1. i \in Nat /\ t[i] = s[i] /\ \A j \in 1..(i-1) : j \in 1..n /\ t[j] = s[j]
    BY <1>1, <1>2
  <2>2. /\ Alone(s[i], w) /\ Follows(s, i)
        /\ \A j \in 1..(i-1) : Over(s[j], s[i], w)
    BY <1>2 DEF Sound
  <2>3. Follows(t, i)
    <3>1. i > 1 => i - 1 \in 1..(i - 1)
      BY <2>1
    <3> HIDE DEF t
    <3> QED BY <2>1, <2>2, <3>1 DEF Follows
  <2> QED BY <2>1, <2>2, <2>3
<1>3. /\ Alone(t[n + 1], w) /\ Follows(t, n + 1)
      /\ \A j \in 1..n : Over(t[j], t[n + 1], w)
  <2>1. Alone(t[n + 1], w) /\ \A j \in 1..n : Over(t[j], t[n + 1], w)
    BY <1>1 DEF Joins
  <2>2. f.kind = "run" => n + 1 > 1 /\ t[n].kind = "call" /\ t[n].at = f.at
    <3>1. s # <<>> => n \in 1..n
      BY <1>1, EmptySeq
    <3> QED BY <1>1, <3>1 DEF Joins
  <2>3. f.kind = "call" => (f.nested <=> \E j \in 1..n : t[j].kind = "call" /\ t[j].at = f.at)
    BY <1>1 DEF Joins, CallsIn
  <2>4. n + 1 - 1 = n
    BY <1>1
  <2>5. Follows(t, n + 1)
    <3> HIDE DEF t, n
    <3> QED BY <1>1, <2>2, <2>3, <2>4 DEF Follows
  <2> QED BY <2>1, <2>5
<1>4. \A i \in 1..Len(t) : i \in 1..n \/ (i = n + 1 /\ i - 1 = n)
  BY <1>1
<1> HIDE DEF t, n
<1> QED BY <1>2, <1>3, <1>4 DEF Sound, t

LEMMA SoundPopped ==
    ASSUME NEW s \in Seq(Frames), NEW w, Sound(s, w), s # <<>>
    PROVE  Sound(Below(s), w)
<1> DEFINE t == Below(s)
           n == Len(s) - 1
<1>1. /\ n \in Nat /\ Len(t) = n /\ Len(s) = n + 1
      /\ \A i \in 1..n : t[i] = s[i] /\ i \in 1..Len(s)
  BY Popped
<1>2. ASSUME NEW i \in 1..n
      PROVE  /\ Alone(t[i], w) /\ Follows(t, i)
             /\ \A j \in 1..(i-1) : Over(t[j], t[i], w)
  <2>1. i \in Nat /\ t[i] = s[i] /\ \A j \in 1..(i-1) : j \in 1..n /\ t[j] = s[j]
    BY <1>1, <1>2
  <2>2. /\ Alone(s[i], w) /\ Follows(s, i)
        /\ \A j \in 1..(i-1) : Over(s[j], s[i], w)
    BY <1>1, <1>2 DEF Sound
  <2>3. i > 1 => i - 1 \in 1..(i - 1)
    BY <2>1
  <2> HIDE DEF t
  <2> QED BY <2>1, <2>2, <2>3 DEF Follows
<1> HIDE DEF t, n
<1> QED BY <1>1, <1>2 DEF Sound, t

\* A change of the world that leaves the suspended calls what they rely on.
Keeps(s, w, v) ==
    /\ w.alive \subseteq v.alive
    /\ \A i \in 1..Len(s) :
          LET f == s[i]
          IN  /\ f.kind = "call" => \A h \in f.todo : v.on[h] = w.on[h]
              /\ f.kind = "run" => /\ v.on[f.handler] = w.on[f.handler]
                                   /\ v.owner[f.handler] = w.owner[f.handler]
                                   /\ w.owner[f.handler] \in v.open
              /\ f.kind \in {"start", "stop"} => f.vm \in v.open
              /\ f.kind \in {"start", "stop", "abort"} =>
                    \A j \in 1..(i-1) : s[j].at \in Elements /\ v.group[s[j].at] = f.vm
                                           => w.group[s[j].at] = f.vm

LEMMA SoundKept ==
    ASSUME NEW s \in Seq(Frames), NEW w, NEW v, Sound(s, w), Keeps(s, w, v)
    PROVE  Sound(s, v)
<1>1. ASSUME NEW i \in 1..Len(s)
      PROVE  Alone(s[i], v)
  BY <1>1 DEF Sound, Keeps, Alone
<1>2. ASSUME NEW i \in 1..Len(s), NEW j \in 1..(i-1)
      PROVE  Over(s[j], s[i], v)
  <2>1. Over(s[j], s[i], w) /\ j \in 1..Len(s)
    BY <1>2, LenProperties DEF Sound
  <2> QED BY <1>2, <2>1 DEF Keeps, Over
<1> QED BY <1>1, <1>2 DEF Sound

\* The elements at which a Call is suspended.
LEMMA CallsPushed ==
    ASSUME NEW s \in Seq(Frames), NEW f \in Frames
    PROVE  CallsIn(Append(s, f)) = IF f.kind = "call" THEN CallsIn(s) \cup {f.at} ELSE CallsIn(s)
<1> DEFINE t == Append(s, f)
           n == Len(s)
<1>1. /\ n \in Nat /\ Len(t) = n + 1 /\ t[n + 1] = f
      /\ \A i \in 1..n : t[i] = s[i]
  BY Pushed, LenProperties
<1>2. \A i : i \in 1..Len(t) <=> (i \in 1..n \/ i = n + 1)
  BY <1>1
<1> HIDE DEF t, n
<1>3. CallsIn(t) = {s[i].at : i \in {j \in 1..n : s[j].kind = "call"}} \cup
                   (IF f.kind = "call" THEN {f.at} ELSE {})
  BY <1>1, <1>2 DEF CallsIn
<1> QED BY <1>3 DEF CallsIn, t, n

LEMMA CallsPopped ==
    ASSUME NEW s \in Seq(Frames), NEW w, Sound(s, w), s # <<>>
    PROVE  LET f == s[Len(s)]
           IN  CallsIn(Below(s)) = IF f.kind = "call" /\ ~f.nested THEN CallsIn(s) \ {f.at}
                                   ELSE CallsIn(s)
<1> DEFINE t == Below(s)
           n == Len(s) - 1
           f == s[Len(s)]
<1>1. /\ n \in Nat /\ Len(t) = n /\ Len(s) = n + 1 /\ f = s[n + 1]
      /\ \A i \in 1..n : t[i] = s[i]
  BY Popped
<1>2. \A i : i \in 1..Len(s) <=> (i \in 1..n \/ i = n + 1)
  BY <1>1
<1>3. f.kind = "call" => (f.nested <=> \E j \in 1..n : s[j].kind = "call" /\ s[j].at = f.at)
  <2>1. Follows(s, n + 1) /\ n + 1 - 1 = n
    BY <1>1, <1>2 DEF Sound
  <2> QED BY <1>1, <2>1 DEF Follows
<1> HIDE DEF t, n, f
<1>4. CallsIn(t) = {s[i].at : i \in {j \in 1..n : s[j].kind = "call"}}
  BY <1>1 DEF CallsIn
<1>5. CallsIn(s) = CallsIn(t) \cup (IF f.kind = "call" THEN {f.at} ELSE {})
  BY <1>1, <1>2, <1>4 DEF CallsIn
<1>6. f.kind = "call" => (f.nested <=> f.at \in CallsIn(t))
  BY <1>3, <1>4
<1> QED BY <1>5, <1>6 DEF t, f

\* The resources whose start was aborted.
AbortsIn(s) == {s[i].vm : i \in {j \in 1..Len(s) : s[j].kind = "abort"}}

LEMMA AbortsPushed ==
    ASSUME NEW S, NEW s \in Seq(S), NEW f
    PROVE  /\ Append(s, f) \in Seq(S \cup {f})
           /\ AbortsIn(s) \subseteq AbortsIn(Append(s, f))
           /\ f.kind = "abort" => f.vm \in AbortsIn(Append(s, f))
<1> DEFINE t == Append(s, f)
           n == Len(s)
<1>1. s \in Seq(S \cup {f}) /\ n \in Nat
  BY SeqDef, LenProperties
<1>2. /\ t \in Seq(S \cup {f}) /\ Len(t) = n + 1 /\ t[n + 1] = f
      /\ \A i \in 1..n : t[i] = s[i]
  BY <1>1, AppendProperties
<1>3. \A i : i \in 1..Len(t) <=> (i \in 1..n \/ i = n + 1)
  BY <1>1, <1>2
<1> HIDE DEF t, n
<1> QED BY <1>2, <1>3 DEF AbortsIn, t, n

LEMMA AbortsPopped ==
    ASSUME NEW s \in Seq(Frames), s # <<>>
    PROVE  LET f == s[Len(s)]
           IN  \A v \in AbortsIn(s) : v \in AbortsIn(Below(s)) \/ (f.kind = "abort" /\ v = f.vm)
<1> DEFINE t == Below(s)
           n == Len(s) - 1
<1>1. /\ n \in Nat /\ Len(t) = n /\ Len(s) = n + 1
      /\ \A i \in 1..n : t[i] = s[i]
  BY Popped
<1>2. \A i : i \in 1..Len(s) <=> (i \in 1..n \/ i = n + 1)
  BY <1>1
<1> HIDE DEF t, n
<1> QED BY <1>1, <1>2 DEF AbortsIn, t

-----------------------------------------------------------------------------
(* Stacks that are as they should be, with the flags m_bIteratingList, and  *)
(* what the actions do to them.                                             *)

Fine(s, w, flagged) == s \in Seq(Frames) /\ Sound(s, w) /\ flagged = CallsIn(s)

LEMMA FrameTypes ==
    /\ \A k \in Kinds, e, source \in Nodes : At(k, e, source) \in Frames
    /\ \A e \in Nodes, left \in SUBSET Elements : Down(e, left) \in Frames
    /\ \A e \in Nodes, hs \in SUBSET Handlers, n \in BOOLEAN : CallOf(e, hs, n) \in Frames
    /\ \A e \in Nodes, h \in Handlers : Run(e, h) \in Frames
    /\ \A k \in Kinds, v \in VMs : Resource(k, v) \in Frames
<1>1. \A k \in Kinds, e, source \in Nodes : At(k, e, source) \in Frames
  BY DEF At, Frames
<1>2. \A e \in Nodes : At("down", e, e) \in Frames /\ At("call", e, e) \in Frames /\ At("run", e, e) \in Frames
  BY <1>1 DEF Kinds
<1>3. \A k \in Kinds : At(k, Root, Root) \in Frames
  BY <1>1 DEF Nodes
<1>4. \A e \in Nodes, left \in SUBSET Elements : Down(e, left) \in Frames
  BY <1>2 DEF Down, Frames
<1>5. \A e \in Nodes, hs \in SUBSET Handlers, n \in BOOLEAN : CallOf(e, hs, n) \in Frames
  <2> SUFFICES ASSUME NEW e \in Nodes, NEW hs \in SUBSET Handlers, NEW n \in BOOLEAN
               PROVE  CallOf(e, hs, n) \in Frames
    OBVIOUS
  <2>1. "call" \in Kinds /\ {} \in SUBSET Elements
    BY DEF Kinds
  <2> QED BY <2>1 DEF CallOf, Frames
<1>6. \A e \in Nodes, h \in Handlers : Run(e, h) \in Frames
  BY <1>2 DEF Run, Frames
<1>7. \A k \in Kinds, v \in VMs : Resource(k, v) \in Frames
  BY <1>3 DEF Resource, Frames
<1> QED BY <1>1, <1>4, <1>5, <1>6, <1>7

\* A frame without handlers of its own goes on top.
LEMMA FinePushed ==
    ASSUME NEW s, NEW w, NEW flagged, Fine(s, w, flagged),
           NEW f \in Frames, f.kind # "call", Joins(s, f, w)
    PROVE  Fine(Append(s, f), w, flagged)
BY SoundPushed, Pushed, CallsPushed DEF Fine

LEMMA FinePopped ==
    ASSUME NEW s, NEW w, NEW flagged, Fine(s, w, flagged), s # <<>>, s[Len(s)].kind # "call"
    PROVE  Fine(Below(s), w, flagged)
BY SoundPopped, Popped, CallsPopped DEF Fine

LEMMA FineKept ==
    ASSUME NEW s, NEW w, NEW v, NEW flagged, Fine(s, w, flagged), Keeps(s, w, v)
    PROVE  Fine(s, v, flagged)
BY SoundKept DEF Fine

\* An event comes to an element: see Visit.
Plain == Kinds \ {"call", "run", "start", "stop", "abort"}

LEMMA FineVisit ==
    ASSUME NEW s, NEW w, NEW flagged, Fine(s, w, flagged),
           NEW f \in Frames, f.kind \in Plain, Alone(f, w),
           NEW hs \in SUBSET Handlers, \A h \in hs : w.on[h] = f.at
    PROVE  /\ Fine(Append(s, f), w, flagged)
           /\ hs # {} => Fine(Append(Append(s, f), CallOf(f.at, hs, f.at \in flagged)), w,
                              flagged \cup {f.at})
<1>1. Joins(s, f, w)
  BY DEF Joins, Over, Plain
<1>2. Fine(Append(s, f), w, flagged)
  BY <1>1, FinePushed DEF Plain
<1>3. ASSUME hs # {}
      PROVE  Fine(Append(Append(s, f), CallOf(f.at, hs, f.at \in flagged)), w,
                  flagged \cup {f.at})
  <2> DEFINE t == Append(s, f)
             c == CallOf(f.at, hs, f.at \in flagged)
  <2>1. f.at \in Nodes /\ f.at \in w.alive \cup {Root}
    BY DEF Frames, Alone
  <2>2. c \in Frames
    <3>1. (f.at \in flagged) \in BOOLEAN
      OBVIOUS
    <3> QED BY <2>1, <3>1, FrameTypes
  <2>3. /\ c.kind = "call" /\ c.at = f.at /\ c.source = f.at /\ c.todo = hs
        /\ c.left = {} /\ c.nested = (f.at \in flagged)
    BY DEF CallOf
  <2> HIDE DEF t, c
  <2>4. Alone(c, w)
    BY <2>1, <2>3 DEF Alone
  <2>5. t \in Seq(Frames) /\ Sound(t, w) /\ flagged = CallsIn(t)
    BY <1>2 DEF Fine, t
  <2>6. Joins(t, c, w)
    BY <2>3, <2>4, <2>5 DEF Joins, Over
  <2>7. Sound(Append(t, c), w) /\ Append(t, c) \in Seq(Frames)
    BY <2>2, <2>5, <2>6, SoundPushed, Pushed
  <2>8. CallsIn(Append(t, c)) = flagged \cup {f.at}
    BY <2>2, <2>3, <2>5, CallsPushed
  <2> QED BY <2>7, <2>8 DEF Fine, t, c
<1> QED BY <1>2, <1>3

-----------------------------------------------------------------------------
(* The invariant.                                                           *)

\* Only in lists that are being called are there handlers that were removed.
TrashInUse == \A h \in trash : on[h] \in iterating

\* A handler that can be called is on an element that exists, and its VM does.
BoundOpen == /\ \A h \in Handlers : on[h] \in alive \cup {Root, NoElement}
             /\ \A h \in Handlers \ trash : on[h] # NoElement => owner[h] \in open

\* A handler is on an element exactly while it has a VM.
Blank == \A h \in Handlers : on[h] = NoElement <=> owner[h] = NoVM

\* Only a resource that runs, or whose start is being undone, has elements.
GroupsOpen == \A e \in Elements : group[e] \in VMs => /\ group[e] \in open \cup AbortsIn(stack)
                                                      /\ e \in alive

Data == /\ alive \subseteq Elements /\ doomed \subseteq alive
        /\ parent \in [Elements -> Nodes \cup {NoElement}]
        /\ group \in [Elements -> VMs \cup {NoVM}]
        /\ on \in [Handlers -> Nodes \cup {NoElement}]
        /\ owner \in [Handlers -> VMs \cup {NoVM}]
        /\ trash \subseteq Handlers /\ open \subseteq VMs

IInv == /\ Data /\ DeletedAreOut /\ AllReachRoot
        /\ Fine(stack, World, iterating)
        /\ TrashInUse /\ BoundOpen /\ GroupsOpen /\ Blank

\* The innermost call and those below it.
LEMMA TopFacts ==
    ASSUME IInv, stack # <<>>
    PROVE  /\ Top \in Frames /\ Top = stack[Len(stack)] /\ Len(stack) \in Nat \ {0}
           /\ Alone(Top, World) /\ Follows(stack, Len(stack))
           /\ \A j \in 1..(Len(stack) - 1) : Over(stack[j], Top, World)
           /\ Caller = Below(stack) /\ Caller \in Seq(Frames)
           /\ Top.at \in alive \cup {Root} /\ Top.source \in alive \cup {Root}
           /\ Top.left \subseteq alive
           /\ Top.kind # "call" => Fine(Caller, World, iterating)
           /\ Top.at \in Nodes /\ Top.source \in Nodes
<1>1. stack \in Seq(Frames) /\ Sound(stack, World)
  BY DEF IInv, Fine
<1>2. Top = stack[Len(stack)] /\ Caller = Below(stack)
  BY DEF Top, Caller, Below
<1>3. Len(stack) \in Nat \ {0} /\ Top \in Frames /\ Caller \in Seq(Frames)
  BY <1>1, <1>2, Popped
<1>4. /\ Alone(Top, World) /\ Follows(stack, Len(stack))
      /\ \A j \in 1..(Len(stack) - 1) : Over(stack[j], Top, World)
  <2>1. Len(stack) \in 1..Len(stack)
    BY <1>3
  <2> QED BY <1>1, <1>2, <2>1 DEF Sound
<1>5. Top.kind # "call" => Fine(Caller, World, iterating)
  BY <1>2, FinePopped DEF IInv
<1>6. /\ Top.at \in alive \cup {Root} /\ Top.source \in alive \cup {Root}
      /\ Top.left \subseteq alive /\ Top.at \in Nodes /\ Top.source \in Nodes
  BY <1>3, <1>4 DEF Alone, World, Frames
<1> QED BY <1>1, <1>2, <1>3, <1>4, <1>5, <1>6

\* What a suspended call relies on, and the flag that protects it.
LEMMA InUse ==
    ASSUME IInv, NEW i \in 1..Len(stack)
    PROVE  LET f == stack[i]
           IN  /\ f \in Frames /\ f.at \in Nodes \cap (alive \cup {Root})
               /\ f.kind = "call" => /\ f.at \in iterating
                                     /\ \A h \in f.todo : h \in Handlers /\ on[h] = f.at
               /\ f.kind = "run" => /\ f.at \in iterating /\ f.handler \in Handlers
                                    /\ on[f.handler] = f.at /\ owner[f.handler] \in open
               /\ f.kind \in {"start", "stop"} => f.vm \in open
<1> DEFINE f == stack[i]
<1>1. stack \in Seq(Frames) /\ Sound(stack, World) /\ iterating = CallsIn(stack)
  BY DEF IInv, Fine
<1>2. f \in Frames /\ Alone(f, World) /\ Follows(stack, i)
  BY <1>1, LenProperties DEF Sound
<1>3. f.at \in Nodes \cap (alive \cup {Root}) /\ f.todo \subseteq Handlers
  BY <1>2 DEF Alone, World, Frames
<1>4. f.kind = "call" => f.at \in iterating
  BY <1>1 DEF CallsIn
<1>5. f.kind = "run" => f.at \in iterating
  <2>1. ASSUME f.kind = "run"
        PROVE  i - 1 \in 1..Len(stack) /\ stack[i - 1].kind = "call" /\ stack[i - 1].at = f.at
    BY <1>1, <1>2, <2>1, LenProperties DEF Follows
  <2> QED BY <1>1, <2>1 DEF CallsIn
<1> HIDE DEF f
<1> QED BY <1>2, <1>3, <1>4, <1>5 DEF Alone, World, f

LEMMA FlaggedNodes == ASSUME IInv PROVE iterating \subseteq Nodes /\ NoElement \notin iterating
<1>1. \A i \in 1..Len(stack) : stack[i].at \in Nodes
  BY InUse
<1>2. iterating \subseteq Nodes
  BY <1>1 DEF IInv, Fine, CallsIn
<1> QED BY <1>2, NullAssumption DEF Nodes

\* What changes in the world while the flags protect the handlers in use.
LEMMA ChangeKept ==
    ASSUME IInv, NEW s, s = stack \/ (stack # <<>> /\ s = Caller),
           alive \subseteq alive',
           \A h \in Handlers : on[h] \in iterating => on'[h] = on[h] /\ owner'[h] = owner[h],
           \A i \in 1..Len(s) : /\ s[i].kind = "run" => owner[s[i].handler] \in open'
                                /\ s[i].kind \in {"start", "stop"} => s[i].vm \in open',
           \A e \in alive : group'[e] \in {group[e], NoVM}
    PROVE  Keeps(s, World, World')
<1>1. \A i \in 1..Len(s) : i \in 1..Len(stack) /\ s[i] = stack[i]
  <2>1. CASE s = stack
    BY <2>1
  <2>2. CASE stack # <<>> /\ s = Caller
    <3>1. stack \in Seq(Frames) /\ Caller = Below(stack)
      BY <2>2, TopFacts DEF IInv, Fine
    <3>2. Len(stack) \in Nat /\ Len(s) = Len(stack) - 1 /\ \A i \in 1..(Len(stack) - 1) : s[i] = stack[i]
      BY <2>2, <3>1, Popped
    <3> QED BY <3>2
  <2> QED BY <2>1, <2>2
<1>2. ASSUME NEW i \in 1..Len(s)
      PROVE  /\ s[i].kind = "call" => \A h \in s[i].todo : on'[h] = on[h]
             /\ s[i].kind = "run" => /\ on'[s[i].handler] = on[s[i].handler]
                                     /\ owner'[s[i].handler] = owner[s[i].handler]
  BY <1>1, <1>2, InUse
<1>3. ASSUME NEW i \in 1..Len(s), s[i].kind \in {"start", "stop", "abort"},
             NEW j \in 1..(i-1), s[j].at \in Elements, group'[s[j].at] = s[i].vm
      PROVE  group[s[j].at] = s[i].vm
  <2>1. i \in 1..Len(stack) /\ j \in 1..Len(stack) /\ s[i] = stack[i] /\ s[j] = stack[j]
    <3>1. Len(stack) \in Nat
      BY LenProperties DEF IInv, Fine
    <3>2. i \in 1..Len(stack) /\ s[i] = stack[i]
      BY <1>1
    <3>3. i \in Nat /\ j \in Nat /\ j < i /\ i <= Len(stack)
      BY <1>3, <3>1, <3>2
    <3>4. j \in 1..Len(s)
      BY <1>1, <1>3, <3>1, <3>3
    <3> QED BY <1>1, <3>2, <3>4
  <2>2. s[j].at \in alive
    BY <1>3, <2>1, InUse, NullAssumption
  <2>3. s[i].vm # NoVM
    <3>1. s[i].vm \in VMs
      BY <1>3, <2>1 DEF IInv, Fine, Sound, Alone
    <3> QED BY <3>1, NullAssumption
  <2> QED BY <1>3, <2>2, <2>3
<1> QED BY <1>2, <1>3 DEF Keeps, World

\* ... and the handlers that scripts remove.
LEMMA FreedKept ==
    ASSUME IInv, NEW F \in SUBSET Handlers, Freed(F)
    PROVE  /\ \A h \in Handlers \ F : on'[h] = on[h] /\ owner'[h] = owner[h]
           /\ \A h \in F : on'[h] = NoElement /\ owner'[h] = NoVM
           /\ on' \in [Handlers -> Nodes \cup {NoElement}]
           /\ owner' \in [Handlers -> VMs \cup {NoVM}]
<1>1. on \in [Handlers -> Nodes \cup {NoElement}] /\ owner \in [Handlers -> VMs \cup {NoVM}]
  BY DEF IInv, Data
<1> QED BY <1>1 DEF Freed

LEMMA DeleteKept ==
    ASSUME IInv, NEW S \in SUBSET Handlers, Delete(S)
    PROVE  /\ \A h \in Handlers : on[h] \in iterating => on'[h] = on[h] /\ owner'[h] = owner[h]
           /\ \A h \in Handlers \ S : on'[h] = on[h] /\ owner'[h] = owner[h]
           /\ \A h \in S : h \in trash' \/ on'[h] = NoElement
           /\ \A h \in Handlers : on'[h] \in {on[h], NoElement}
           /\ trash' = trash \cup {h \in S : on[h] \in iterating}
           /\ on' \in [Handlers -> Nodes \cup {NoElement}]
           /\ owner' \in [Handlers -> VMs \cup {NoVM}]
           /\ iterating' = iterating
<1> DEFINE postponed == {h \in S : on[h] \in iterating}
<1>1. /\ trash' = trash \cup postponed
      /\ Freed(S \ postponed)
      /\ iterating' = iterating
  BY DEF Delete
<1>2. S \ postponed \in SUBSET Handlers
  OBVIOUS
<1>3. /\ \A h \in Handlers \ (S \ postponed) : on'[h] = on[h] /\ owner'[h] = owner[h]
      /\ \A h \in S \ postponed : on'[h] = NoElement /\ owner'[h] = NoVM
      /\ on' \in [Handlers -> Nodes \cup {NoElement}]
      /\ owner' \in [Handlers -> VMs \cup {NoVM}]
  BY <1>1, <1>2, FreedKept
<1> QED BY <1>1, <1>3

-----------------------------------------------------------------------------
(* The stack, action by action.                                             *)

\* Events: the frame below goes on, or the handlers of its element are called.
LEMMA VisitStep ==
    ASSUME IInv, NEW below, Fine(below, World, iterating), World' = World,
           NEW f \in Frames, f.kind \in Plain, Alone(f, World),
           NEW hs \in SUBSET HandlersOf(f.at), Visit(below, f, hs)
    PROVE  Fine(stack', World', iterating')
<1>1. hs \in SUBSET Handlers /\ \A h \in hs : World.on[h] = f.at
  BY DEF HandlersOf, World
<1>2. /\ Fine(Append(below, f), World, iterating)
      /\ hs # {} => Fine(Append(Append(below, f), CallOf(f.at, hs, f.at \in iterating)), World,
                         iterating \cup {f.at})
  BY <1>1, FineVisit
<1>3. CASE hs = {}
  <2>1. stack' = Append(below, f) /\ iterating' = iterating
    BY <1>3 DEF Visit
  <2> QED BY <1>2, <2>1
<1>4. CASE hs # {}
  <2>1. /\ stack' = Append(Append(below, f), CallOf(f.at, hs, f.at \in iterating))
        /\ iterating' = iterating \cup {f.at}
    BY <1>4 DEF Visit
  <2> QED BY <1>2, <1>4, <2>1
<1> QED BY <1>3, <1>4

\* A frame that holds nothing but an element that exists.
LEMMA PlainFrame ==
    ASSUME IInv, NEW k \in Plain, NEW e \in alive \cup {Root}, NEW source \in alive \cup {Root},
           k \in {"unlink", "destroy"} => e \in Elements
    PROVE  LET f == At(k, e, source)
           IN  /\ f \in Frames /\ f.kind = k /\ f.at = e /\ Alone(f, World)
               /\ f.kind \in Plain
               /\ \A s : Joins(s, f, World)
<1>1. e \in Nodes /\ source \in Nodes /\ k \in Kinds
  BY DEF IInv, Data, Nodes, Plain
<1>2. At(k, e, source) \in Frames
  BY <1>1, FrameTypes
<1>3. LET f == At(k, e, source)
      IN  f.kind = k /\ f.at = e /\ f.source = source /\ f.left = {} /\ f.todo = {}
  BY DEF At
<1>4. Alone(At(k, e, source), World)
  BY <1>3 DEF Alone, World, Plain
<1> QED BY <1>2, <1>3, <1>4 DEF Joins, Over, Plain

LEMMA DeletesStep ==
    ASSUME IInv, NEW below, Fine(below, World, iterating), World' = World,
           NEW e \in alive, NEW hs \in SUBSET HandlersOf(e), Deletes(below, e, hs)
    PROVE  Fine(stack', World', iterating')
<1>1. e \in Elements /\ "unlink" \in Plain /\ "climb" \in Plain
  BY DEF IInv, Data, Plain, Kinds
<1>2. LET f == At("unlink", e, e)
      IN  f \in Frames /\ f.kind = "unlink" /\ \A s : Joins(s, f, World)
  BY <1>1, PlainFrame
<1>3. Fine(Append(below, At("unlink", e, e)), World, iterating)
  BY <1>2, FinePushed
<1>4. LET f == At("climb", e, e)
      IN  f \in Frames /\ f.at = e /\ Alone(f, World) /\ f.kind \in Plain
  BY <1>1, PlainFrame
<1>5. Visit(Append(below, At("unlink", e, e)), At("climb", e, e), hs)
  BY DEF Deletes
<1> QED BY <1>3, <1>4, <1>5, VisitStep

LEMMA EventsStack ==
    ASSUME IInv,
           \/ \E e \in Nodes : TriggerEvent(e)
           \/ Climb \/ (\E c \in Elements : DownTo(c)) \/ DownEnds
           \/ (\E h \in Handlers : CallHandler(h)) \/ HandlerReturns
    PROVE  Fine(stack', World', iterating')
<1> USE DEF Running
<1>0. /\ Fine(stack, World, iterating) /\ stack \in Seq(Frames)
      /\ (alive \cup {Root}) \subseteq Nodes
      /\ {"climb", "spread", "down"} \subseteq Plain
  BY DEF IInv, Fine, Data, Nodes, Plain, Kinds
<1>1. ASSUME NEW e \in Nodes, TriggerEvent(e)
      PROVE  Fine(stack', World', iterating')
  <2>1. /\ e \in alive \cup {Root} /\ Visit(stack, At("climb", e, e), HandlersOf(e))
        /\ World' = World
    BY <1>1 DEF TriggerEvent, Visible, Live, World, tree
  <2>2. LET f == At("climb", e, e)
        IN  f \in Frames /\ f.at = e /\ Alone(f, World) /\ f.kind \in Plain
    BY <1>0, <2>1, PlainFrame
  <2> QED BY <1>0, <2>1, <2>2, VisitStep
<1>2. ASSUME Climb
      PROVE  Fine(stack', World', iterating')
  <2>1. stack # <<>> /\ Top.kind = "climb" /\ World' = World
    BY <1>2 DEF Climb, World, tree
  <2>2. /\ Fine(Caller, World, iterating)
        /\ Top.at \in alive \cup {Root} /\ Top.source \in alive \cup {Root}
    BY <2>1, TopFacts
  <2>3. CASE Parent(Top.at) # NoElement
    <3> DEFINE p == Parent(Top.at)
    <3>1. p \in alive \cup {Root}
      <4>1. Top.at # Root /\ Top.at \in Elements /\ p = parent[Top.at]
        BY <2>2, <2>3 DEF Parent, IInv, Data
      <4> QED BY <2>3, <4>1 DEF IInv, DeletedAreOut, Visible, Live
    <3>2. Visit(Caller, At("climb", p, Top.source), HandlersOf(p))
      BY <1>2, <2>3 DEF Climb
    <3>3. LET f == At("climb", p, Top.source)
          IN  f \in Frames /\ f.at = p /\ Alone(f, World) /\ f.kind \in Plain
      <4>1. "climb" \in Plain /\ "climb" \notin {"unlink", "destroy"}
        BY <1>0
      <4>2. \A q \in alive \cup {Root} :
               LET f == At("climb", q, Top.source)
               IN  f \in Frames /\ f.at = q /\ Alone(f, World) /\ f.kind \in Plain
        BY <2>2, <4>1, PlainFrame
      <4> HIDE DEF p
      <4> QED BY <3>1, <4>2
    <3> QED BY <2>1, <2>2, <3>2, <3>3, VisitStep
  <2>4. CASE Parent(Top.at) = NoElement
    <3>1. stack' = Append(Caller, At("spread", Top.source, Top.source)) /\ iterating' = iterating
      BY <1>2, <2>4 DEF Climb, Become
    <3>2. LET f == At("spread", Top.source, Top.source)
          IN  f \in Frames /\ f.kind = "spread" /\ \A s : Joins(s, f, World)
      <4>1. "spread" \in Plain /\ "spread" \notin {"unlink", "destroy"}
        BY <1>0
      <4> QED BY <2>2, <4>1, PlainFrame
    <3> QED BY <2>1, <2>2, <3>1, <3>2, FinePushed
  <2> QED BY <2>3, <2>4
<1>3. ASSUME NEW c \in Elements, DownTo(c)
      PROVE  Fine(stack', World', iterating')
  <2>1. /\ stack # <<>> /\ Top.kind \in {"spread", "down"} /\ World' = World
        /\ c \in Left
        /\ Visit(Append(Caller, Down(Top.at, Left \ {c})), At("spread", c, c), HandlersOf(c))
    BY <1>3 DEF DownTo, Spreading, Ahead, World, tree
  <2>2. /\ Fine(Caller, World, iterating) /\ Top.at \in alive \cup {Root} /\ Top.at \in Nodes
        /\ Top.left \subseteq alive
    BY <2>1, TopFacts
  <2>3. Left \subseteq alive
    <3>1. ASSUME NEW d \in Children(Top.at)
          PROVE  d \in alive
      BY <2>2, NullAssumption DEF Children, IInv, DeletedAreOut, Live, Nodes
    <3> QED BY <2>2, <3>1 DEF Left
  <2>4. LET f == Down(Top.at, Left \ {c})
        IN  f \in Frames /\ f.kind = "down" /\ Joins(Caller, f, World)
    <3> DEFINE f == Down(Top.at, Left \ {c})
    <3>1. Left \ {c} \in SUBSET Elements
      BY <2>3 DEF IInv, Data
    <3>2. f \in Frames
      BY <2>2, <3>1, FrameTypes
    <3>3. /\ f.kind = "down" /\ f.at = Top.at /\ f.source = Top.at /\ f.todo = {}
          /\ f.left = Left \ {c}
      BY DEF Down, At
    <3> HIDE DEF f
    <3> QED BY <2>2, <2>3, <3>2, <3>3 DEF Joins, Over, Alone, World, f
  <2>5. Fine(Append(Caller, Down(Top.at, Left \ {c})), World, iterating)
    BY <2>2, <2>4, FinePushed
  <2>6. LET f == At("spread", c, c)
        IN  f \in Frames /\ f.at = c /\ Alone(f, World) /\ f.kind \in Plain
    BY <1>0, <2>1, <2>3, PlainFrame
  <2> QED BY <2>1, <2>5, <2>6, VisitStep
<1>4. ASSUME DownEnds
      PROVE  Fine(stack', World', iterating')
  <2>1. /\ stack # <<>> /\ Top.kind \in {"spread", "down"} /\ World' = World
        /\ stack' = Caller /\ iterating' = iterating
    BY <1>4 DEF DownEnds, Spreading, Return, World, tree, events
  <2> QED BY <2>1, TopFacts
<1>5. ASSUME NEW h \in Handlers, CallHandler(h)
      PROVE  Fine(stack', World', iterating')
  <2> DEFINE c == [Top EXCEPT !.todo = @ \ {h}]
             r == Run(Top.at, h)
  <2>1. /\ stack # <<>> /\ Top.kind = "call" /\ h \in Top.todo \ trash
        /\ stack' = Append(Append(Caller, c), r)
        /\ World' = World /\ iterating' = iterating
    BY <1>5 DEF CallHandler, World, tree, events
  <2>2. /\ Top \in Frames /\ Top = stack[Len(stack)] /\ Len(stack) \in Nat \ {0}
        /\ Alone(Top, World) /\ Follows(stack, Len(stack))
        /\ Caller = Below(stack) /\ Top.at \in Nodes
    BY <2>1, TopFacts
  <2>3. /\ c \in Frames /\ c.kind = "call" /\ c.at = Top.at /\ c.source = Top.source
        /\ c.nested = Top.nested /\ c.left = Top.left /\ c.todo = Top.todo \ {h}
    BY <2>1, <2>2 DEF Frames
  <2>4. /\ r \in Frames /\ r.kind = "run" /\ r.at = Top.at /\ r.source = Top.at
        /\ r.left = {} /\ r.todo = {} /\ r.handler = h
    BY <2>2, FrameTypes DEF Run, At
  <2>5. /\ Caller \in Seq(Frames) /\ Sound(Caller, World)
        /\ CallsIn(Caller) = IF ~Top.nested THEN iterating \ {Top.at} ELSE iterating
    BY <2>1, <2>2, SoundPopped, CallsPopped, Popped DEF IInv, Fine
  <2>6. Top.at \in iterating /\ (Top.nested <=> Top.at \in CallsIn(Caller))
    <3>1. Top.at \in iterating
      BY <2>1, <2>2, InUse
    <3> QED BY <2>5, <3>1
  <2> HIDE DEF c, r
  <2>7. Joins(Caller, c, World)
    BY <2>2, <2>3, <2>6 DEF Joins, Over, Alone
  <2>8. /\ Append(Caller, c) \in Seq(Frames) /\ Sound(Append(Caller, c), World)
        /\ CallsIn(Append(Caller, c)) = iterating
        /\ Append(Caller, c) # <<>>
        /\ Append(Caller, c)[Len(Append(Caller, c))] = c
    <3>1. /\ Append(Caller, c) \in Seq(Frames) /\ Append(Caller, c) # <<>>
          /\ Len(Append(Caller, c)) = Len(Caller) + 1
          /\ Append(Caller, c)[Len(Caller) + 1] = c
      BY <2>3, <2>5, Pushed
    <3>2. Sound(Append(Caller, c), World)
      BY <2>3, <2>5, <2>7, SoundPushed
    <3>3. CallsIn(Append(Caller, c)) = CallsIn(Caller) \cup {Top.at}
      BY <2>3, <2>5, CallsPushed
    <3> QED BY <2>5, <2>6, <3>1, <3>2, <3>3
  <2>9. Alone(r, World)
    <3>1. on[h] = Top.at /\ on[h] # NoElement
      BY <2>1, <2>2, NullAssumption DEF Alone, World, Nodes
    <3>2. owner[h] \in open
      BY <2>1, <3>1 DEF IInv, BoundOpen
    <3> QED BY <2>2, <2>4, <3>1, <3>2 DEF Alone, World
  <2>10. Joins(Append(Caller, c), r, World)
    BY <2>3, <2>4, <2>8, <2>9 DEF Joins, Over
  <2>11. Fine(Append(Caller, c), World, iterating)
    BY <2>8 DEF Fine
  <2>12. Fine(Append(Append(Caller, c), r), World, iterating)
    BY <2>4, <2>10, <2>11, FinePushed
  <2> QED BY <2>1, <2>12
<1>6. ASSUME HandlerReturns
      PROVE  Fine(stack', World', iterating')
  <2>1. /\ stack # <<>> /\ Top.kind = "run" /\ World' = World
        /\ stack' = Caller /\ iterating' = iterating
    BY <1>6 DEF HandlerReturns, Return, World, tree, events
  <2> QED BY <2>1, TopFacts
<1> QED BY <1>1, <1>2, <1>3, <1>4, <1>5, <1>6

LEMMA ScriptsStack ==
    ASSUME IInv,
           \/ \E v \in VMs, e \in Nodes, h \in Handlers : AddEventHandler(v, e, h)
           \/ \E v \in VMs, h \in Handlers : RemoveEventHandler(v, h)
           \/ \E v \in VMs \cup {NoVM}, e \in Elements : CreateElement(v, e)
           \/ \E e, p \in Elements : SetElementParent(e, p)
    PROVE  Fine(stack', World', iterating')
<1>0. /\ Fine(stack, World, iterating) /\ stack \in Seq(Frames)
      /\ NoElement \notin iterating
      /\ on \in [Handlers -> Nodes \cup {NoElement}] /\ owner \in [Handlers -> VMs \cup {NoVM}]
      /\ group \in [Elements -> VMs \cup {NoVM}] /\ alive \subseteq Elements
      /\ \A i \in 1..Len(stack) : /\ stack[i].kind = "run" => owner[stack[i].handler] \in open
                                  /\ stack[i].kind \in {"start", "stop"} => stack[i].vm \in open
  BY FlaggedNodes, InUse DEF IInv, Fine, Data
<1>1. ASSUME NEW v \in VMs, NEW e \in Nodes, NEW h \in Handlers, AddEventHandler(v, e, h)
      PROVE  Fine(stack', World', iterating')
  <2>1. /\ on[h] = NoElement /\ on' = [on EXCEPT ![h] = e] /\ owner' = [owner EXCEPT ![h] = v]
        /\ alive' = alive /\ group' = group /\ open' = open
        /\ stack' = stack /\ iterating' = iterating
    BY <1>1 DEF AddEventHandler, tree
  <2>2. \A g \in Handlers : on[g] \in iterating => on'[g] = on[g] /\ owner'[g] = owner[g]
    BY <1>0, <2>1
  <2>3. Keeps(stack, World, World')
    BY <1>0, <2>1, <2>2, ChangeKept
  <2> QED BY <1>0, <2>1, <2>3, FineKept
<1>2. ASSUME NEW v \in VMs, NEW h \in Handlers, RemoveEventHandler(v, h)
      PROVE  Fine(stack', World', iterating')
  <2>1. /\ Delete({h}) /\ alive' = alive /\ group' = group /\ open' = open /\ stack' = stack
    BY <1>2 DEF RemoveEventHandler, tree
  <2>2. /\ \A g \in Handlers : on[g] \in iterating => on'[g] = on[g] /\ owner'[g] = owner[g]
        /\ iterating' = iterating
    BY <2>1, DeleteKept
  <2>3. Keeps(stack, World, World')
    BY <1>0, <2>1, <2>2, ChangeKept
  <2> QED BY <1>0, <2>1, <2>2, <2>3, FineKept
<1>3. ASSUME NEW v \in VMs \cup {NoVM}, NEW e \in Elements, CreateElement(v, e)
      PROVE  Fine(stack', World', iterating')
  <2>1. /\ e \notin alive /\ alive' = alive \cup {e} /\ group' = [group EXCEPT ![e] = v]
        /\ on' = on /\ owner' = owner /\ open' = open
        /\ stack' = stack /\ iterating' = iterating
    BY <1>3 DEF CreateElement, events
  <2>2. \A d \in alive : group'[d] \in {group[d], NoVM}
    BY <1>0, <2>1
  <2>3. Keeps(stack, World, World')
    BY <1>0, <2>1, <2>2, ChangeKept
  <2> QED BY <1>0, <2>1, <2>3, FineKept
<1>4. ASSUME NEW e \in Elements, NEW p \in Elements, SetElementParent(e, p)
      PROVE  Fine(stack', World', iterating')
  <2>1. World' = World /\ stack' = stack /\ iterating' = iterating
    BY <1>4 DEF SetElementParent, World, events
  <2> QED BY <1>0, <2>1
<1> QED BY <1>1, <1>2, <1>3, <1>4

LEMMA EmptyStack == \A w : Fine(<<>>, w, {})
BY DEF Fine, Sound, CallsIn

LEMMA DeletionStack ==
    ASSUME IInv,
           \/ \E e \in Elements : DestroyElement(e)
           \/ (\E c \in Elements : DestroyChild(c)) \/ DestroyThis
           \/ (\E e \in Elements : DeleteElement(e)) \/ Unlink \/ DoDeleteAll
    PROVE  Fine(stack', World', iterating')
<1> USE DEF Running
<1>0. /\ Fine(stack, World, iterating) /\ alive \subseteq Elements
      /\ "destroy" \in Plain
  BY DEF IInv, Data, Plain, Kinds
<1>1. ASSUME NEW e \in Elements, DestroyElement(e)
      PROVE  Fine(stack', World', iterating')
  <2>1. /\ e \in alive /\ stack' = Append(stack, At("destroy", e, e))
        /\ World' = World /\ iterating' = iterating
    BY <1>1 DEF DestroyElement, Push, Live, World, tree, events
  <2>2. LET f == At("destroy", e, e)
        IN  f \in Frames /\ f.kind = "destroy" /\ \A s : Joins(s, f, World)
    BY <1>0, <2>1, PlainFrame
  <2> QED BY <1>0, <2>1, <2>2, FinePushed
<1>2. ASSUME NEW c \in Elements, DestroyChild(c)
      PROVE  Fine(stack', World', iterating')
  <2>1. /\ stack # <<>> /\ parent[c] = Top.at /\ stack' = Append(stack, At("destroy", c, c))
        /\ World' = World /\ iterating' = iterating
    BY <1>2 DEF DestroyChild, Push, Children, World, tree, events
  <2>2. c \in alive
    <3>1. Top.at \in Nodes /\ Top.at # NoElement
      BY <2>1, TopFacts, NullAssumption DEF Nodes
    <3> QED BY <2>1, <3>1 DEF IInv, DeletedAreOut, Live
  <2>3. LET f == At("destroy", c, c)
        IN  f \in Frames /\ f.kind = "destroy" /\ \A s : Joins(s, f, World)
    BY <1>0, <2>2, PlainFrame
  <2> QED BY <1>0, <2>1, <2>3, FinePushed
<1>3. ASSUME DestroyThis
      PROVE  Fine(stack', World', iterating')
  <2>1. /\ stack # <<>> /\ Top.kind = "destroy" /\ World' = World
        /\ \/ stack' = Caller /\ iterating' = iterating
           \/ Deletes(Caller, Top.at, HandlersOf(Top.at))
    BY <1>3 DEF DestroyThis, Return, World, tree
  <2>2. Fine(Caller, World, iterating) /\ Top.at \in alive
    <3>1. Top.at \in Elements
      BY <2>1, TopFacts DEF Alone
    <3> QED BY <2>1, <3>1, TopFacts, NullAssumption
  <2> QED BY <2>1, <2>2, DeletesStep
<1>4. ASSUME NEW e \in Elements, DeleteElement(e)
      PROVE  Fine(stack', World', iterating')
  <2>1. e \in alive /\ Deletes(stack, e, HandlersOf(e)) /\ World' = World
    BY <1>4 DEF DeleteElement, Live, World, tree
  <2> QED BY <1>0, <2>1, DeletesStep
<1>5. ASSUME Unlink
      PROVE  Fine(stack', World', iterating')
  <2>1. /\ stack # <<>> /\ Top.kind = "unlink" /\ stack' = Caller
        /\ World' = World /\ iterating' = iterating
    BY <1>5 DEF Unlink, Return, World, events
  <2> QED BY <2>1, TopFacts
<1>6. ASSUME DoDeleteAll
      PROVE  Fine(stack', World', iterating')
  <2>1. stack = <<>> /\ stack' = <<>> /\ iterating' = iterating
    BY <1>6 DEF DoDeleteAll, Idle
  <2>2. iterating = {}
    BY <1>0, <2>1 DEF Fine, CallsIn
  <2> QED BY <2>1, <2>2, EmptyStack
<1> QED BY <1>1, <1>2, <1>3, <1>4, <1>5, <1>6

\* The outermost call at an element frees only what nothing else will look at.
LEMMA CallEndsStack ==
    ASSUME IInv, CallEnds
    PROVE  Fine(stack', World', iterating')
<1> DEFINE e == Top.at
<1>1. /\ stack # <<>> /\ Top.kind = "call" /\ stack' = Caller
      /\ alive' = alive /\ group' = group /\ open' = open
  BY DEF CallEnds, Running, Return, tree
<1>2. /\ Top = stack[Len(stack)] /\ Len(stack) \in Nat \ {0}
      /\ Follows(stack, Len(stack)) /\ Caller = Below(stack)
  BY <1>1, TopFacts
<1>3. /\ Caller \in Seq(Frames) /\ Sound(Caller, World)
      /\ Len(Caller) = Len(stack) - 1
      /\ \A i \in 1..(Len(stack) - 1) : Caller[i] = stack[i]
      /\ CallsIn(Caller) = IF ~Top.nested THEN iterating \ {e} ELSE iterating
  BY <1>1, <1>2, SoundPopped, CallsPopped, Popped DEF IInv, Fine
<1>4. CASE Top.nested
  <2>1. World' = World /\ iterating' = iterating
    BY <1>1, <1>4 DEF CallEnds, World, events
  <2> QED BY <1>1, <1>3, <1>4, <2>1 DEF Fine
<1>5. CASE ~Top.nested
  <2> DEFINE F == HandlersOf(e) \cap trash
  <2>1. Freed(F) /\ iterating' = iterating \ {e}
    BY <1>5 DEF CallEnds
  <2>2. F \in SUBSET Handlers /\ \A h \in F : on[h] = e
    BY DEF HandlersOf
  <2>3. \A h \in Handlers \ F : on'[h] = on[h] /\ owner'[h] = owner[h]
    BY <2>1, <2>2, FreedKept
  <2>4. \A i \in 1..Len(Caller) : i \in 1..Len(stack) /\ Caller[i] = stack[i]
    BY <1>2, <1>3
  <2>5. \A i \in 1..Len(Caller) : Caller[i].kind = "call" => Caller[i].at # e
    BY <1>1, <1>2, <1>3, <1>5 DEF Follows
  <2>6. \A i \in 1..Len(Caller) : Caller[i].kind = "run" => Caller[i].at # e
    <3>1. ASSUME NEW i \in 1..Len(Caller), Caller[i].kind = "run"
          PROVE  Caller[i].at # e
      <4>1. Follows(Caller, i)
        BY <1>3 DEF Sound
      <4>2. /\ i - 1 \in 1..Len(Caller) /\ Caller[i - 1].kind = "call"
            /\ Caller[i - 1].at = Caller[i].at
        BY <1>2, <1>3, <3>1, <4>1 DEF Follows
      <4> QED BY <2>5, <4>2
    <3> QED BY <3>1
  <2> HIDE DEF F, e
  <2>7. \A i \in 1..Len(Caller) :
           /\ Caller[i].kind = "call" => \A h \in Caller[i].todo : h \in Handlers \ F
           /\ Caller[i].kind = "run" => Caller[i].handler \in Handlers \ F
    BY <2>2, <2>4, <2>5, <2>6, InUse
  <2>8. \A i \in 1..Len(Caller) :
           /\ Caller[i].kind = "run" => owner[Caller[i].handler] \in open
           /\ Caller[i].kind \in {"start", "stop"} => Caller[i].vm \in open
    BY <2>4, InUse
  <2>9. Keeps(Caller, World, World')
    BY <1>1, <2>3, <2>7, <2>8 DEF Keeps, World
  <2>10. Fine(Caller, World, iterating')
    BY <1>3, <1>5, <2>1 DEF Fine
  <2> QED BY <1>1, <2>9, <2>10, FineKept
<1> QED BY <1>4, <1>5

LEMMA ResourceFrame ==
    ASSUME NEW k \in {"start", "stop", "abort"}, NEW v \in VMs
    PROVE  LET f == Resource(k, v)
           IN  /\ f \in Frames /\ f.kind = k /\ f.vm = v
               /\ \A w : k = "abort" \/ v \in w.open => Alone(f, w)
<1>1. k \in Kinds /\ Root \in Nodes
  BY DEF Kinds, Nodes
<1>2. Resource(k, v) \in Frames
  BY <1>1, FrameTypes
<1>3. LET f == Resource(k, v)
      IN  /\ f.kind = k /\ f.vm = v /\ f.at = Root /\ f.source = Root
          /\ f.left = {} /\ f.todo = {}
  BY DEF Resource, At
<1> QED BY <1>2, <1>3 DEF Alone

\* What is below the frame of a resource that ends does not need it.
LEMMA DestroyVMKept ==
    ASSUME IInv, stack # <<>>, Top.kind \in {"start", "stop"}, DestroyVM(Top.vm),
           alive' = alive, group' = group
    PROVE  Fine(Caller, World', iterating) /\ iterating' = iterating
<1> DEFINE v == Top.vm
<1>1. Delete(HandlersFor(v)) /\ open' = open \ {v}
  BY DEF DestroyVM
<1>2. HandlersFor(v) \in SUBSET Handlers
  BY DEF HandlersFor
<1>3. /\ \A h \in Handlers : on[h] \in iterating => on'[h] = on[h] /\ owner'[h] = owner[h]
      /\ iterating' = iterating
  BY <1>1, <1>2, DeleteKept
<1>4. /\ Len(stack) \in Nat \ {0} /\ Caller = Below(stack)
      /\ \A j \in 1..(Len(stack) - 1) : Over(stack[j], Top, World)
      /\ Fine(Caller, World, iterating)
  BY TopFacts
<1>5. /\ Len(Caller) = Len(stack) - 1
      /\ \A i \in 1..(Len(stack) - 1) : Caller[i] = stack[i] /\ i \in 1..Len(stack)
  BY <1>4, Popped DEF IInv, Fine
<1>6. \A i \in 1..Len(Caller) :
         /\ Caller[i].kind = "run" => owner[Caller[i].handler] \in open'
         /\ Caller[i].kind \in {"start", "stop"} => Caller[i].vm \in open'
  BY <1>1, <1>4, <1>5, InUse DEF Over, World
<1>7. Keeps(Caller, World, World')
  BY <1>3, <1>6, ChangeKept
<1> QED BY <1>3, <1>4, <1>7, FineKept

LEMMA ResourcesStack ==
    ASSUME IInv,
           \/ \E v \in VMs : StartResource(v) \/ StopResource(v)
           \/ ResourceStarted \/ StartCancelled \/ StartAborted
           \/ (\E e \in Elements : GroupDeletes(e)) \/ ResourceStopped \/ StartFails
    PROVE  Fine(stack', World', iterating')
<1> USE DEF Running
<1>0. /\ Fine(stack, World, iterating) /\ stack \in Seq(Frames)
      /\ \A i \in 1..Len(stack) : /\ stack[i].kind = "run" => owner[stack[i].handler] \in open
                                  /\ stack[i].kind \in {"start", "stop"} => stack[i].vm \in open
      /\ group \in [Elements -> VMs \cup {NoVM}]
  BY InUse DEF IInv, Fine, Data
<1>1. ASSUME NEW v \in VMs, StartResource(v)
      PROVE  Fine(stack', World', iterating')
  <2> DEFINE f == Resource("start", v)
  <2>1. /\ v \notin open /\ ~Stopping(v) /\ open' = open \cup {v}
        /\ stack' = Append(stack, f) /\ alive' = alive /\ group' = group
        /\ on' = on /\ owner' = owner /\ iterating' = iterating
    BY <1>1 DEF StartResource, Push, tree, events
  <2>2. Keeps(stack, World, World')
    BY <1>0, <2>1, ChangeKept
  <2>3. Fine(stack, World', iterating)
    BY <1>0, <2>2, FineKept
  <2>4. f \in Frames /\ f.kind = "start" /\ f.vm = v /\ Alone(f, World')
    <3>1. v \in (World').open
      BY <2>1 DEF World
    <3> QED BY <3>1, ResourceFrame
  <2> HIDE DEF f
  <2>5. ASSUME NEW j \in 1..Len(stack)
        PROVE  Over(stack[j], f, World')
    <3>1. v \notin AbortsIn(stack)
      BY <2>1 DEF Stopping, AbortsIn
    <3>2. stack[j].at \in Elements => group[stack[j].at] # v
      BY <2>1, <3>1 DEF IInv, GroupsOpen
    <3> QED BY <1>0, <2>1, <2>4, <3>2 DEF Over, World
  <2>6. Joins(stack, f, World')
    BY <2>4, <2>5 DEF Joins
  <2> QED BY <2>1, <2>3, <2>4, <2>6, FinePushed
<1>2. ASSUME NEW v \in VMs, StopResource(v)
      PROVE  Fine(stack', World', iterating')
  <2> DEFINE f == Resource("stop", v)
  <2>1. /\ v \in open /\ stack = <<>> /\ stack' = Append(stack, f)
        /\ World' = World /\ iterating' = iterating
    BY <1>2 DEF StopResource, Push, Idle, World, tree, events
  <2>2. f \in Frames /\ f.kind = "stop" /\ Alone(f, World)
    <3>1. v \in World.open
      BY <2>1 DEF World
    <3> QED BY <3>1, ResourceFrame
  <2>3. Joins(stack, f, World)
    BY <2>1, <2>2 DEF Joins
  <2> QED BY <1>0, <2>1, <2>2, <2>3, FinePushed
<1>3. ASSUME ResourceStarted \/ StartFails
      PROVE  Fine(stack', World', iterating')
  <2>1. /\ stack # <<>> /\ Top.kind # "call" /\ stack' = Caller
        /\ World' = World /\ iterating' = iterating
    BY <1>3 DEF ResourceStarted, StartFails, Return, World, tree, events
  <2> QED BY <2>1, TopFacts
<1>4. ASSUME StartCancelled
      PROVE  Fine(stack', World', iterating')
  <2> DEFINE f == Resource("stop", Top.vm)
  <2>1. /\ stack # <<>> /\ Top.kind = "start" /\ stack' = Append(Caller, f)
        /\ World' = World /\ iterating' = iterating
    BY <1>4 DEF StartCancelled, Become, World, tree, events
  <2>2. /\ Fine(Caller, World, iterating) /\ Alone(Top, World) /\ Caller = Below(stack)
        /\ \A j \in 1..(Len(stack) - 1) : Over(stack[j], Top, World)
    BY <2>1, TopFacts
  <2>3. Top.vm \in VMs /\ Top.vm \in World.open
    BY <2>1, <2>2 DEF Alone
  <2>4. f \in Frames /\ f.kind = "stop" /\ f.vm = Top.vm /\ Alone(f, World)
    BY <2>3, ResourceFrame
  <2> HIDE DEF f
  <2>5. \A j \in 1..Len(Caller) : Over(Caller[j], f, World)
    <3>1. Len(Caller) = Len(stack) - 1 /\ \A j \in 1..(Len(stack) - 1) : Caller[j] = stack[j]
      BY <1>0, <2>1, <2>2, Popped
    <3> QED BY <2>1, <2>2, <2>4, <3>1 DEF Over
  <2>6. Joins(Caller, f, World)
    BY <2>4, <2>5 DEF Joins
  <2> QED BY <2>1, <2>2, <2>4, <2>6, FinePushed
<1>5. ASSUME StartAborted
      PROVE  Fine(stack', World', iterating')
  <2> DEFINE f == Resource("abort", Top.vm)
  <2>1. /\ stack # <<>> /\ Top.kind = "start" /\ DestroyVM(Top.vm)
        /\ stack' = Append(Caller, f) /\ alive' = alive /\ group' = group
    BY <1>5 DEF StartAborted, Become, tree
  <2>2. /\ Alone(Top, World) /\ Caller = Below(stack)
        /\ \A j \in 1..(Len(stack) - 1) : Over(stack[j], Top, World)
    BY <2>1, TopFacts
  <2>3. Fine(Caller, World', iterating) /\ iterating' = iterating
    BY <2>1, DestroyVMKept
  <2>4. Top.vm \in VMs
    BY <2>1, <2>2 DEF Alone
  <2>5. f \in Frames /\ f.kind = "abort" /\ f.vm = Top.vm /\ Alone(f, World')
    BY <2>4, ResourceFrame
  <2> HIDE DEF f
  <2>6. \A j \in 1..Len(Caller) : Over(Caller[j], f, World')
    <3>1. Len(Caller) = Len(stack) - 1 /\ \A j \in 1..(Len(stack) - 1) : Caller[j] = stack[j]
      BY <1>0, <2>1, <2>2, Popped
    <3> QED BY <2>1, <2>2, <2>5, <3>1 DEF Over, World
  <2>7. Joins(Caller, f, World')
    BY <2>5, <2>6 DEF Joins
  <2>8. Fine(Append(Caller, f), World', iterating)
    BY <2>3, <2>5, <2>7, FinePushed
  <2> QED BY <2>1, <2>3, <2>8
<1>6. ASSUME NEW e \in Elements, GroupDeletes(e)
      PROVE  Fine(stack', World', iterating')
  <2> DEFINE u == At("unlink", e, e)
             c == At("climb", e, e)
  <2>1. /\ stack # <<>> /\ Top.kind \in {"stop", "abort"} /\ group[e] = Top.vm
        /\ group' = [group EXCEPT ![e] = NoVM] /\ Freed(HandlersOf(e) \ trash)
        /\ alive' = alive /\ open' = open
    BY <1>6 DEF GroupDeletes, Group
  <2>2. e \notin iterating
    <3>1. /\ \A j \in 1..(Len(stack) - 1) : Over(stack[j], Top, World)
          /\ Top = stack[Len(stack)] /\ Len(stack) \in Nat \ {0}
      BY <2>1, TopFacts
    <3>2. \A j \in 1..Len(stack) : stack[j].kind = "call" => stack[j].at # e
      BY <2>1, <3>1 DEF Over, World
    <3> QED BY <1>0, <3>2 DEF Fine, CallsIn
  <2>3. HandlersOf(e) \cap trash = {}
    BY <2>2 DEF HandlersOf, IInv, TrashInUse
  <2>4. HandlersOf(e) \ trash \in SUBSET Handlers
    BY DEF HandlersOf
  <2>5. \A h \in Handlers : on[h] \in iterating => on'[h] = on[h] /\ owner'[h] = owner[h]
    BY <2>1, <2>2, <2>4, FreedKept DEF HandlersOf
  <2>6. \A d \in alive : group'[d] \in {group[d], NoVM}
    BY <1>0, <2>1 DEF IInv, Data
  <2>7. Keeps(stack, World, World')
    BY <1>0, <2>1, <2>5, <2>6, ChangeKept
  <2>8. Fine(stack, World', iterating)
    BY <1>0, <2>7, FineKept
  <2>9. CASE e \in doomed
    BY <1>6, <2>8, <2>9 DEF GroupDeletes
  <2>10. CASE e \notin doomed
    <3>1. stack' = Append(Append(stack, u), c) /\ iterating' = iterating
      BY <1>6, <2>3, <2>10 DEF GroupDeletes, Deletes, Visit
    <3>2. e \in alive
      <4>1. Top.vm \in VMs
        BY <2>1, TopFacts DEF Alone
      <4> QED BY <2>1, <4>1 DEF IInv, GroupsOpen
    <3>3. /\ u \in Frames /\ u.kind = "unlink" /\ c \in Frames /\ c.kind = "climb"
          /\ Alone(u, World) /\ Alone(c, World)
      <4>1. "unlink" \in Plain /\ "climb" \in Plain
        BY DEF Plain, Kinds
      <4> QED BY <3>2, <4>1, PlainFrame
    <3> HIDE DEF u, c
    <3>4. \A s : Joins(s, u, World') /\ Joins(s, c, World')
      BY <2>1, <3>3 DEF Joins, Over, Alone, World
    <3>5. Fine(Append(stack, u), World', iterating)
      BY <2>8, <3>3, <3>4, FinePushed
    <3>6. Fine(Append(Append(stack, u), c), World', iterating)
      BY <3>3, <3>4, <3>5, FinePushed
    <3> QED BY <3>1, <3>6
  <2> QED BY <2>9, <2>10
<1>7. ASSUME ResourceStopped
      PROVE  Fine(stack', World', iterating')
  <2>1. /\ stack # <<>> /\ Top.kind = "stop" /\ DestroyVM(Top.vm)
        /\ stack' = Caller /\ alive' = alive /\ group' = group
    BY <1>7 DEF ResourceStopped, Return, tree
  <2>2. Fine(Caller, World', iterating) /\ iterating' = iterating
    BY <2>1, DestroyVMKept
  <2> QED BY <2>1, <2>2
<1> QED BY <1>1, <1>2, <1>3, <1>4, <1>5, <1>6, <1>7

-----------------------------------------------------------------------------
(* The rest of the invariant, part by part.                                 *)

\* Every step is one of these; scripts' steps change data, calls the stack.
StackActions ==
    \/ \E e \in Nodes : TriggerEvent(e)
    \/ Climb \/ (\E c \in Elements : DownTo(c)) \/ DownEnds
    \/ (\E h \in Handlers : CallHandler(h)) \/ HandlerReturns
    \/ (\E e \in Elements : DestroyElement(e))
    \/ (\E c \in Elements : DestroyChild(c)) \/ DestroyThis
    \/ (\E e \in Elements : DeleteElement(e))
    \/ ResourceStarted \/ StartCancelled

LEMMA NextStack ==
    ASSUME IInv, [Next]_vars
    PROVE  Fine(stack', World', iterating')
<1>1. CASE Next
  BY <1>1, EventsStack, ScriptsStack, DeletionStack, CallEndsStack, ResourcesStack
     DEF Next, Scripts, Game, Calls
<1>2. CASE UNCHANGED vars
  <2>1. stack' = stack /\ World' = World /\ iterating' = iterating
    BY <1>2 DEF vars, tree, events, World
  <2> QED BY <2>1 DEF IInv
<1> QED BY <1>1, <1>2

\* What the stack's actions leave alone.
LEMMA StackActionsFrame ==
    ASSUME StackActions
    PROVE  /\ UNCHANGED <<alive, doomed, parent, group, on, owner, trash, open>>
           /\ iterating \subseteq iterating'
BY DEF StackActions, TriggerEvent, Climb, DownTo, DownEnds, CallHandler, HandlerReturns,
       DestroyElement, DestroyChild, DestroyThis, DeleteElement, ResourceStarted,
       StartCancelled, Visit, Deletes, tree, events

\* The element that is unlinked.
LEMMA UnlinkFacts ==
    ASSUME IInv, Unlink
    PROVE  \E e \in alive :
              /\ e \in Elements /\ doomed' = doomed \cup {e}
              /\ parent' = [c \in Elements |-> IF c = e THEN NoElement
                                               ELSE IF parent[c] = e THEN parent[e]
                                               ELSE parent[c]]
              /\ UNCHANGED <<alive, group, on, owner, trash, iterating, open>>
              /\ stack # <<>> /\ stack' = Caller /\ Top.kind = "unlink"
<1>1. stack # <<>> /\ Top.kind = "unlink"
  BY DEF Unlink, Running
<1>2. Top.at \in Elements /\ Top.at \in alive
  BY <1>1, TopFacts, NullAssumption DEF Alone
<1> QED BY <1>1, <1>2 DEF Unlink, events, Return

LEMMA DataStep ==
    ASSUME IInv, [Next]_vars
    PROVE  Data'
<1> USE DEF Data
<1>0. Data /\ iterating \subseteq Nodes
  BY FlaggedNodes DEF IInv
<1>1. ASSUME NEW v \in VMs, NEW e \in Nodes, NEW h \in Handlers, AddEventHandler(v, e, h)
      PROVE  Data'
  BY <1>0, <1>1 DEF AddEventHandler, tree
<1>2. ASSUME NEW v \in VMs, NEW h \in Handlers, RemoveEventHandler(v, h)
      PROVE  Data'
  <2>1. Delete({h}) /\ UNCHANGED <<alive, doomed, parent, group, open>>
    BY <1>2 DEF RemoveEventHandler, tree
  <2> QED BY <1>0, <2>1, DeleteKept
<1>3. ASSUME NEW v \in VMs \cup {NoVM}, NEW e \in Elements, CreateElement(v, e)
      PROVE  Data'
  BY <1>0, <1>3 DEF CreateElement, events, Nodes
<1>4. ASSUME NEW e \in Elements, NEW p \in Elements, SetElementParent(e, p)
      PROVE  Data'
  BY <1>0, <1>4 DEF SetElementParent, events, Nodes
<1>5. CASE StackActions
  BY <1>0, <1>5, StackActionsFrame
<1>6. CASE Unlink
  <2>1. PICK e \in alive :
              /\ e \in Elements /\ doomed' = doomed \cup {e}
              /\ parent' = [c \in Elements |-> IF c = e THEN NoElement
                                               ELSE IF parent[c] = e THEN parent[e]
                                               ELSE parent[c]]
              /\ UNCHANGED <<alive, group, on, owner, trash, open>>
    BY <1>6, UnlinkFacts
  <2>2. parent' \in [Elements -> Nodes \cup {NoElement}]
    BY <1>0, <2>1
  <2> QED BY <1>0, <2>1, <2>2
<1>7. CASE DoDeleteAll
  <2> DEFINE F == {h \in Handlers \ trash : on[h] \in doomed}
  <2>1. /\ Freed(F) /\ alive' = alive \ doomed /\ doomed' = {}
        /\ group' = [e \in Elements |-> IF e \in doomed THEN NoVM ELSE group[e]]
        /\ UNCHANGED <<parent, trash, open>>
    BY <1>7 DEF DoDeleteAll, Live
  <2>2. F \in SUBSET Handlers
    OBVIOUS
  <2>3. on' \in [Handlers -> Nodes \cup {NoElement}] /\ owner' \in [Handlers -> VMs \cup {NoVM}]
    BY <2>1, <2>2, FreedKept
  <2> QED BY <1>0, <2>1, <2>3
<1>8. CASE CallEnds
  <2>1. UNCHANGED <<alive, doomed, parent, group, open>>
    BY <1>8 DEF CallEnds, tree
  <2>2. CASE Top.nested
    BY <1>0, <1>8, <2>1, <2>2 DEF CallEnds, events
  <2>3. CASE ~Top.nested
    <3>1. /\ Freed(HandlersOf(Top.at) \cap trash) /\ trash' = trash \ HandlersOf(Top.at)
      BY <1>8, <2>3 DEF CallEnds
    <3>2. HandlersOf(Top.at) \cap trash \in SUBSET Handlers
      BY DEF HandlersOf
    <3>3. on' \in [Handlers -> Nodes \cup {NoElement}] /\ owner' \in [Handlers -> VMs \cup {NoVM}]
      BY <3>1, <3>2, FreedKept
    <3> QED BY <1>0, <2>1, <3>1, <3>3
  <2> QED BY <2>2, <2>3
<1>9. ASSUME NEW v \in VMs, StartResource(v)
      PROVE  Data'
  BY <1>0, <1>9 DEF StartResource, tree, events
<1>10. ASSUME NEW v \in VMs, StopResource(v)
       PROVE  Data'
  BY <1>0, <1>10 DEF StopResource, tree, events
<1>11. CASE StartAborted \/ ResourceStopped
  <2>1. PICK v : DestroyVM(v) /\ UNCHANGED <<alive, doomed, parent, group>>
    BY <1>11 DEF StartAborted, ResourceStopped, tree
  <2>2. Delete(HandlersFor(v)) /\ open' = open \ {v} /\ HandlersFor(v) \in SUBSET Handlers
    BY <2>1 DEF DestroyVM, HandlersFor
  <2>3. /\ trash' \subseteq Handlers
        /\ on' \in [Handlers -> Nodes \cup {NoElement}]
        /\ owner' \in [Handlers -> VMs \cup {NoVM}]
    BY <1>0, <2>2, DeleteKept
  <2> QED BY <1>0, <2>1, <2>2, <2>3
<1>12. ASSUME NEW e \in Elements, GroupDeletes(e)
       PROVE  Data'
  <2>1. /\ group' = [group EXCEPT ![e] = NoVM] /\ Freed(HandlersOf(e) \ trash)
        /\ UNCHANGED <<alive, doomed, parent, trash, open>>
    BY <1>12 DEF GroupDeletes
  <2>2. HandlersOf(e) \ trash \in SUBSET Handlers
    BY DEF HandlersOf
  <2>3. on' \in [Handlers -> Nodes \cup {NoElement}] /\ owner' \in [Handlers -> VMs \cup {NoVM}]
    BY <2>1, <2>2, FreedKept
  <2> QED BY <1>0, <2>1, <2>3
<1>13. CASE StartFails
  BY <1>0, <1>13 DEF StartFails, tree, events
<1>14. CASE UNCHANGED vars
  BY <1>0, <1>14 DEF vars, tree, events
<1> HIDE DEF Data
<1> QED BY <1>1, <1>2, <1>3, <1>4, <1>5, <1>6, <1>7, <1>8, <1>9, <1>10, <1>11, <1>12, <1>13, <1>14
       DEF Next, Scripts, Game, Calls, StackActions

\* What changes the tree.
TreeActions ==
    \/ \E v \in VMs \cup {NoVM}, e \in Elements : CreateElement(v, e)
    \/ \E e, p \in Elements : SetElementParent(e, p)
    \/ Unlink \/ DoDeleteAll

LEMMA TreeFrame ==
    ASSUME [Next]_vars
    PROVE  TreeActions \/ UNCHANGED <<alive, doomed, parent>>
BY StackActionsFrame
   DEF Next, Scripts, Game, Calls, vars, tree, TreeActions, StackActions, AddEventHandler,
       RemoveEventHandler, CallEnds, StartResource, StopResource, StartAborted,
       ResourceStopped, GroupDeletes, StartFails

\* A deleted element leaves, and its children go to its parent.
LEMMA DeletedStep ==
    ASSUME IInv, [Next]_vars
    PROVE  DeletedAreOut'
<1>0. /\ parent \in [Elements -> Nodes \cup {NoElement}] /\ alive \subseteq Elements
      /\ doomed \subseteq alive /\ Root \notin Elements /\ NoElement \notin Nodes
      /\ \A e \in Elements \ Live : parent[e] = NoElement
      /\ \A e \in Live : parent[e] \in Visible
  BY NullAssumption DEF IInv, Data, DeletedAreOut, Nodes
<1>1. ASSUME NEW v \in VMs \cup {NoVM}, NEW e \in Elements, CreateElement(v, e)
      PROVE  DeletedAreOut'
  <2>1. /\ alive' = alive \cup {e} /\ doomed' = doomed /\ e \notin alive
        /\ parent' = [parent EXCEPT ![e] = Root]
    BY <1>1 DEF CreateElement
  <2>2. Live' = Live \cup {e}
    BY <1>0, <2>1 DEF Live
  <2> QED BY <1>0, <2>1, <2>2 DEF DeletedAreOut, Visible
<1>2. ASSUME NEW e \in Elements, NEW p \in Elements, SetElementParent(e, p)
      PROVE  DeletedAreOut'
  <2>1. /\ e \in Live /\ p \in Live /\ parent' = [parent EXCEPT ![e] = p] /\ Live' = Live
    BY <1>2 DEF SetElementParent, Live
  <2> QED BY <1>0, <2>1 DEF DeletedAreOut, Visible
<1>3. CASE Unlink
  <2>1. PICK e \in alive :
              /\ e \in Elements /\ doomed' = doomed \cup {e} /\ alive' = alive
              /\ parent' = [c \in Elements |-> IF c = e THEN NoElement
                                               ELSE IF parent[c] = e THEN parent[e]
                                               ELSE parent[c]]
    BY <1>3, UnlinkFacts
  <2>2. Live' = Live \ {e} /\ Live \subseteq Elements
    BY <1>0, <2>1 DEF Live
  <2>3. parent[e] # e
    <3>1. CASE e \in Live
      <4>1. Under(e, Root)
        BY <3>1 DEF IInv, AllReachRoot
      <4>2. parent[e] = e => {e} \in SUBSET Nodes /\ \A y \in {e} : Parent(y) \in {e} \cup {NoElement}
        BY <1>0, <2>1 DEF Parent, Nodes
      <4>3. parent[e] = e => Root \in {e}
        BY <4>1, <4>2 DEF Under
      <4> QED BY <1>0, <2>1, <4>3
    <3>2. CASE e \notin Live
      BY <1>0, <2>1, <3>2 DEF Nodes
    <3> QED BY <3>1, <3>2
  <2>4. ASSUME NEW c \in Elements \ Live'
        PROVE  parent'[c] = NoElement
    BY <1>0, <2>1, <2>2, <2>4 DEF Nodes
  <2>5. ASSUME NEW c \in Live'
        PROVE  parent'[c] \in Visible'
    <3>1. c \in Live /\ c # e /\ c \in Elements /\ parent[c] \in Live \cup {Root}
      BY <1>0, <2>2, <2>5 DEF Visible
    <3>2. CASE parent[c] = e
      <4>1. e \in Live /\ parent[e] \in Live \cup {Root}
        BY <1>0, <2>1, <3>1, <3>2 DEF Visible
      <4> QED BY <2>1, <2>2, <2>3, <3>1, <3>2, <4>1 DEF Visible
    <3>3. CASE parent[c] # e
      BY <1>0, <2>1, <2>2, <3>1, <3>3 DEF Visible
    <3> QED BY <3>2, <3>3
  <2> QED BY <2>4, <2>5 DEF DeletedAreOut
<1>4. CASE DoDeleteAll
  <2>1. Live' = Live /\ parent' = parent
    BY <1>4 DEF DoDeleteAll, Live
  <2> QED BY <1>0, <2>1 DEF DeletedAreOut, Visible
<1>5. CASE UNCHANGED <<alive, doomed, parent>>
  BY <1>0, <1>5 DEF DeletedAreOut, Visible, Live
<1> QED BY <1>1, <1>2, <1>3, <1>4, <1>5, TreeFrame DEF TreeActions

\* Whatever holds all of an element's ancestors holds the root, still.
LEMMA RootedStep ==
    ASSUME IInv, [Next]_vars
    PROVE  AllReachRoot'
<1>0. /\ parent \in [Elements -> Nodes \cup {NoElement}] /\ alive \subseteq Elements
      /\ doomed \subseteq alive /\ Root \notin Elements /\ NoElement \notin Nodes
      /\ Elements \subseteq Nodes /\ Root \in Nodes /\ Live \subseteq Elements
      /\ \A e \in Elements \ Live : parent[e] = NoElement
      /\ \A e \in Live : parent[e] \in Live \cup {Root}
      /\ \A e \in Live : Under(e, Root)
  BY NullAssumption DEF IInv, Data, DeletedAreOut, AllReachRoot, Nodes, Live, Visible
<1>1. ASSUME NEW v \in VMs \cup {NoVM}, NEW e \in Elements, CreateElement(v, e)
      PROVE  AllReachRoot'
  <2>1. /\ alive' = alive \cup {e} /\ doomed' = doomed /\ e \notin alive
        /\ parent' = [parent EXCEPT ![e] = Root]
    BY <1>1 DEF CreateElement
  <2>2. Live' = Live \cup {e} /\ e \notin Live
    BY <1>0, <2>1 DEF Live
  <2>3. ASSUME NEW x \in Live', NEW S \in SUBSET Nodes, x \in S,
               \A y \in S : Parent(y)' \in S \cup {NoElement}
        PROVE  Root \in S
    <3>1. CASE e \in S
      <4>1. Parent(e)' = Root
        BY <1>0, <2>1 DEF Parent
      <4> QED BY <1>0, <2>3, <3>1, <4>1
    <3>2. CASE e \notin S
      <4>1. x \in Live /\ \A y \in S : Parent(y) \in S \cup {NoElement}
        BY <1>0, <2>1, <2>2, <2>3, <3>2 DEF Parent, Nodes
      <4> QED BY <1>0, <2>3, <4>1 DEF Under
    <3> QED BY <3>1, <3>2
  <2> QED BY <2>3 DEF AllReachRoot, Under
<1>2. ASSUME NEW e \in Elements, NEW p \in Elements, SetElementParent(e, p)
      PROVE  AllReachRoot'
  <2>1. /\ e \in Live /\ p \in Live /\ ~Under(p, e) /\ Live' = Live
        /\ parent' = [parent EXCEPT ![e] = p]
    BY <1>2 DEF SetElementParent, Live
  <2>2. PICK A \in SUBSET Nodes : /\ p \in A /\ e \notin A
                                  /\ \A y \in A : Parent(y) \in A \cup {NoElement}
    BY <2>1 DEF Under
  <2>3. ASSUME NEW x \in Live', NEW S \in SUBSET Nodes, x \in S,
               \A y \in S : Parent(y)' \in S \cup {NoElement}
        PROVE  Root \in S
    <3>1. \A y \in Nodes \ {e} : Parent(y)' = Parent(y)
      BY <2>1, <1>0 DEF Parent, Nodes
    <3>2. CASE e \in S
      <4>1. Parent(e)' = p
        BY <1>0, <2>1 DEF Parent
      <4>2. p \in S \cap A
        BY <1>0, <2>2, <2>3, <3>2, <4>1
      <4>3. \A y \in S \cap A : Parent(y) \in (S \cap A) \cup {NoElement}
        BY <2>2, <2>3, <3>1
      <4>4. Under(p, Root) /\ S \cap A \in SUBSET Nodes
        BY <1>0, <2>1
      <4>5. Root \in S \cap A
        BY <4>2, <4>3, <4>4 DEF Under
      <4> QED BY <4>5
    <3>3. CASE e \notin S
      <4>1. \A y \in S : Parent(y) \in S \cup {NoElement}
        BY <2>3, <3>1, <3>3
      <4> QED BY <1>0, <2>1, <2>3, <4>1 DEF Under
    <3> QED BY <3>2, <3>3
  <2> QED BY <2>3 DEF AllReachRoot, Under
<1>3. CASE Unlink
  <2>1. PICK e \in alive :
              /\ e \in Elements /\ doomed' = doomed \cup {e} /\ alive' = alive
              /\ parent' = [c \in Elements |-> IF c = e THEN NoElement
                                               ELSE IF parent[c] = e THEN parent[e]
                                               ELSE parent[c]]
    BY <1>3, UnlinkFacts
  <2>2. Live' = Live \ {e}
    BY <1>0, <2>1 DEF Live
  <2>3. ASSUME NEW x \in Live', NEW S \in SUBSET Nodes, x \in S,
               \A y \in S : Parent(y)' \in S \cup {NoElement}
        PROVE  Root \in S
    <3>0. /\ x \in Live /\ x # e /\ e # Root /\ Under(x, Root)
          /\ \A y \in Elements \ {e} : /\ Parent(y) = parent[y]
                                       /\ Parent(y)' = IF parent[y] = e THEN parent[e] ELSE parent[y]
          /\ Parent(Root) = NoElement /\ Parent(e) = parent[e] /\ Parent(e)' = NoElement
      BY <1>0, <2>1, <2>2, <2>3 DEF Parent
    <3>1. CASE \E c \in S \cap Elements : c # e /\ parent[c] = e
      <4> DEFINE T == S \cup {e}
      <4>1. PICK c \in S \cap Elements : c # e /\ parent[c] = e
        BY <3>1
      <4>2. parent[e] \in S \cup {NoElement}
        BY <2>3, <3>0, <4>1
      <4>3. \A y \in T : Parent(y) \in T \cup {NoElement}
        <5>1. ASSUME NEW y \in S, y # e, y # Root
              PROVE  Parent(y) \in T \cup {NoElement}
          <6>1. y \in Elements \ {e} /\ Parent(y)' \in S \cup {NoElement}
            BY <2>3, <5>1 DEF Nodes
          <6> QED BY <3>0, <6>1
        <5> QED BY <3>0, <4>2, <5>1
      <4>4. T \in SUBSET Nodes /\ x \in T
        BY <1>0, <2>1, <2>3
      <4>5. Root \in T
        BY <3>0, <4>3, <4>4 DEF Under
      <4> QED BY <3>0, <4>5
    <3>2. CASE ~\E c \in S \cap Elements : c # e /\ parent[c] = e
      <4> DEFINE T == S \ {e}
      <4>1. ASSUME NEW y \in T, y # Root
            PROVE  Parent(y) \in T \cup {NoElement}
        <5>1. y \in Elements \ {e} /\ y \in S /\ Parent(y)' \in S \cup {NoElement}
          BY <2>3, <4>1 DEF Nodes
        <5> QED BY <3>0, <3>2, <5>1
      <4>2. \A y \in T : Parent(y) \in T \cup {NoElement}
        BY <3>0, <4>1
      <4>3. T \in SUBSET Nodes /\ x \in T
        BY <2>3, <3>0
      <4>4. Root \in T
        BY <3>0, <4>2, <4>3 DEF Under
      <4> QED BY <4>4
    <3> QED BY <3>1, <3>2
  <2> QED BY <2>3 DEF AllReachRoot, Under
<1>4. CASE DoDeleteAll
  <2>1. Live' = Live /\ parent' = parent
    BY <1>4 DEF DoDeleteAll, Live
  <2>2. \A S : (\A y \in S : Parent(y)' \in S \cup {NoElement}) => \A y \in S : Parent(y) \in S \cup {NoElement}
    BY <2>1 DEF Parent
  <2> QED BY <1>0, <2>1, <2>2 DEF AllReachRoot, Under
<1>5. CASE UNCHANGED <<alive, doomed, parent>>
  <2>1. Live' = Live /\ parent' = parent
    BY <1>5 DEF Live
  <2>2. \A S : (\A y \in S : Parent(y)' \in S \cup {NoElement}) => \A y \in S : Parent(y) \in S \cup {NoElement}
    BY <2>1 DEF Parent
  <2> QED BY <1>0, <2>1, <2>2 DEF AllReachRoot, Under
<1> QED BY <1>1, <1>2, <1>3, <1>4, <1>5, TreeFrame DEF TreeActions

LEMMA TrashStep ==
    ASSUME IInv, [Next]_vars
    PROVE  TrashInUse'
<1>0. /\ \A h \in trash : on[h] \in iterating /\ on[h] # NoElement
      /\ trash \subseteq Handlers /\ owner \in [Handlers -> VMs \cup {NoVM}]
      /\ on \in [Handlers -> Nodes \cup {NoElement}]
  BY FlaggedNodes DEF IInv, TrashInUse, Data
<1>1. ASSUME NEW v \in VMs, NEW e \in Nodes, NEW h \in Handlers, AddEventHandler(v, e, h)
      PROVE  TrashInUse'
  <2>1. /\ on[h] = NoElement /\ on' = [on EXCEPT ![h] = e]
        /\ trash' = trash /\ iterating' = iterating
    BY <1>1 DEF AddEventHandler
  <2> QED BY <1>0, <2>1 DEF TrashInUse
<1>2. ASSUME NEW S \in SUBSET Handlers, Delete(S)
      PROVE  TrashInUse'
  <2>1. /\ \A h \in Handlers : on[h] \in iterating => on'[h] = on[h]
        /\ trash' = trash \cup {h \in S : on[h] \in iterating}
        /\ iterating' = iterating
    BY <1>2, DeleteKept
  <2> QED BY <1>0, <2>1 DEF TrashInUse
<1>3. CASE StackActions
  BY <1>0, <1>3, StackActionsFrame DEF TrashInUse
<1>4. CASE DoDeleteAll
  <2>1. trash' = trash /\ iterating' = iterating /\ stack = <<>>
    BY <1>4 DEF DoDeleteAll, Idle
  <2>2. iterating = {}
    BY <2>1 DEF IInv, Fine, CallsIn
  <2> QED BY <1>0, <2>1, <2>2 DEF TrashInUse
<1>5. CASE CallEnds
  <2>1. CASE Top.nested
    BY <1>0, <1>5, <2>1 DEF CallEnds, events, TrashInUse
  <2>2. CASE ~Top.nested
    <3> DEFINE F == HandlersOf(Top.at) \cap trash
    <3>1. Freed(F) /\ trash' = trash \ HandlersOf(Top.at) /\ iterating' = iterating \ {Top.at}
      BY <1>5, <2>2 DEF CallEnds
    <3>2. \A h \in Handlers \ F : on'[h] = on[h]
      BY <3>1, FreedKept DEF HandlersOf
    <3> QED BY <1>0, <3>1, <3>2 DEF TrashInUse, HandlersOf
  <2> QED BY <2>1, <2>2
<1>6. ASSUME NEW e \in Elements, GroupDeletes(e)
      PROVE  TrashInUse'
  <2>1. Freed(HandlersOf(e) \ trash) /\ trash' = trash /\ iterating \subseteq iterating'
    BY <1>6 DEF GroupDeletes, Deletes, Visit
  <2>2. \A h \in trash : on'[h] = on[h]
    BY <1>0, <2>1, FreedKept DEF HandlersOf
  <2> QED BY <1>0, <2>1, <2>2 DEF TrashInUse
<1>7. CASE UNCHANGED <<on, trash, iterating>>
  BY <1>0, <1>7 DEF TrashInUse
<1>8. ASSUME NEW v \in VMs, NEW h \in Handlers, RemoveEventHandler(v, h)
      PROVE  TrashInUse'
  BY <1>2, <1>8 DEF RemoveEventHandler
<1>9. CASE StartAborted \/ ResourceStopped
  <2>1. PICK v : Delete(HandlersFor(v)) /\ HandlersFor(v) \in SUBSET Handlers
    BY <1>9 DEF StartAborted, ResourceStopped, DestroyVM, HandlersFor
  <2> QED BY <1>2, <2>1
<1>10. \/ StackActions \/ DoDeleteAll \/ CallEnds \/ StartAborted \/ ResourceStopped
       \/ (\E v \in VMs, e \in Nodes, h \in Handlers : AddEventHandler(v, e, h))
       \/ (\E v \in VMs, h \in Handlers : RemoveEventHandler(v, h))
       \/ (\E e \in Elements : GroupDeletes(e))
       \/ UNCHANGED <<on, trash, iterating>>
  BY DEF Next, Scripts, Game, Calls, StackActions, vars, events, CreateElement,
         SetElementParent, Unlink, StartResource, StopResource, StartFails
<1> QED BY <1>1, <1>3, <1>4, <1>5, <1>6, <1>7, <1>8, <1>9, <1>10

\* A VM closes after its handlers, wherever they are.
LEMMA ClosesBound ==
    ASSUME IInv, NEW v, DestroyVM(v), alive' = alive
    PROVE  BoundOpen'
<1>0. /\ \A h \in Handlers : on[h] \in alive \cup {Root, NoElement}
      /\ \A h \in Handlers \ trash : on[h] # NoElement => owner[h] \in open
  BY DEF IInv, BoundOpen
<1>1. Delete(HandlersFor(v)) /\ open' = open \ {v} /\ HandlersFor(v) \in SUBSET Handlers
  BY DEF DestroyVM, HandlersFor
<1>2. /\ \A h \in Handlers \ HandlersFor(v) : on'[h] = on[h] /\ owner'[h] = owner[h]
      /\ \A h \in HandlersFor(v) : h \in trash' \/ on'[h] = NoElement
      /\ \A h \in Handlers : on'[h] \in {on[h], NoElement}
      /\ trash \subseteq trash'
  BY <1>1, DeleteKept
<1>3. ASSUME NEW h \in Handlers \ trash', on'[h] # NoElement
      PROVE  owner'[h] \in open'
  <2>1. /\ h \in Handlers \ trash /\ h \notin HandlersFor(v)
        /\ on[h] # NoElement /\ owner'[h] = owner[h] /\ owner[h] \in open
    BY <1>0, <1>2, <1>3
  <2>2. on[h] \in Nodes /\ (on[h] \in doomed \/ Under(on[h], Root))
    <3>1. on[h] \in alive \cup {Root} /\ alive \subseteq Elements
      BY <1>0, <2>1 DEF IInv, Data
    <3>2. Under(Root, Root)
      BY DEF Under
    <3>3. on[h] \in Live => Under(on[h], Root)
      BY DEF IInv, AllReachRoot
    <3> QED BY <3>1, <3>2, <3>3 DEF Live, Nodes
  <2>3. owner[h] # v
    BY <2>1, <2>2 DEF HandlersFor
  <2> QED BY <1>1, <2>1, <2>3
<1> QED BY <1>0, <1>2, <1>3 DEF BoundOpen

LEMMA BoundStep ==
    ASSUME IInv, [Next]_vars
    PROVE  BoundOpen'
<1>0. /\ \A h \in Handlers : on[h] \in alive \cup {Root, NoElement}
      /\ \A h \in Handlers \ trash : on[h] # NoElement => owner[h] \in open
      /\ trash \subseteq Handlers /\ owner \in [Handlers -> VMs \cup {NoVM}]
      /\ on \in [Handlers -> Nodes \cup {NoElement}]
  BY DEF IInv, BoundOpen, Data
<1>1. ASSUME NEW v \in VMs, NEW e \in Nodes, NEW h \in Handlers, AddEventHandler(v, e, h)
      PROVE  BoundOpen'
  <2>1. /\ InScript(v) /\ e \in alive \cup {Root}
        /\ on' = [on EXCEPT ![h] = e] /\ owner' = [owner EXCEPT ![h] = v]
        /\ trash' = trash /\ alive' = alive /\ open' = open
    BY <1>1 DEF AddEventHandler, Visible, Live, tree
  <2>2. v \in open
    <3>1. stack # <<>> /\ \/ Top.kind = "run" /\ owner[Top.handler] = v
                          \/ Top.kind = "start" /\ Top.vm = v
      BY <2>1 DEF InScript, Running
    <3> QED BY <3>1, TopFacts DEF Alone, World
  <2> QED BY <1>0, <2>1, <2>2 DEF BoundOpen
<1>2. ASSUME NEW v \in VMs, NEW h \in Handlers, RemoveEventHandler(v, h)
      PROVE  BoundOpen'
  <2>1. Delete({h}) /\ alive' = alive /\ open' = open
    BY <1>2 DEF RemoveEventHandler, tree
  <2>2. /\ \A g \in Handlers \ {h} : on'[g] = on[g] /\ owner'[g] = owner[g]
        /\ h \in trash' \/ on'[h] = NoElement
        /\ \A g \in Handlers : on'[g] \in {on[g], NoElement}
        /\ trash \subseteq trash'
    BY <2>1, DeleteKept
  <2> QED BY <1>0, <2>1, <2>2 DEF BoundOpen
<1>3. CASE StartAborted \/ ResourceStopped
  <2>1. PICK v : DestroyVM(v) /\ alive' = alive
    BY <1>3 DEF StartAborted, ResourceStopped, tree
  <2> QED BY <2>1, ClosesBound
<1>4. CASE DoDeleteAll
  <2> DEFINE F == {h \in Handlers \ trash : on[h] \in doomed}
  <2>1. /\ Freed(F) /\ alive' = alive \ doomed /\ trash' = trash /\ open' = open /\ stack = <<>>
    BY <1>4 DEF DoDeleteAll, Live, Idle
  <2>2. trash = {}
    BY <2>1 DEF IInv, Fine, CallsIn, TrashInUse
  <2>3. /\ \A h \in Handlers \ F : on'[h] = on[h] /\ owner'[h] = owner[h]
        /\ \A h \in F : on'[h] = NoElement
    BY <2>1, FreedKept
  <2> QED BY <1>0, <2>1, <2>2, <2>3 DEF BoundOpen
<1>5. CASE CallEnds
  <2>1. CASE Top.nested
    BY <1>0, <1>5, <2>1 DEF CallEnds, events, tree, BoundOpen
  <2>2. CASE ~Top.nested
    <3> DEFINE F == HandlersOf(Top.at) \cap trash
    <3>1. Freed(F) /\ trash' = trash \ HandlersOf(Top.at) /\ alive' = alive /\ open' = open
      BY <1>5, <2>2 DEF CallEnds, tree
    <3>2. /\ \A h \in Handlers \ F : on'[h] = on[h] /\ owner'[h] = owner[h]
          /\ \A h \in F : on'[h] = NoElement
      BY <3>1, FreedKept DEF HandlersOf
    <3>3. \A h \in Handlers \ trash' : h \in F \/ h \notin trash
      BY <3>1
    <3> QED BY <1>0, <3>1, <3>2, <3>3 DEF BoundOpen
  <2> QED BY <2>1, <2>2
<1>6. ASSUME NEW e \in Elements, GroupDeletes(e)
      PROVE  BoundOpen'
  <2>1. /\ Freed(HandlersOf(e) \ trash) /\ trash' = trash /\ alive' = alive /\ open' = open
    BY <1>6 DEF GroupDeletes
  <2>2. \A h \in Handlers : on'[h] = NoElement \/ (on'[h] = on[h] /\ owner'[h] = owner[h])
    BY <2>1, FreedKept DEF HandlersOf
  <2> QED BY <1>0, <2>1, <2>2 DEF BoundOpen
<1>7. CASE UNCHANGED <<on, owner, trash>> /\ alive \subseteq alive' /\ open \subseteq open'
  BY <1>0, <1>7 DEF BoundOpen
<1>8. \/ DoDeleteAll \/ CallEnds \/ StartAborted \/ ResourceStopped
      \/ (\E v \in VMs, e \in Nodes, h \in Handlers : AddEventHandler(v, e, h))
      \/ (\E v \in VMs, h \in Handlers : RemoveEventHandler(v, h))
      \/ (\E e \in Elements : GroupDeletes(e))
      \/ (UNCHANGED <<on, owner, trash>> /\ alive \subseteq alive' /\ open \subseteq open')
  BY StackActionsFrame
     DEF Next, Scripts, Game, Calls, StackActions, vars, tree, events, CreateElement,
         SetElementParent, Unlink, StartResource, StopResource, StartFails
<1> QED BY <1>1, <1>2, <1>3, <1>4, <1>5, <1>6, <1>7, <1>8

\* Handlers are bound and freed whole.
LEMMA BlankStep ==
    ASSUME IInv, [Next]_vars
    PROVE  Blank'
<1>0. /\ \A h \in Handlers : on[h] = NoElement <=> owner[h] = NoVM
      /\ on \in [Handlers -> Nodes \cup {NoElement}] /\ owner \in [Handlers -> VMs \cup {NoVM}]
      /\ NoElement \notin Nodes /\ NoVM \notin VMs
  BY NullAssumption DEF IInv, Blank, Data, Nodes
<1>1. ASSUME NEW v \in VMs, NEW e \in Nodes, NEW h \in Handlers, AddEventHandler(v, e, h)
      PROVE  Blank'
  <2>1. on' = [on EXCEPT ![h] = e] /\ owner' = [owner EXCEPT ![h] = v]
    BY <1>1 DEF AddEventHandler
  <2> QED BY <1>0, <2>1 DEF Blank
<1>2. ASSUME NEW F, Freed(F)
      PROVE  Blank'
  BY <1>0, <1>2 DEF Freed, Blank
<1>3. ASSUME NEW S, Delete(S)
      PROVE  Blank'
  BY <1>2, <1>3 DEF Delete
<1>4. CASE CallEnds
  BY <1>0, <1>2, <1>4 DEF CallEnds, events, Blank
<1>5. CASE UNCHANGED <<on, owner>>
  BY <1>0, <1>5 DEF Blank
<1>6. \/ (\E v \in VMs, e \in Nodes, h \in Handlers : AddEventHandler(v, e, h))
      \/ (\E F : Freed(F)) \/ (\E S : Delete(S)) \/ CallEnds
      \/ UNCHANGED <<on, owner>>
  BY StackActionsFrame
     DEF Next, Scripts, Game, Calls, StackActions, vars, tree, events, CreateElement,
         RemoveEventHandler, SetElementParent, Unlink, StartResource, StopResource, StartFails,
         DoDeleteAll, StartAborted, ResourceStopped, DestroyVM, GroupDeletes
<1> QED BY <1>1, <1>2, <1>3, <1>4, <1>5, <1>6

\* Aborted starts stay on the stack while an event comes to an element.
LEMMA AbortsVisit ==
    ASSUME NEW S, NEW below \in Seq(S), NEW f, NEW hs, Visit(below, f, hs)
    PROVE  AbortsIn(below) \subseteq AbortsIn(stack')
<1> DEFINE t == Append(below, f)
           c == CallOf(f.at, hs, f.at \in iterating)
<1>1. t \in Seq(S \cup {f}) /\ AbortsIn(below) \subseteq AbortsIn(t)
  BY AbortsPushed
<1>2. AbortsIn(t) \subseteq AbortsIn(Append(t, c))
  <2> HIDE DEF t, c
  <2> QED BY <1>1, AbortsPushed
<1>3. stack' = t \/ stack' = Append(t, c)
  BY DEF Visit
<1> QED BY <1>1, <1>2, <1>3

LEMMA AbortsDeletes ==
    ASSUME NEW S, NEW below \in Seq(S), NEW e, NEW hs, Deletes(below, e, hs)
    PROVE  AbortsIn(below) \subseteq AbortsIn(stack')
<1> DEFINE f == At("unlink", e, e)
           t == Append(below, f)
<1>1. t \in Seq(S \cup {f}) /\ AbortsIn(below) \subseteq AbortsIn(t)
  BY AbortsPushed
<1>2. Visit(t, At("climb", e, e), hs)
  BY DEF Deletes
<1> HIDE DEF t
<1>3. AbortsIn(t) \subseteq AbortsIn(stack')
  BY <1>1, <1>2, AbortsVisit
<1> QED BY <1>1, <1>3

\* Only the end of an aborted start takes its frame away.
LEMMA AbortsStay ==
    ASSUME IInv, [Next]_vars, ~StartFails
    PROVE  AbortsIn(stack) \subseteq AbortsIn(stack')
<1>0. stack \in Seq(Frames)
  BY DEF IInv, Fine
<1>1. ASSUME NEW f, stack' = Append(stack, f)
      PROVE  AbortsIn(stack) \subseteq AbortsIn(stack')
  BY <1>0, <1>1, AbortsPushed
<1>2. ASSUME stack # <<>>, Top.kind # "abort"
      PROVE  /\ AbortsIn(stack) \subseteq AbortsIn(Caller)
             /\ Caller \in Seq(Frames)
  <2>1. stack[Len(stack)].kind # "abort" /\ Caller = Below(stack) /\ Caller \in Seq(Frames)
    BY <1>2, TopFacts
  <2>2. \A v \in AbortsIn(stack) : v \in AbortsIn(Below(stack))
    BY <1>0, <1>2, <2>1, AbortsPopped
  <2> QED BY <2>1, <2>2
<1>3. ASSUME NEW f, NEW g,
             stack' = Append(Caller, f) \/ stack' = Append(Append(Caller, f), g),
             stack # <<>>, Top.kind # "abort"
      PROVE  AbortsIn(stack) \subseteq AbortsIn(stack')
  <2>1. AbortsIn(stack) \subseteq AbortsIn(Caller) /\ Caller \in Seq(Frames)
    BY <1>2, <1>3
  <2> DEFINE t == Append(Caller, f)
  <2>2. AbortsIn(Caller) \subseteq AbortsIn(t) /\ t \in Seq(Frames \cup {f})
    BY <2>1, AbortsPushed
  <2>3. AbortsIn(t) \subseteq AbortsIn(Append(t, g))
    <3> HIDE DEF t
    <3> QED BY <2>2, AbortsPushed
  <2> QED BY <1>3, <2>1, <2>2, <2>3
<1>4. ASSUME NEW f, NEW hs, Visit(Caller, f, hs), stack # <<>>, Top.kind # "abort"
      PROVE  AbortsIn(stack) \subseteq AbortsIn(stack')
  BY <1>2, <1>4, AbortsVisit
<1>5. ASSUME NEW e \in Nodes, TriggerEvent(e)
      PROVE  AbortsIn(stack) \subseteq AbortsIn(stack')
  <2>1. Visit(stack, At("climb", e, e), HandlersOf(e))
    BY <1>5 DEF TriggerEvent
  <2> QED BY <1>0, <2>1, AbortsVisit
<1>6. CASE Climb
  <2>1. stack # <<>> /\ Top.kind = "climb"
    BY <1>6 DEF Climb, Running
  <2>2. CASE Parent(Top.at) # NoElement
    <3>1. Visit(Caller, At("climb", Parent(Top.at), Top.source), HandlersOf(Parent(Top.at)))
      BY <1>6, <2>2 DEF Climb
    <3> QED BY <1>4, <2>1, <3>1
  <2>3. CASE Parent(Top.at) = NoElement
    <3>1. stack' = Append(Caller, At("spread", Top.source, Top.source))
      BY <1>6, <2>3 DEF Climb, Become
    <3> QED BY <1>3, <2>1, <3>1
  <2> QED BY <2>2, <2>3
<1>7. ASSUME NEW c \in Elements, DownTo(c)
      PROVE  AbortsIn(stack) \subseteq AbortsIn(stack')
  <2> DEFINE d == Down(Top.at, Left \ {c})
  <2>1. stack # <<>> /\ Top.kind # "abort"
    BY <1>7 DEF DownTo, Spreading, Running
  <2>2. Visit(Append(Caller, d), At("spread", c, c), HandlersOf(c))
    BY <1>7 DEF DownTo
  <2>3. AbortsIn(stack) \subseteq AbortsIn(Caller) /\ Caller \in Seq(Frames)
    BY <1>2, <2>1
  <2> HIDE DEF d
  <2>4. AbortsIn(Caller) \subseteq AbortsIn(Append(Caller, d)) /\ Append(Caller, d) \in Seq(Frames \cup {d})
    BY <2>3, AbortsPushed
  <2>5. AbortsIn(Append(Caller, d)) \subseteq AbortsIn(stack')
    BY <2>2, <2>4, AbortsVisit
  <2> QED BY <2>3, <2>4, <2>5
<1>8. ASSUME NEW h \in Handlers, CallHandler(h)
      PROVE  AbortsIn(stack) \subseteq AbortsIn(stack')
  <2>1. /\ stack # <<>> /\ Top.kind = "call"
        /\ stack' = Append(Append(Caller, [Top EXCEPT !.todo = @ \ {h}]), Run(Top.at, h))
    BY <1>8 DEF CallHandler, Running
  <2> DEFINE f == [Top EXCEPT !.todo = @ \ {h}]
             g == Run(Top.at, h)
  <2>2. stack' = Append(Append(Caller, f), g)
    BY <2>1
  <2> HIDE DEF f, g
  <2>3. Top.kind # "abort"
    BY <2>1
  <2> QED BY <1>3, <2>1, <2>2, <2>3
<1>9. CASE DownEnds \/ HandlerReturns \/ CallEnds \/ Unlink \/ ResourceStarted \/ ResourceStopped
  <2>1. stack # <<>> /\ Top.kind # "abort" /\ stack' = Caller
    BY <1>9 DEF DownEnds, HandlerReturns, CallEnds, Unlink, ResourceStarted, ResourceStopped,
                Spreading, Running, Return
  <2> QED BY <1>2, <2>1
<1>10. CASE StartCancelled \/ StartAborted
  <2>1. /\ stack # <<>> /\ Top.kind = "start"
        /\ \E f : stack' = Append(Caller, f)
    BY <1>10 DEF StartCancelled, StartAborted, Running, Become
  <2> QED BY <1>3, <2>1
<1>11. CASE DestroyThis
  <2>1. stack # <<>> /\ Top.kind = "destroy"
    BY <1>11 DEF DestroyThis, Running
  <2>2. stack' = Caller \/ Deletes(Caller, Top.at, HandlersOf(Top.at))
    BY <1>11 DEF DestroyThis, Return
  <2>3. AbortsIn(stack) \subseteq AbortsIn(Caller) /\ Caller \in Seq(Frames)
    BY <1>2, <2>1
  <2>4. Deletes(Caller, Top.at, HandlersOf(Top.at)) => AbortsIn(Caller) \subseteq AbortsIn(stack')
    BY <2>3, AbortsDeletes
  <2> QED BY <2>2, <2>3, <2>4
<1>12. ASSUME NEW e, NEW hs, Deletes(stack, e, hs)
       PROVE  AbortsIn(stack) \subseteq AbortsIn(stack')
  BY <1>0, <1>12, AbortsDeletes
<1>13. \/ stack' = stack \/ (\E f : stack' = Append(stack, f))
       \/ (\E e \in Nodes : TriggerEvent(e)) \/ Climb \/ (\E c \in Elements : DownTo(c))
       \/ (\E h \in Handlers : CallHandler(h)) \/ DestroyThis
       \/ DownEnds \/ HandlerReturns \/ CallEnds \/ Unlink \/ ResourceStarted \/ ResourceStopped
       \/ StartCancelled \/ StartAborted
       \/ (\E e, hs : Deletes(stack, e, hs))
  BY DEF Next, Scripts, Game, Calls, vars, AddEventHandler, RemoveEventHandler, CreateElement,
         SetElementParent, DestroyElement, StartResource, DeleteElement, StopResource,
         DoDeleteAll, DestroyChild, GroupDeletes, Push
<1> QED BY <1>1, <1>5, <1>6, <1>7, <1>8, <1>9, <1>10, <1>11, <1>12, <1>13

LEMMA GroupsStep ==
    ASSUME IInv, [Next]_vars
    PROVE  GroupsOpen'
<1>0. /\ \A e \in Elements : group[e] \in VMs => group[e] \in open \cup AbortsIn(stack) /\ e \in alive
      /\ group \in [Elements -> VMs \cup {NoVM}] /\ NoVM \notin VMs
  BY NullAssumption DEF IInv, GroupsOpen, Data
<1>1. ~StartFails => AbortsIn(stack) \subseteq AbortsIn(stack')
  BY AbortsStay
<1>2. ASSUME NEW v \in VMs \cup {NoVM}, NEW e \in Elements, CreateElement(v, e)
      PROVE  GroupsOpen'
  <2>1. /\ group' = [group EXCEPT ![e] = v] /\ alive' = alive \cup {e}
        /\ open' = open /\ stack' = stack /\ (InScript(v) \/ v = NoVM)
    BY <1>2 DEF CreateElement
  <2>2. v \in VMs => v \in open
    <3>1. ASSUME v \in VMs
          PROVE  stack # <<>> /\ \/ Top.kind = "run" /\ owner[Top.handler] = v
                                 \/ Top.kind = "start" /\ Top.vm = v
      BY <1>0, <2>1, <3>1 DEF InScript, Running
    <3> QED BY <3>1, TopFacts DEF Alone, World
  <2> QED BY <1>0, <2>1, <2>2 DEF GroupsOpen
<1>3. CASE StartFails
  <2>1. /\ stack # <<>> /\ Top.kind = "abort" /\ \A e \in Elements : group[e] # Top.vm
        /\ stack' = Caller /\ UNCHANGED <<group, alive, open>>
    BY <1>3 DEF StartFails, Running, Group, Return, tree
  <2>2. \A v \in AbortsIn(stack) : v \in AbortsIn(stack') \/ v = Top.vm
    <3>1. stack \in Seq(Frames) /\ Caller = Below(stack) /\ Top = stack[Len(stack)]
      BY <2>1, TopFacts DEF IInv, Fine
    <3> QED BY <2>1, <3>1, AbortsPopped
  <2> QED BY <1>0, <2>1, <2>2 DEF GroupsOpen
<1>4. CASE StartAborted
  <2>1. /\ stack # <<>> /\ Top.kind = "start" /\ open' = open \ {Top.vm}
        /\ stack' = Append(Caller, Resource("abort", Top.vm)) /\ UNCHANGED <<group, alive>>
    BY <1>4 DEF StartAborted, DestroyVM, Running, Become, tree
  <2>2. Resource("abort", Top.vm).kind = "abort" /\ Resource("abort", Top.vm).vm = Top.vm
    BY DEF Resource, At
  <2>3. Top.vm \in AbortsIn(stack')
    <3>1. Caller \in Seq(Frames)
      BY <2>1, TopFacts
    <3> QED BY <2>1, <2>2, <3>1, AbortsPushed
  <2>4. AbortsIn(stack) \subseteq AbortsIn(stack')
    <3>1. ~StartFails
      BY <2>1 DEF StartFails, Running
    <3> QED BY <1>1, <3>1
  <2> QED BY <1>0, <2>1, <2>3, <2>4 DEF GroupsOpen
<1>5. CASE ResourceStopped
  <2>1. /\ Top.kind = "stop" /\ \A e \in Elements : group[e] # Top.vm
        /\ open' = open \ {Top.vm} /\ UNCHANGED <<group, alive>>
    BY <1>5 DEF ResourceStopped, DestroyVM, Running, Group, tree
  <2>2. AbortsIn(stack) \subseteq AbortsIn(stack')
    <3>1. ~StartFails
      BY <2>1 DEF StartFails, Running
    <3> QED BY <1>1, <3>1
  <2> QED BY <1>0, <2>1, <2>2 DEF GroupsOpen
<1>6. CASE DoDeleteAll
  <2>1. /\ group' = [e \in Elements |-> IF e \in doomed THEN NoVM ELSE group[e]]
        /\ alive' = alive \ doomed /\ UNCHANGED <<open, stack>>
    BY <1>6 DEF DoDeleteAll, Live
  <2> QED BY <1>0, <2>1 DEF GroupsOpen
<1>7. ASSUME NEW e \in Elements, GroupDeletes(e), ~StartFails
      PROVE  GroupsOpen'
  <2>1. group' = [group EXCEPT ![e] = NoVM] /\ UNCHANGED <<alive, open>>
    BY <1>7 DEF GroupDeletes
  <2> QED BY <1>0, <1>1, <1>7, <2>1 DEF GroupsOpen
<1>8. CASE UNCHANGED <<group, alive>> /\ open \subseteq open' /\ ~StartFails
  BY <1>0, <1>1, <1>8 DEF GroupsOpen
<1>9. \/ StartFails \/ StartAborted \/ ResourceStopped \/ DoDeleteAll
      \/ (\E v \in VMs \cup {NoVM}, e \in Elements : CreateElement(v, e))
      \/ (\E e \in Elements : GroupDeletes(e))
      \/ (UNCHANGED <<group, alive>> /\ open \subseteq open')
  BY StackActionsFrame
     DEF Next, Scripts, Game, Calls, StackActions, vars, tree, events, AddEventHandler,
         RemoveEventHandler, SetElementParent, Unlink, StartResource, StopResource, CallEnds
<1> QED BY <1>2, <1>3, <1>4, <1>5, <1>6, <1>7, <1>8, <1>9

-----------------------------------------------------------------------------
(* The theorems.                                                            *)

LEMMA Initially == Init => IInv
<1> SUFFICES ASSUME Init PROVE IInv
  OBVIOUS
<1>1. Data
  BY DEF Init, Data
<1>2. DeletedAreOut /\ AllReachRoot
  BY DEF Init, DeletedAreOut, AllReachRoot, Live, Visible
<1>3. Fine(stack, World, iterating)
  BY EmptyStack DEF Init
<1>4. TrashInUse /\ BoundOpen /\ GroupsOpen /\ Blank
  BY NullAssumption DEF Init, TrashInUse, BoundOpen, GroupsOpen, Blank
<1> QED BY <1>1, <1>2, <1>3, <1>4 DEF IInv

LEMMA Inductive == IInv /\ [Next]_vars => IInv'
<1> SUFFICES ASSUME IInv, [Next]_vars PROVE IInv'
  OBVIOUS
<1>1. Data' /\ DeletedAreOut' /\ AllReachRoot'
  BY DataStep, DeletedStep, RootedStep
<1>2. Fine(stack', World', iterating')
  BY NextStack
<1>3. TrashInUse' /\ BoundOpen' /\ GroupsOpen' /\ Blank'
  BY TrashStep, BoundStep, GroupsStep, BlankStep
<1> QED BY <1>1, <1>2, <1>3 DEF IInv

LEMMA Invariance == Spec => []IInv
BY Initially, Inductive, PTL DEF Spec

\* Every variable keeps its type, and what is freed is blank: a handler loses its
\* element with its VM, an element outside alive is in no group and has no parent.
THEOREM TypeCorrect == Spec => []TypeOK
<1>1. IInv => TypeOK
  <2> SUFFICES ASSUME IInv PROVE TypeOK
    OBVIOUS
  <2>1. iterating \subseteq Nodes /\ stack \in Seq(Frames)
    BY FlaggedNodes DEF IInv, Fine
  <2>2. \A h \in Handlers : on[h] = NoElement <=> owner[h] = NoVM
    BY DEF IInv, Blank
  <2>3. \A e \in Elements \ alive : group[e] = NoVM /\ parent[e] = NoElement
    BY DEF IInv, Data, GroupsOpen, DeletedAreOut, Live
  <2> QED BY <2>1, <2>2, <2>3 DEF TypeOK, IInv, Data
<1> QED BY <1>1, Invariance, PTL

\* Nothing that a suspended call will use is freed, however deeply handlers
\* are nested and whatever they destroy, remove, start and stop.
THEOREM NothingFreed == Spec => []NothingInUseIsFreed
<1>1. IInv => NothingInUseIsFreed
  <2> SUFFICES ASSUME IInv PROVE NothingInUseIsFreed
    OBVIOUS
  <2>1. ASSUME NEW i \in 1..Len(stack)
        PROVE  LET f == stack[i]
               IN  /\ {f.at, f.source} \subseteq alive \cup {Root}
                   /\ f.left \subseteq alive
                   /\ \A h \in f.todo : on[h] = f.at
                   /\ f.kind = "run" => on[f.handler] = f.at /\ owner[f.handler] \in open
                   /\ f.kind \in {"start", "stop"} => f.vm \in open
    <3>1. Alone(stack[i], World)
      BY <2>1 DEF IInv, Fine, Sound
    <3> QED BY <3>1 DEF Alone, World
  <2>2. iterating = {stack[i].at : i \in {j \in 1..Len(stack) : stack[j].kind = "call"}}
    BY DEF IInv, Fine, CallsIn
  <2> QED BY <2>1, <2>2 DEF NothingInUseIsFreed, IInv, TrashInUse
<1> QED BY <1>1, Invariance, PTL

\* An element that was deleted has left the tree, and no element of the tree
\* hangs on one that was deleted.
THEOREM DeletedOut == Spec => []DeletedAreOut
<1>1. IInv => DeletedAreOut
  BY DEF IInv
<1> QED BY <1>1, Invariance, PTL

\* The elements form one tree below the root, whatever handlers move.
THEOREM Rooted == Spec => []AllReachRoot
<1>1. IInv => AllReachRoot
  BY DEF IInv
<1> QED BY <1>1, Invariance, PTL

-----------------------------------------------------------------------------
(* What scripts see: the steps of HandlerService.                           *)

\* The handlers whose functions have not returned, with their depths.
RunsIn(s) == {<<i, s[i].handler>> : i \in {j \in 1..Len(s) : s[j].kind = "run"}}

\* The same with their VMs.
CalledIn(s, o) == {<<i, <<s[i].handler, o[s[i].handler]>>>> :
                      i \in {j \in 1..Len(s) : s[j].kind = "run"}}

LEMMA CalledRuns ==
    ASSUME NEW s, NEW o
    PROVE  CalledIn(s, o) = {<<r[1], <<r[2], o[r[2]]>>>> : r \in RunsIn(s)}
<1> DEFINE I == {j \in 1..Len(s) : s[j].kind = "run"}
<1>1. RunsIn(s) = {<<i, s[i].handler>> : i \in I}
  BY DEF RunsIn
<1>2. CalledIn(s, o) = {<<i, <<s[i].handler, o[s[i].handler]>>>> : i \in I}
  BY DEF CalledIn
<1> HIDE DEF I
<1>3. ASSUME NEW x
      PROVE  x \in CalledIn(s, o) <=> x \in {<<r[1], <<r[2], o[r[2]]>>>> : r \in RunsIn(s)}
  <2>1. ASSUME x \in CalledIn(s, o)
        PROVE  \E r \in RunsIn(s) : x = <<r[1], <<r[2], o[r[2]]>>>>
    <3>1. PICK i \in I : x = <<i, <<s[i].handler, o[s[i].handler]>>>>
      BY <1>2, <2>1
    <3>2. <<i, s[i].handler>> \in RunsIn(s)
      BY <1>1
    <3> QED BY <3>1, <3>2
  <2>2. ASSUME NEW r \in RunsIn(s), x = <<r[1], <<r[2], o[r[2]]>>>>
        PROVE  x \in CalledIn(s, o)
    <3>1. PICK i \in I : r = <<i, s[i].handler>>
      BY <1>1
    <3>2. x = <<i, <<s[i].handler, o[s[i].handler]>>>>
      BY <2>2, <3>1
    <3> QED BY <1>2, <3>2
  <2> QED BY <2>1, <2>2
<1> QED BY <1>3

LEMMA RunsPushed ==
    ASSUME NEW S, NEW s \in Seq(S), NEW f
    PROVE  /\ Append(s, f) \in Seq(S \cup {f})
           /\ RunsIn(Append(s, f)) = IF f.kind = "run"
                                     THEN RunsIn(s) \cup {<<Len(s) + 1, f.handler>>}
                                     ELSE RunsIn(s)
<1> DEFINE t == Append(s, f)
           n == Len(s)
<1>1. s \in Seq(S \cup {f}) /\ n \in Nat
  BY SeqDef, LenProperties
<1>2. /\ t \in Seq(S \cup {f}) /\ Len(t) = n + 1 /\ t[n + 1] = f
      /\ \A i \in 1..n : t[i] = s[i]
  BY <1>1, AppendProperties
<1>3. \A i : i \in 1..Len(t) <=> (i \in 1..n \/ i = n + 1)
  BY <1>1, <1>2
<1> HIDE DEF t, n
<1>4. RunsIn(t) = {<<i, s[i].handler>> : i \in {j \in 1..n : s[j].kind = "run"}} \cup
                  (IF f.kind = "run" THEN {<<n + 1, f.handler>>} ELSE {})
  BY <1>2, <1>3 DEF RunsIn
<1>5. RunsIn(s) = {<<i, s[i].handler>> : i \in {j \in 1..n : s[j].kind = "run"}}
  BY DEF RunsIn, n
<1> QED BY <1>2, <1>4, <1>5 DEF t, n

LEMMA RunsPopped ==
    ASSUME NEW s \in Seq(Frames), s # <<>>
    PROVE  LET f == s[Len(s)]
           IN  RunsIn(Below(s)) = IF f.kind = "run" THEN RunsIn(s) \ {<<Len(s), f.handler>>}
                                  ELSE RunsIn(s)
<1> DEFINE t == Below(s)
           n == Len(s) - 1
           f == s[Len(s)]
<1>1. /\ n \in Nat /\ Len(t) = n /\ Len(s) = n + 1 /\ f = s[n + 1]
      /\ \A i \in 1..n : t[i] = s[i]
  BY Popped
<1>2. \A i : i \in 1..Len(s) <=> (i \in 1..n \/ i = n + 1)
  BY <1>1
<1> HIDE DEF t, n, f
<1>3. RunsIn(t) = {<<i, s[i].handler>> : i \in {j \in 1..n : s[j].kind = "run"}}
  BY <1>1 DEF RunsIn
<1>4. RunsIn(s) = RunsIn(t) \cup (IF f.kind = "run" THEN {<<n + 1, f.handler>>} ELSE {})
  BY <1>1, <1>2, <1>3 DEF RunsIn
<1>5. <<n + 1, f.handler>> \notin RunsIn(t)
  <2>1. \A i \in 1..n : i # n + 1
    BY <1>1
  <2> QED BY <1>3, <2>1
<1> QED BY <1>1, <1>4, <1>5 DEF t, f

\* An event that comes to an element calls no handler yet.
LEMMA RunsVisit ==
    ASSUME NEW S, NEW below \in Seq(S), NEW f, f.kind # "run", NEW hs, Visit(below, f, hs)
    PROVE  RunsIn(stack') = RunsIn(below)
<1> DEFINE t == Append(below, f)
           c == CallOf(f.at, hs, f.at \in iterating)
<1>1. t \in Seq(S \cup {f}) /\ RunsIn(t) = RunsIn(below)
  BY RunsPushed
<1>2. RunsIn(Append(t, c)) = RunsIn(t)
  <2>1. c.kind # "run"
    BY DEF CallOf
  <2> HIDE DEF t, c
  <2> QED BY <1>1, <2>1, RunsPushed
<1>3. stack' = t \/ stack' = Append(t, c)
  BY DEF Visit
<1> QED BY <1>1, <1>2, <1>3

LEMMA RunsDeletes ==
    ASSUME NEW S, NEW below \in Seq(S), NEW e, NEW hs, Deletes(below, e, hs)
    PROVE  RunsIn(stack') = RunsIn(below)
<1> DEFINE f == At("unlink", e, e)
           g == At("climb", e, e)
           t == Append(below, f)
<1>1. f.kind # "run" /\ g.kind # "run"
  BY DEF At
<1>2. Visit(t, g, hs)
  BY DEF Deletes
<1> HIDE DEF f, g
<1>3. t \in Seq(S \cup {f}) /\ RunsIn(t) = RunsIn(below)
  BY <1>1, RunsPushed
<1> HIDE DEF t
<1>4. RunsIn(stack') = RunsIn(t)
  BY <1>1, <1>2, <1>3, RunsVisit
<1> QED BY <1>3, <1>4

\* A handler that runs is on an element, and its VM is there.
LEMMA RunsInUse ==
    ASSUME NEW s \in Seq(Frames), NEW w, Sound(s, w), NEW r \in RunsIn(s)
    PROVE  /\ r[1] \in 1..Len(s) /\ s[r[1]].kind = "run" /\ r = <<r[1], s[r[1]].handler>>
           /\ r[2] \in Handlers /\ w.on[r[2]] # NoElement /\ w.owner[r[2]] \in w.open
<1>1. PICK i \in 1..Len(s) : s[i].kind = "run" /\ r = <<i, s[i].handler>>
  BY DEF RunsIn
<1>2. s[i] \in Frames /\ Alone(s[i], w)
  BY LenProperties DEF Sound
<1>3. s[i].at # NoElement
  BY <1>2, NullAssumption DEF Frames, Nodes
<1> QED BY <1>1, <1>2, <1>3 DEF Alone

\* Only CallHandler and HandlerReturns change which handlers run.
LEMMA RunsStay ==
    ASSUME IInv, [Next]_vars, ~HandlerReturns, ~\E h \in Handlers : CallHandler(h)
    PROVE  RunsIn(stack') = RunsIn(stack)
<1>0. stack \in Seq(Frames)
  BY DEF IInv, Fine
<1>1. ASSUME NEW f, f.kind # "run", stack' = Append(stack, f)
      PROVE  RunsIn(stack') = RunsIn(stack)
  BY <1>0, <1>1, RunsPushed
<1>2. ASSUME stack # <<>>, Top.kind # "run"
      PROVE  /\ RunsIn(Caller) = RunsIn(stack)
             /\ Caller \in Seq(Frames)
  <2>1. Top = stack[Len(stack)] /\ Caller = Below(stack) /\ Caller \in Seq(Frames)
    BY <1>2, TopFacts
  <2> QED BY <1>0, <1>2, <2>1, RunsPopped
<1>3. ASSUME NEW f, f.kind # "run", stack' = Append(Caller, f), stack # <<>>, Top.kind # "run"
      PROVE  RunsIn(stack') = RunsIn(stack)
  BY <1>2, <1>3, RunsPushed
<1>4. ASSUME NEW f, f.kind # "run", NEW hs, Visit(Caller, f, hs), stack # <<>>, Top.kind # "run"
      PROVE  RunsIn(stack') = RunsIn(stack)
  BY <1>2, <1>4, RunsVisit
<1>5. ASSUME NEW e \in Nodes, TriggerEvent(e)
      PROVE  RunsIn(stack') = RunsIn(stack)
  <2>1. Visit(stack, At("climb", e, e), HandlersOf(e)) /\ At("climb", e, e).kind # "run"
    BY <1>5 DEF TriggerEvent, At
  <2> QED BY <1>0, <2>1, RunsVisit
<1>6. CASE Climb
  <2>1. stack # <<>> /\ Top.kind = "climb"
    BY <1>6 DEF Climb, Running
  <2>2. CASE Parent(Top.at) # NoElement
    <3>1. /\ Visit(Caller, At("climb", Parent(Top.at), Top.source), HandlersOf(Parent(Top.at)))
          /\ At("climb", Parent(Top.at), Top.source).kind # "run"
      BY <1>6, <2>2 DEF Climb, At
    <3> QED BY <1>4, <2>1, <3>1
  <2>3. CASE Parent(Top.at) = NoElement
    <3>1. /\ stack' = Append(Caller, At("spread", Top.source, Top.source))
          /\ At("spread", Top.source, Top.source).kind # "run"
      BY <1>6, <2>3 DEF Climb, Become, At
    <3> QED BY <1>3, <2>1, <3>1
  <2> QED BY <2>2, <2>3
<1>7. ASSUME NEW c \in Elements, DownTo(c)
      PROVE  RunsIn(stack') = RunsIn(stack)
  <2> DEFINE d == Down(Top.at, Left \ {c})
             g == At("spread", c, c)
  <2>1. stack # <<>> /\ Top.kind # "run"
    BY <1>7 DEF DownTo, Spreading, Running
  <2>2. Visit(Append(Caller, d), g, HandlersOf(c))
    BY <1>7 DEF DownTo
  <2>3. RunsIn(Caller) = RunsIn(stack) /\ Caller \in Seq(Frames)
    BY <1>2, <2>1
  <2>4. d.kind # "run" /\ g.kind # "run"
    BY DEF Down, At
  <2> HIDE DEF d, g
  <2>5. RunsIn(Append(Caller, d)) = RunsIn(Caller) /\ Append(Caller, d) \in Seq(Frames \cup {d})
    BY <2>3, <2>4, RunsPushed
  <2>6. RunsIn(stack') = RunsIn(Append(Caller, d))
    BY <2>2, <2>4, <2>5, RunsVisit
  <2> QED BY <2>3, <2>5, <2>6
<1>8. CASE DownEnds \/ CallEnds \/ Unlink \/ ResourceStarted \/ ResourceStopped \/ StartFails
  <2>1. stack # <<>> /\ Top.kind # "run" /\ stack' = Caller
    BY <1>8 DEF DownEnds, CallEnds, Unlink, ResourceStarted, ResourceStopped, StartFails,
                Spreading, Running, Return
  <2> QED BY <1>2, <2>1
<1>9. CASE StartCancelled \/ StartAborted
  <2>1. /\ stack # <<>> /\ Top.kind = "start"
        /\ \E k \in {"stop", "abort"} : stack' = Append(Caller, Resource(k, Top.vm))
    BY <1>9 DEF StartCancelled, StartAborted, Running, Become
  <2>2. \A k \in {"stop", "abort"} : Resource(k, Top.vm).kind # "run"
    BY DEF Resource, At
  <2>3. Top.kind # "run"
    BY <2>1
  <2> QED BY <1>3, <2>1, <2>2, <2>3
<1>10. CASE DestroyThis
  <2>1. stack # <<>> /\ Top.kind = "destroy"
    BY <1>10 DEF DestroyThis, Running
  <2>2. stack' = Caller \/ Deletes(Caller, Top.at, HandlersOf(Top.at))
    BY <1>10 DEF DestroyThis, Return
  <2>3. RunsIn(Caller) = RunsIn(stack) /\ Caller \in Seq(Frames)
    BY <1>2, <2>1
  <2>4. Deletes(Caller, Top.at, HandlersOf(Top.at)) => RunsIn(stack') = RunsIn(Caller)
    BY <2>3, RunsDeletes
  <2> QED BY <2>2, <2>3, <2>4
<1>11. ASSUME NEW e, NEW hs, Deletes(stack, e, hs)
       PROVE  RunsIn(stack') = RunsIn(stack)
  BY <1>0, <1>11, RunsDeletes
<1>12. CASE \/ \E e \in Elements : DestroyElement(e) \/ DestroyChild(e)
            \/ \E v \in VMs : StartResource(v) \/ StopResource(v)
  <2>1. \/ \E e \in Elements : stack' = Append(stack, At("destroy", e, e))
        \/ \E v \in VMs, k \in {"start", "stop"} : stack' = Append(stack, Resource(k, v))
    BY <1>12 DEF DestroyElement, DestroyChild, StartResource, StopResource, Push
  <2>2. /\ \A e : At("destroy", e, e).kind # "run"
        /\ \A v, k : k \in {"start", "stop"} => Resource(k, v).kind # "run"
    BY DEF Resource, At
  <2> QED BY <1>1, <2>1, <2>2
<1>13. \/ stack' = stack
       \/ (\E e \in Elements : DestroyElement(e) \/ DestroyChild(e))
       \/ (\E v \in VMs : StartResource(v) \/ StopResource(v))
       \/ (\E e \in Nodes : TriggerEvent(e)) \/ Climb \/ (\E c \in Elements : DownTo(c))
       \/ DestroyThis
       \/ DownEnds \/ CallEnds \/ Unlink \/ ResourceStarted \/ ResourceStopped \/ StartFails
       \/ StartCancelled \/ StartAborted
       \/ (\E e, hs : Deletes(stack, e, hs))
  BY DEF Next, Scripts, Game, Calls, vars, AddEventHandler, RemoveEventHandler, CreateElement,
         SetElementParent, DeleteElement, DoDeleteAll, GroupDeletes
<1> QED BY <1>5, <1>6, <1>7, <1>8, <1>9, <1>10, <1>11, <1>12, <1>13

\* While a handler is on an element, its VM stays the same.
LEMMA OwnerFixed ==
    ASSUME IInv, [Next]_vars, NEW h \in Handlers, on[h] # NoElement, on'[h] # NoElement
    PROVE  owner'[h] = owner[h] /\ on'[h] = on[h]
<1>0. on \in [Handlers -> Nodes \cup {NoElement}] /\ owner \in [Handlers -> VMs \cup {NoVM}]
  BY DEF IInv, Data
<1>1. ASSUME NEW v \in VMs, NEW e \in Nodes, NEW g \in Handlers, AddEventHandler(v, e, g)
      PROVE  owner'[h] = owner[h] /\ on'[h] = on[h]
  <2>1. on[g] = NoElement /\ on' = [on EXCEPT ![g] = e] /\ owner' = [owner EXCEPT ![g] = v]
    BY <1>1 DEF AddEventHandler
  <2> QED BY <1>0, <2>1
<1>2. ASSUME NEW F \in SUBSET Handlers, Freed(F)
      PROVE  owner'[h] = owner[h] /\ on'[h] = on[h]
  BY <1>2, FreedKept
<1>3. ASSUME NEW S \in SUBSET Handlers, Delete(S)
      PROVE  owner'[h] = owner[h] /\ on'[h] = on[h]
  <2> DEFINE F == S \ {g \in S : on[g] \in iterating}
  <2>1. Freed(F) /\ F \in SUBSET Handlers
    BY <1>3 DEF Delete
  <2> HIDE DEF F
  <2> QED BY <1>2, <2>1
<1>4. ASSUME NEW v \in VMs, NEW g \in Handlers, RemoveEventHandler(v, g)
      PROVE  owner'[h] = owner[h] /\ on'[h] = on[h]
  BY <1>3, <1>4 DEF RemoveEventHandler
<1>5. CASE StartAborted \/ ResourceStopped
  <2>1. PICK v : Delete(HandlersFor(v)) /\ HandlersFor(v) \in SUBSET Handlers
    BY <1>5 DEF StartAborted, ResourceStopped, DestroyVM, HandlersFor
  <2> QED BY <1>3, <2>1
<1>6. CASE DoDeleteAll \/ CallEnds \/ \E e \in Elements : GroupDeletes(e)
  <2>1. (\E F \in SUBSET Handlers : Freed(F)) \/ UNCHANGED <<on, owner>>
    <3>1. CASE DoDeleteAll
      <4>1. {g \in Handlers \ trash : on[g] \in doomed} \in SUBSET Handlers
        OBVIOUS
      <4> QED BY <3>1, <4>1 DEF DoDeleteAll
    <3>2. CASE CallEnds
      <4>1. HandlersOf(Top.at) \cap trash \in SUBSET Handlers
        BY DEF HandlersOf
      <4> QED BY <3>2, <4>1 DEF CallEnds, events
    <3>3. ASSUME NEW e \in Elements, GroupDeletes(e)
          PROVE  \E F \in SUBSET Handlers : Freed(F)
      <4>1. HandlersOf(e) \ trash \in SUBSET Handlers /\ Freed(HandlersOf(e) \ trash)
        BY <3>3 DEF GroupDeletes, HandlersOf
      <4> QED BY <4>1
    <3> QED BY <1>6, <3>1, <3>2, <3>3
  <2> QED BY <1>2, <2>1
<1>7. CASE UNCHANGED <<on, owner>>
  BY <1>7
<1>8. \/ DoDeleteAll \/ CallEnds \/ StartAborted \/ ResourceStopped
      \/ (\E v \in VMs, e \in Nodes, g \in Handlers : AddEventHandler(v, e, g))
      \/ (\E v \in VMs, g \in Handlers : RemoveEventHandler(v, g))
      \/ (\E e \in Elements : GroupDeletes(e))
      \/ UNCHANGED <<on, owner>>
  BY StackActionsFrame
     DEF Next, Scripts, Game, Calls, StackActions, vars, events, CreateElement,
         SetElementParent, Unlink, StartResource, StopResource, StartFails
<1> QED BY <1>1, <1>4, <1>5, <1>6, <1>7, <1>8

\* Scripts see no change of what runs, unless a handler is called or returns.
LEMMA CalledStays ==
    ASSUME IInv, IInv', [Next]_vars, RunsIn(stack') = RunsIn(stack)
    PROVE  Called' = Called
<1>1. \A r \in RunsIn(stack) : owner'[r[2]] = owner[r[2]]
  <2>1. ASSUME NEW r \in RunsIn(stack)
        PROVE  owner'[r[2]] = owner[r[2]]
    <3>1. r[2] \in Handlers /\ on[r[2]] # NoElement
      BY RunsInUse DEF IInv, Fine, World
    <3>2. on'[r[2]] # NoElement
      <4>1. stack' \in Seq(Frames) /\ Sound(stack', World') /\ World'.on = on'
        BY DEF IInv, Fine, World
      <4>2. World'.on[r[2]] # NoElement
        BY <4>1, RunsInUse
      <4> QED BY <4>1, <4>2
    <3> QED BY <3>1, <3>2, OwnerFixed
  <2> QED BY <2>1
<1>2. Called = CalledIn(stack, owner) /\ Called' = CalledIn(stack', owner')
  BY DEF Called, CalledIn
<1>3. /\ CalledIn(stack, owner) = {<<r[1], <<r[2], owner[r[2]]>>>> : r \in RunsIn(stack)}
      /\ CalledIn(stack', owner') = {<<r[1], <<r[2], owner'[r[2]]>>>> : r \in RunsIn(stack')}
  BY CalledRuns
<1> QED BY <1>1, <1>2, <1>3

\* What scripts see of the handlers that are bound.
LEMMA BoundIs ==
    /\ \A b \in Bound : /\ b[1] \in Handlers \ trash /\ on[b[1]] # NoElement
                        /\ b[2] = owner[b[1]] /\ b = <<b[1], owner[b[1]]>>
    /\ \A h \in Handlers \ trash : on[h] # NoElement => <<h, owner[h]>> \in Bound
BY DEF Bound

\* What scripts see of the handlers that run.
LEMMA CalledIs ==
    ASSUME IInv, NEW r \in Called
    PROVE  /\ r[1] \in 1..Len(stack) /\ stack[r[1]].kind = "run"
           /\ r[2] = <<stack[r[1]].handler, owner[stack[r[1]].handler]>>
           /\ r = <<r[1], r[2]>>
           /\ r[2][1] \in Handlers /\ on[r[2][1]] # NoElement /\ r[2][2] \in open
<1>1. PICK i \in 1..Len(stack) :
           stack[i].kind = "run" /\ r = <<i, <<stack[i].handler, owner[stack[i].handler]>>>>
  BY DEF Called
<1>2. stack[i].handler \in Handlers /\ owner[stack[i].handler] \in open
  BY <1>1, InUse
<1>3. on[stack[i].handler] # NoElement
  BY <1>1, InUse, NullAssumption DEF Nodes
<1> QED BY <1>1, <1>2, <1>3

LEMMA ServiceBinds ==
    ASSUME IInv, NEW v \in VMs, NEW e \in Nodes, NEW h \in Handlers, AddEventHandler(v, e, h),
           Called' = Called
    PROVE  Service!Bind(h, v)
<1>1. /\ InScript(v) /\ e # NoElement /\ on[h] = NoElement
      /\ on' = [on EXCEPT ![h] = e] /\ owner' = [owner EXCEPT ![h] = v]
      /\ trash' = trash /\ open' = open
  BY NullAssumption DEF AddEventHandler, Nodes
<1>2. v \in open
  <2>1. stack # <<>> /\ \/ Top.kind = "run" /\ owner[Top.handler] = v
                        \/ Top.kind = "start" /\ Top.vm = v
    BY <1>1 DEF InScript, Running
  <2> QED BY <2>1, TopFacts DEF Alone, World
<1>3. /\ \A b \in Bound : b[1] # h
      /\ \A r \in Called : r[2][1] # h
  BY <1>1, BoundIs, CalledIs
<1>4. h \notin trash
  BY <1>1, FlaggedNodes DEF IInv, TrashInUse
<1>5. Bound' = Bound \cup {<<h, v>>}
  <2>1. on \in [Handlers -> Nodes \cup {NoElement}] /\ owner \in [Handlers -> VMs \cup {NoVM}]
    BY DEF IInv, Data
  <2>2. {g \in Handlers : on'[g] # NoElement} = {g \in Handlers : on[g] # NoElement} \cup {h}
    BY <1>1, <2>1
  <2>3. \A g \in Handlers : owner'[g] = IF g = h THEN v ELSE owner[g]
    BY <1>1, <2>1
  <2> QED BY <1>1, <1>4, <2>2, <2>3 DEF Bound
<1> QED BY <1>1, <1>2, <1>3, <1>5 DEF Service!Bind, Service!InUse

\* Whatever removes handlers, for scripts they are no longer bound at once.
LEMMA ServiceUnbinds ==
    ASSUME IInv, [Next]_vars, Called' = Called, open' = open,
           \A h \in Handlers : on'[h] \in {on[h], NoElement},
           \A h \in trash : h \in trash' \/ on'[h] = NoElement
    PROVE  Service!Unbind
<1>1. ASSUME NEW b \in Bound'
      PROVE  b \in Bound
  <2>1. PICK h \in Handlers : h \notin trash' /\ on'[h] # NoElement /\ b = <<h, owner'[h]>>
    BY <1>1 DEF Bound
  <2>2. on[h] # NoElement /\ h \notin trash
    BY <2>1
  <2>3. owner'[h] = owner[h]
    BY <2>1, <2>2, OwnerFixed
  <2> QED BY <2>1, <2>2, <2>3, BoundIs
<1> QED BY <1>1 DEF Service!Unbind

LEMMA ServiceCloses ==
    ASSUME IInv, IInv', [Next]_vars, Called' = Called, NEW v \in open, DestroyVM(v)
    PROVE  Service!Close(v)
<1>1. Delete(HandlersFor(v)) /\ open' = open \ {v} /\ HandlersFor(v) \in SUBSET Handlers
  BY DEF DestroyVM, HandlersFor
<1>2. /\ \A h \in Handlers \ HandlersFor(v) : on'[h] = on[h] /\ owner'[h] = owner[h]
      /\ \A h \in Handlers : on'[h] \in {on[h], NoElement}
      /\ trash' = trash \cup {h \in HandlersFor(v) : on[h] \in iterating}
  BY <1>1, DeleteKept
<1>3. \A r \in Called : r[2][2] # v
  <2>1. \A r \in Called' : r[2][2] \in open'
    <3>1. ASSUME NEW r \in Called'
          PROVE  r[2][2] \in open'
      <4>1. PICK i \in 1..Len(stack') :
                 stack'[i].kind = "run" /\ r = <<i, <<stack'[i].handler, owner'[stack'[i].handler]>>>>
        BY <3>1 DEF Called
      <4>2. Alone(stack'[i], World') /\ World'.owner = owner' /\ World'.open = open'
        BY <4>1 DEF IInv, Fine, Sound, World
      <4> QED BY <4>1, <4>2 DEF Alone
    <3> QED BY <3>1
  <2> QED BY <1>1, <2>1
<1>4. ASSUME NEW b \in Bound'
      PROVE  b \in Bound /\ b[2] # v
  <2>1. PICK h \in Handlers : h \notin trash' /\ on'[h] # NoElement /\ b = <<h, owner'[h]>>
    BY <1>4 DEF Bound
  <2>2. on[h] # NoElement /\ h \notin trash
    BY <1>2, <2>1
  <2>3. owner'[h] = owner[h]
    BY <2>1, <2>2, OwnerFixed
  <2>4. owner'[h] \in open'
    BY <2>1 DEF IInv, BoundOpen
  <2> QED BY <1>1, <2>1, <2>2, <2>3, <2>4, BoundIs
<1>5. ASSUME NEW b \in Bound, b[2] # v
      PROVE  b \in Bound'
  <2>1. PICK h \in Handlers : h \notin trash /\ on[h] # NoElement /\ b = <<h, owner[h]>>
    BY <1>5 DEF Bound
  <2>2. h \notin HandlersFor(v)
    BY <1>5, <2>1 DEF HandlersFor
  <2>3. on'[h] = on[h] /\ owner'[h] = owner[h] /\ h \notin trash'
    BY <1>2, <2>1, <2>2
  <2> QED BY <2>1, <2>3 DEF Bound
<1> QED BY <1>1, <1>3, <1>4, <1>5 DEF Service!Close

LEMMA ServiceCalls ==
    ASSUME IInv, NEW h \in Handlers, CallHandler(h)
    PROVE  \E b \in Bound : Service!Call(b)
<1> DEFINE c == [Top EXCEPT !.todo = @ \ {h}]
           f == Run(Top.at, h)
           n == Len(stack)
           b == <<h, owner[h]>>
<1>1. /\ stack # <<>> /\ Top.kind = "call" /\ h \in Top.todo \ trash
      /\ stack' = Append(Append(Caller, c), f)
      /\ UNCHANGED <<on, owner, trash, open>>
  BY DEF CallHandler, Running, events
<1>2. /\ Top = stack[n] /\ n \in Nat \ {0} /\ Alone(Top, World)
      /\ Caller = Below(stack) /\ Caller \in Seq(Frames) /\ Top \in Frames /\ Top.at \in Nodes
      /\ stack \in Seq(Frames) /\ Len(Caller) = n - 1
  BY <1>1, TopFacts, Popped DEF IInv, Fine
<1>3. b \in Bound /\ b[2] \in open
  <2>1. on[h] # NoElement
    BY <1>1, <1>2, NullAssumption DEF Alone, World, Nodes
  <2> QED BY <1>1, <2>1, BoundIs DEF IInv, BoundOpen
<1>4. c \in Frames /\ c.kind = "call" /\ f.kind = "run" /\ f.handler = h
  BY <1>1, <1>2 DEF Run, At, Frames
<1>5. RunsIn(stack') = RunsIn(stack) \cup {<<n + 1, h>>}
  <2>1. RunsIn(Caller) = RunsIn(stack)
    BY <1>1, <1>2, RunsPopped
  <2> HIDE DEF c, f
  <2>2. /\ Append(Caller, c) \in Seq(Frames) /\ Len(Append(Caller, c)) = n
        /\ RunsIn(Append(Caller, c)) = RunsIn(Caller)
    BY <1>2, <1>4, RunsPushed, Pushed
  <2>3. RunsIn(Append(Append(Caller, c), f)) = RunsIn(Append(Caller, c)) \cup {<<n + 1, h>>}
    BY <1>4, <2>2, RunsPushed
  <2> QED BY <1>1, <2>1, <2>2, <2>3
<1> HIDE DEF n
<1>6. /\ Called = {<<r[1], <<r[2], owner[r[2]]>>>> : r \in RunsIn(stack)}
      /\ Called' = {<<r[1], <<r[2], owner[r[2]]>>>> : r \in RunsIn(stack')}
  <2>1. Called = CalledIn(stack, owner) /\ Called' = CalledIn(stack', owner)
    BY <1>1 DEF Called, CalledIn
  <2> QED BY <2>1, CalledRuns
<1>7. Called' = Called \cup {<<n + 1, b>>}
  <2> DEFINE p == <<n + 1, h>>
  <2>1. p[1] = n + 1 /\ p[2] = h
    OBVIOUS
  <2> HIDE DEF p
  <2>2. Called' = Called \cup {<<p[1], <<p[2], owner[p[2]]>>>>}
    BY <1>5, <1>6 DEF p
  <2> QED BY <2>1, <2>2
<1>8. \A q \in Called : q[1] \in Nat /\ q[1] < n + 1
  <2>1. \A q \in Called : q[1] \in 1..n
    BY CalledIs DEF n
  <2> QED BY <1>2, <2>1
<1>9. <<n + 1, b>> \in Called' \ Called
  <2>1. ASSUME <<n + 1, b>> \in Called
        PROVE  FALSE
    <3>1. <<n + 1, b>>[1] < n + 1
      BY <1>8, <2>1
    <3> QED BY <1>2, <3>1
  <2> QED BY <1>7, <2>1
<1>10. UNCHANGED <<Bound, open>>
  BY <1>1 DEF Bound
<1> HIDE DEF b
<1>11. Service!Call(b)
  <2>1. <<n + 1, b>>[1] = n + 1 /\ <<n + 1, b>>[2] = b
    OBVIOUS
  <2> QED BY <1>3, <1>7, <1>8, <1>9, <1>10, <2>1 DEF Service!Call
<1> QED BY <1>3, <1>11

LEMMA ServiceReturns ==
    ASSUME IInv, HandlerReturns
    PROVE  Service!Return
<1> DEFINE n == Len(stack)
           h == Top.handler
           r == <<n, <<h, owner[h]>>>>
<1>1. /\ stack # <<>> /\ Top.kind = "run" /\ stack' = Caller
      /\ UNCHANGED <<on, owner, trash, open>>
  BY DEF HandlerReturns, Running, Return, events
<1>2. /\ Top = stack[n] /\ n \in Nat \ {0} /\ Caller = Below(stack) /\ stack \in Seq(Frames)
  BY <1>1, TopFacts DEF IInv, Fine
<1>3. RunsIn(stack') = RunsIn(stack) \ {<<n, h>>}
  BY <1>1, <1>2, RunsPopped
<1>4. /\ Called = {<<q[1], <<q[2], owner[q[2]]>>>> : q \in RunsIn(stack)}
      /\ Called' = {<<q[1], <<q[2], owner[q[2]]>>>> : q \in RunsIn(stack')}
  <2>1. Called = CalledIn(stack, owner) /\ Called' = CalledIn(stack', owner)
    BY <1>1 DEF Called, CalledIn
  <2> QED BY <2>1, CalledRuns
<1>5. <<n, h>> \in RunsIn(stack)
  <2>1. n \in 1..Len(stack)
    BY <1>2
  <2> QED BY <1>1, <1>2, <2>1 DEF RunsIn
<1>6. \A q \in RunsIn(stack) : q = <<q[1], q[2]>> /\ (q[1] = n => q[2] = h)
  <2>1. ASSUME NEW q \in RunsIn(stack)
        PROVE  q = <<q[1], q[2]>> /\ (q[1] = n => q[2] = h)
    <3>1. PICK i \in 1..Len(stack) : q = <<i, stack[i].handler>>
      BY DEF RunsIn
    <3> QED BY <1>2, <3>1
  <2> QED BY <2>1
<1> HIDE DEF n, h
<1>7. Called' = Called \ {r}
  <2>1. ASSUME NEW x \in Called'
        PROVE  x \in Called \ {r}
    <3>1. PICK q \in RunsIn(stack) : q # <<n, h>> /\ x = <<q[1], <<q[2], owner[q[2]]>>>>
      BY <1>3, <1>4
    <3>2. q[1] # n
      BY <1>6, <3>1
    <3> QED BY <1>4, <3>1, <3>2
  <2>2. ASSUME NEW x \in Called, x # r
        PROVE  x \in Called'
    <3>1. PICK q \in RunsIn(stack) : x = <<q[1], <<q[2], owner[q[2]]>>>>
      BY <1>4
    <3>2. q # <<n, h>>
      BY <2>2, <3>1
    <3> QED BY <1>3, <1>4, <3>1, <3>2
  <2>3. r \notin Called'
    BY <2>1
  <2> QED BY <2>1, <2>2
<1>8. r \in Called
  BY <1>4, <1>5
<1>9. \A q \in Called : q[1] <= r[1]
  <2>1. \A q \in Called : q[1] \in 1..n
    BY CalledIs DEF n
  <2>2. r[1] = n
    OBVIOUS
  <2> QED BY <1>2, <2>1, <2>2
<1>10. UNCHANGED <<Bound, open>>
  BY <1>1 DEF Bound
<1> HIDE DEF r
<1> QED BY <1>7, <1>8, <1>9, <1>10 DEF Service!Return

\* Every step is a step of HandlerService, or one that scripts do not see.
LEMMA ServiceStep ==
    ASSUME IInv, IInv', [Next]_vars
    PROVE  [Service!Next]_Service!serviceVars
<1>1. ASSUME NEW h \in Handlers, CallHandler(h)
      PROVE  Service!Next
  <2>1. \E b \in Bound : Service!Call(b)
    BY <1>1, ServiceCalls
  <2> QED BY <2>1 DEF Service!Next
<1>2. CASE HandlerReturns
  BY <1>2, ServiceReturns DEF Service!Next
<1>3. CASE ~HandlerReturns /\ ~\E h \in Handlers : CallHandler(h)
  <2>0. Called' = Called
    BY <1>3, RunsStay, CalledStays
  <2>1. ASSUME NEW v \in VMs, NEW e \in Nodes, NEW h \in Handlers, AddEventHandler(v, e, h)
        PROVE  Service!Next
    <3>1. Service!Bind(h, v)
      BY <2>0, <2>1, ServiceBinds
    <3> QED BY <3>1 DEF Service!Next
  <2>2. CASE StartAborted \/ ResourceStopped
    <3>1. /\ stack # <<>> /\ Top.kind \in {"start", "stop"} /\ DestroyVM(Top.vm)
      BY <2>2 DEF StartAborted, ResourceStopped, Running
    <3>2. Top.vm \in open /\ Top.vm \in VMs
      BY <3>1, TopFacts DEF Alone, World
    <3>3. Service!Close(Top.vm)
      BY <2>0, <3>1, <3>2, ServiceCloses
    <3> QED BY <3>2, <3>3 DEF Service!Next
  <2>3. ASSUME NEW v \in VMs, StartResource(v)
        PROVE  Service!Next
    <3>1. v \notin open /\ open' = open \cup {v} /\ UNCHANGED <<on, owner, trash>>
      BY <2>3 DEF StartResource, events
    <3>2. Service!Open(v)
      BY <2>0, <3>1 DEF Service!Open, Bound
    <3> QED BY <3>2 DEF Service!Next
  <2>4. CASE \/ \E v \in VMs, h \in Handlers : RemoveEventHandler(v, h)
             \/ \E e \in Elements : GroupDeletes(e)
             \/ DoDeleteAll \/ CallEnds
    <3>1. open' = open
      BY <2>4 DEF RemoveEventHandler, GroupDeletes, DoDeleteAll, CallEnds, tree
    <3>2. /\ \A h \in Handlers : on'[h] \in {on[h], NoElement}
          /\ \A h \in trash : h \in trash' \/ on'[h] = NoElement
      <4>1. ASSUME NEW v \in VMs, NEW g \in Handlers, RemoveEventHandler(v, g)
            PROVE  /\ \A h \in Handlers : on'[h] \in {on[h], NoElement}
                   /\ \A h \in trash : h \in trash' \/ on'[h] = NoElement
        <5>1. Delete({g}) /\ {g} \in SUBSET Handlers
          BY <4>1 DEF RemoveEventHandler
        <5> QED BY <5>1, DeleteKept
      <4>2. ASSUME NEW F \in SUBSET Handlers, Freed(F)
            PROVE  /\ \A h \in Handlers : on'[h] \in {on[h], NoElement}
                   /\ \A h \in F : on'[h] = NoElement
        BY <4>2, FreedKept
      <4>3. ASSUME NEW e \in Elements, GroupDeletes(e)
            PROVE  /\ \A h \in Handlers : on'[h] \in {on[h], NoElement}
                   /\ \A h \in trash : h \in trash' \/ on'[h] = NoElement
        <5>1. Freed(HandlersOf(e) \ trash) /\ trash' = trash
          BY <4>3 DEF GroupDeletes
        <5>2. HandlersOf(e) \ trash \in SUBSET Handlers
          BY DEF HandlersOf
        <5> QED BY <4>2, <5>1, <5>2
      <4>4. CASE DoDeleteAll
        <5>1. Freed({h \in Handlers \ trash : on[h] \in doomed}) /\ trash' = trash
          BY <4>4 DEF DoDeleteAll
        <5>2. {h \in Handlers \ trash : on[h] \in doomed} \in SUBSET Handlers
          OBVIOUS
        <5> QED BY <4>2, <5>1, <5>2
      <4>5. CASE CallEnds
        <5>1. CASE Top.nested
          BY <4>5, <5>1 DEF CallEnds, events
        <5>2. CASE ~Top.nested
          <6> DEFINE F == HandlersOf(Top.at) \cap trash
          <6>1. /\ Freed(F) /\ trash' = trash \ HandlersOf(Top.at)
                /\ F \in SUBSET Handlers /\ \A h \in trash : h \in F \/ h \in trash'
            BY <4>5, <5>2 DEF CallEnds, HandlersOf
          <6> HIDE DEF F
          <6> QED BY <4>2, <6>1
        <5> QED BY <5>1, <5>2
      <4> QED BY <2>4, <4>1, <4>3, <4>4, <4>5
    <3>3. Service!Unbind
      BY <2>0, <3>1, <3>2, ServiceUnbinds
    <3> QED BY <3>3 DEF Service!Next
  <2>5. CASE UNCHANGED <<on, owner, trash, open>>
    BY <2>0, <2>5 DEF Service!serviceVars, Bound
  <2>6. \/ DoDeleteAll \/ CallEnds \/ StartAborted \/ ResourceStopped
        \/ (\E v \in VMs : StartResource(v))
        \/ (\E v \in VMs, e \in Nodes, h \in Handlers : AddEventHandler(v, e, h))
        \/ (\E v \in VMs, h \in Handlers : RemoveEventHandler(v, h))
        \/ (\E e \in Elements : GroupDeletes(e))
        \/ UNCHANGED <<on, owner, trash, open>>
    BY StackActionsFrame
       DEF Next, Scripts, Game, Calls, StackActions, vars, events, CreateElement,
           SetElementParent, Unlink, StopResource, StartFails
  <2> QED BY <2>1, <2>2, <2>3, <2>4, <2>5, <2>6
<1> QED BY <1>1, <1>2, <1>3

\* Scripts may rely on HandlerService, whatever handlers, elements, resources
\* and bounds: a handler is called only while it is bound and its VM exists,
\* handlers return in the reverse of the order in which they were called, and
\* the VM of one that runs is not closed.
THEOREM KeepsPromise == Spec => ImplementsService
<1>1. Init => Service!Init
  <2>1. ASSUME Init
        PROVE  Bound = {} /\ Called = {} /\ open = {}
    BY <2>1 DEF Init, Bound, Called
  <2> QED BY <2>1 DEF Service!Init
<1>2. IInv /\ IInv' /\ [Next]_vars => [Service!Next]_Service!serviceVars
  BY ServiceStep
<1> QED BY <1>1, <1>2, Invariance, PTL DEF Spec, ImplementsService, Service!Spec
=============================================================================
