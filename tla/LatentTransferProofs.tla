------------------------ MODULE LatentTransferProofs ------------------------
(* Proofs about LatentTransfer, for any VMs, rates, sizes, limits, id spaces *)
(* and numbers of transfers and sessions.                                   *)
EXTENDS LatentTransfer, SequenceTheorems, TLAPS

-----------------------------------------------------------------------------
(* The channel and the queue.                                               *)

\* What appending to a sequence does.
LEMMA AppendOne ==
    ASSUME NEW S, NEW s \in Seq(S), NEW e \in S
    PROVE  /\ s \o <<e>> \in Seq(S)
           /\ s \o <<e>> # <<>>
           /\ Len(s \o <<e>>) = Len(s) + 1
           /\ \A i \in 1..Len(s) : (s \o <<e>>)[i] = s[i]
           /\ (s \o <<e>>)[Len(s) + 1] = e
OBVIOUS

\* What is left behind the head of a sequence.
LEMMA BehindHead ==
    ASSUME NEW S, NEW s \in Seq(S), s # <<>>
    PROVE  /\ Head(s) = s[1] /\ s[1] \in S
           /\ Tail(s) \in Seq(S)
           /\ Len(Tail(s)) = Len(s) - 1 /\ Len(s) \in Nat \ {0}
           /\ \A i \in 1..Len(Tail(s)) : Tail(s)[i] = s[i + 1]
OBVIOUS

\* What a prefix of a sequence is.
LEMMA PrefixOf ==
    ASSUME NEW S, NEW s \in Seq(S), NEW k \in 0..Len(s)
    PROVE  /\ SubSeq(s, 1, k) \in Seq(S)
           /\ Len(SubSeq(s, 1, k)) = k
           /\ \A i \in 1..k : SubSeq(s, 1, k)[i] = s[i]
<1>1. Len(s) \in Nat /\ \A i \in 1..k : s[i] \in S
  OBVIOUS
<1> QED BY <1>1, SubSeqProperties

\* The next part of an item of the queue is a packet, and leaves an item.
LEMMA PartType ==
    ASSUME NEW t \in Item, NEW n \in PartSizes(t), t.pos <= t.size
    PROVE  /\ Part(t, n) \in Packet
           /\ Sent(t, n) \in Item
           /\ Sent(t, n).id = t.id /\ Sent(t, n).size = t.size
           /\ Sent(t, n).rate = t.rate /\ Sent(t, n).vm = t.vm
           /\ Sent(t, n).pos = t.pos + n /\ t.pos + n <= t.size
           /\ Sent(t, n).started <=> (t.started \/ t.pos = 0)
           /\ Sent(t, n).finishing <=> PartKind(t) = "tail"
           /\ n \in Nat
           /\ PartKind(t) = "tail" => n = 0 /\ t.pos = t.size
           /\ PartKind(t) # "tail" => n > 0
           /\ PartKind(t) = "head" <=> t.pos = 0
<1>1. t.pos \in Nat /\ t.size \in Nat \ {0} /\ t.size \in Sizes
  BY SizesAssumption DEF Item
<1>2. n \in Nat /\ t.pos + n <= t.size
  BY <1>1 DEF PartSizes
<1>3. PartKind(t) \in {"head", "body", "tail"}
  BY DEF PartKind
<1>4. Part(t, n) \in Packet
  BY <1>1, <1>2, <1>3 DEF Part, Packet, Item
<1>5. Sent(t, n) \in Item
  <2>1. t.pos + n \in Nat
    BY <1>1, <1>2
  <2>2. (t.started \/ PartKind(t) = "head") \in BOOLEAN /\ (PartKind(t) = "tail") \in BOOLEAN
    BY DEF Item
  <2>3. \A p \in Nat, a \in BOOLEAN, b \in BOOLEAN :
           [t EXCEPT !.pos = p, !.started = a, !.finishing = b] \in Item
    BY DEF Item
  <2> QED BY <2>1, <2>2, <2>3 DEF Sent
<1>6. /\ Sent(t, n).id = t.id /\ Sent(t, n).size = t.size
      /\ Sent(t, n).rate = t.rate /\ Sent(t, n).vm = t.vm
      /\ Sent(t, n).pos = t.pos + n
      /\ Sent(t, n).started = (t.started \/ PartKind(t) = "head")
      /\ Sent(t, n).finishing = (PartKind(t) = "tail")
  BY DEF Sent, Item
<1>7. PartKind(t) = "head" <=> t.pos = 0
  BY DEF PartKind
<1>8. PartKind(t) = "tail" => n = 0 /\ t.pos = t.size
  BY <1>1 DEF PartKind, PartSizes
<1>9. PartKind(t) # "tail" => n > 0
  BY <1>1 DEF PartKind, PartSizes
<1> QED BY <1>2, <1>4, <1>5, <1>6, <1>7, <1>8, <1>9

-----------------------------------------------------------------------------
(* The invariant that the others rest on: types, ids, and who is there.     *)

IdsInOrder == /\ \A t, u \in txq : t.id = u.id => t = u
              /\ \A t \in txq : t.id < nextId

NobodyNothing == /\ ~SenderLives => txq = {}
                 /\ down /\ ~connected => wire = <<>> /\ rx = NoRx /\ ~inside
                 /\ ~down /\ dropped => ~present
                 /\ inside => rx # NoRx /\ rx.started
                 /\ rx # NoRx /\ rx.deferred => inside /\ ~down

PartsFit == \A i \in 1..Len(wire) :
               /\ wire[i].pos + wire[i].n <= wire[i].size
               /\ wire[i].kind = "head" => wire[i].pos = 0
               /\ wire[i].kind = "tail" => wire[i].pos = wire[i].size /\ wire[i].n = 0

Base == TypeOK /\ OnlyFrontStarted /\ RateIsCurrent /\ ReceiverOutlivesHandler
        /\ IdsInOrder /\ NobodyNothing /\ PartsFit

LEMMA LargerProps ==
    ASSUME NEW a \in Nat, NEW b \in Nat
    PROVE  Larger(a, b) \in {a, b} /\ a <= Larger(a, b) /\ b <= Larger(a, b)
BY DEF Larger

LEMMA BaseInit == Init => Base
<1> SUFFICES ASSUME Init PROVE Base
  OBVIOUS
<1> USE DEF Init
<1>1. TypeOK
  <2>1. nextId \in 0..MaxSends /\ session \in Nat /\ rate \in Nat /\ wire \in Seq(Packet)
    BY BoundsAssumption
  <2> QED BY <2>1 DEF TypeOK
<1>2. OnlyFrontStarted /\ RateIsCurrent /\ ReceiverOutlivesHandler /\ IdsInOrder
  BY DEF OnlyFrontStarted, RateIsCurrent, ReceiverOutlivesHandler, IdsInOrder
<1>3. NobodyNothing /\ PartsFit
  BY DEF NobodyNothing, PartsFit, SenderLives
<1> QED BY <1>1, <1>2, <1>3 DEF Base

\* The parts of an item.
LEMMA ItemParts ==
    ASSUME NEW t \in Item
    PROVE  /\ t.id \in Nat /\ t.id \in Ids /\ t.rate \in Nat /\ t.pos \in Nat
           /\ t.size \in Nat \ {0} /\ t.size \in Sizes
           /\ t.started \in BOOLEAN /\ t.finishing \in BOOLEAN
<1>1. Ids \subseteq Nat
  BY BoundsAssumption DEF Ids
<1> QED BY <1>1, RatesAssumption, SizesAssumption DEF Item

LEMMA BaseAddSend ==
    ASSUME Base, NEW vm \in VMs, NEW size \in Sizes, NEW r \in Rates, AddSend(vm, size, r)
    PROVE  Base'
<1> USE DEF Base
<1> DEFINE new == [id |-> nextId, vm |-> vm, size |-> size, rate |-> r,
                   pos |-> 0, started |-> FALSE, finishing |-> FALSE]
<1>1. nextId \in Ids /\ nextId \in Nat /\ nextId' = nextId + 1 /\ nextId' \in 0..MaxSends
  BY BoundsAssumption DEF TypeOK, AddSend, Ids
<1>2. new \in Item /\ txq' = txq \cup {new}
  BY <1>1 DEF AddSend, Item
<1>3. /\ new.id = nextId /\ new.rate = r /\ new.pos = 0 /\ new.size = size
      /\ ~new.started /\ ~new.finishing /\ size \in Nat
  BY SizesAssumption
<1> HIDE DEF new
<1>4. txq \in SUBSET Item /\ \A t \in txq : t.id \in Nat /\ t.rate \in Nat
  BY ItemParts DEF TypeOK
<1>5. r \in Nat /\ rate \in Nat /\ rate' = Larger(rate, r)
  BY RatesAssumption DEF TypeOK, AddSend
<1>6. rate' \in {rate, r} /\ rate <= rate' /\ r <= rate' /\ rate' \in Nat
  BY <1>5, LargerProps
<1>7. TypeOK'
  BY <1>1, <1>2, <1>6 DEF TypeOK, AddSend, fixedVars, receiverVars, historyVars
<1>8. OnlyFrontStarted'
  BY <1>1, <1>2, <1>3, <1>4 DEF OnlyFrontStarted, IdsInOrder, IsFront
<1>9. RateIsCurrent'
  BY <1>2, <1>3, <1>4, <1>5, <1>6 DEF RateIsCurrent
<1>10. ReceiverOutlivesHandler'
  BY DEF ReceiverOutlivesHandler, AddSend, fixedVars, receiverVars
<1>11. IdsInOrder'
  BY <1>1, <1>2, <1>3, <1>4 DEF IdsInOrder
<1>12. NobodyNothing' /\ PartsFit'
  BY DEF NobodyNothing, PartsFit, AddSend, SenderLives, fixedVars, receiverVars, historyVars
<1> QED BY <1>7, <1>8, <1>9, <1>10, <1>11, <1>12

\* What a recomputed rate is.
LEMMA RecomputedRate ==
    ASSUME NEW q \in SUBSET Item, NEW r, IsRate(r, q)
    PROVE  /\ r \in Nat
           /\ \A t \in q : t.rate <= r
           /\ r = MinRate \/ \E t \in q : t.rate = r
BY RatesAssumption DEF IsRate, Item

\* The rate that a pulse goes on with, and what is left of the queue.
LEMMA PulseRateProps ==
    ASSUME Base, NEW r, PulseRate(r, Settled(txq))
    PROVE  /\ r \in Nat
           /\ Settled(txq) \in SUBSET Item /\ Settled(txq) \subseteq txq
           /\ \A t \in Settled(txq) : t.rate <= r
           /\ r \in {0, MinRate} \/ \E t \in Settled(txq) : t.rate = r
<1>1. Settled(txq) \in SUBSET Item /\ Settled(txq) \subseteq txq
  BY DEF Base, TypeOK, Settled
<1>2. CASE Settled(txq) = txq
  <2>1. r = Larger(MinRate, rate) /\ rate \in Nat /\ MinRate \in Nat
    BY <1>2, RatesAssumption DEF PulseRate, Base, TypeOK
  <2>2. r \in {MinRate, rate} /\ rate <= r /\ r \in Nat
    BY <2>1, LargerProps
  <2>3. \A t \in txq : t.rate \in Nat
    BY RatesAssumption DEF Base, TypeOK, Item
  <2> QED BY <1>1, <1>2, <2>1, <2>2, <2>3 DEF Base, RateIsCurrent
<1>3. CASE Settled(txq) # txq
  BY <1>1, <1>3, RecomputedRate DEF PulseRate
<1> QED BY <1>2, <1>3

LEMMA BasePulseIdle ==
    ASSUME Base, PulseIdle
    PROVE  Base'
<1> USE DEF Base
<1>1. txq' = Settled(txq) /\ PulseRate(rate', Settled(txq))
  BY DEF PulseIdle
<1>2. /\ rate' \in Nat /\ txq' \in SUBSET Item /\ txq' \subseteq txq
      /\ \A t \in txq' : t.rate <= rate'
      /\ rate' \in {0, MinRate} \/ \E t \in txq' : t.rate = rate'
  BY <1>1, PulseRateProps
<1>3. TypeOK'
  BY <1>2 DEF TypeOK, PulseIdle, fixedVars, receiverVars, historyVars
<1>4. OnlyFrontStarted'
  BY <1>2 DEF OnlyFrontStarted, IsFront
<1>5. RateIsCurrent'
  BY <1>2 DEF RateIsCurrent
<1>6. ReceiverOutlivesHandler'
  BY DEF ReceiverOutlivesHandler, PulseIdle, fixedVars, receiverVars
<1>7. IdsInOrder'
  BY <1>2 DEF IdsInOrder, PulseIdle
<1>8. NobodyNothing' /\ PartsFit'
  BY <1>2 DEF NobodyNothing, PartsFit, PulseIdle, SenderLives, fixedVars, receiverVars, historyVars
<1> QED BY <1>3, <1>4, <1>5, <1>6, <1>7, <1>8

\* A packet put on the wire, if there is one.
LEMMA PutProps ==
    ASSUME TypeOK, NEW p \in Packet, Put(<<p>>)
    PROVE  /\ wire' \in Seq(Packet)
           /\ ~connected => wire' = wire
           /\ connected => /\ wire' # <<>> /\ Len(wire') = Len(wire) + 1
                           /\ wire'[Len(wire')] = p
                           /\ \A i \in 1..Len(wire) : wire'[i] = wire[i]
<1>1. wire \in Seq(Packet)
  BY DEF TypeOK
<1>2. CASE connected
  BY <1>1, <1>2, AppendOne DEF Put
<1>3. CASE ~connected
  BY <1>1, <1>3 DEF Put
<1> QED BY <1>2, <1>3

\* PartsFit lasts when a packet that fits is put on the wire.
LEMMA PutFits ==
    ASSUME TypeOK, PartsFit, NEW p \in Packet, Put(<<p>>),
           p.pos + p.n <= p.size, p.kind = "head" => p.pos = 0,
           p.kind = "tail" => p.pos = p.size /\ p.n = 0
    PROVE  PartsFit'
<1>1. CASE connected
  <2>1. \A i \in 1..Len(wire') : i \in 1..Len(wire) \/ wire'[i] = p
    BY <1>1, PutProps DEF TypeOK
  <2> QED BY <1>1, <2>1, PutProps DEF PartsFit
<1>2. CASE ~connected
  BY <1>2, PutProps DEF PartsFit
<1> QED BY <1>1, <1>2

LEMMA BasePulseSend ==
    ASSUME Base, PulseSend
    PROVE  Base'
<1> USE DEF Base
<1>1. PICK t, n :
         /\ t \in Settled(txq) /\ n \in PartSizes(t)
         /\ IsFront(t, Settled(txq)) /\ ~t.finishing
         /\ txq' = (Settled(txq) \ {t}) \cup {Sent(t, n)}
         /\ Put(<<Part(t, n)>>)
  BY DEF PulseSend
<1>2. PulseRate(rate', Settled(txq))
  BY DEF PulseSend
<1>3. /\ rate' \in Nat
      /\ Settled(txq) \in SUBSET Item /\ Settled(txq) \subseteq txq
      /\ \A u \in Settled(txq) : u.rate <= rate'
      /\ rate' \in {0, MinRate} \/ \E u \in Settled(txq) : u.rate = rate'
  BY <1>2, PulseRateProps
<1>4. t \in Item /\ t \in txq /\ t.pos <= t.size
  BY <1>1, <1>3 DEF OnlyFrontStarted
<1>5. /\ Part(t, n) \in Packet
      /\ Sent(t, n) \in Item
      /\ Sent(t, n).id = t.id /\ Sent(t, n).size = t.size /\ Sent(t, n).rate = t.rate
      /\ Sent(t, n).pos = t.pos + n /\ t.pos + n <= t.size
      /\ Sent(t, n).started <=> (t.started \/ t.pos = 0)
      /\ Sent(t, n).finishing <=> PartKind(t) = "tail"
      /\ n \in Nat
      /\ PartKind(t) = "tail" => n = 0 /\ t.pos = t.size
      /\ PartKind(t) # "tail" => n > 0
      /\ PartKind(t) = "head" <=> t.pos = 0
  BY <1>1, <1>4, PartType
<1>6. TypeOK'
  BY <1>1, <1>3, <1>5, PutProps DEF TypeOK, PulseSend, fixedVars, receiverVars, historyVars
<1>7. OnlyFrontStarted'
  <2>2. \A u \in Settled(txq) : u.id \in Nat /\ u.size \in Nat \ {0} /\ u.pos \in Nat
    BY <1>3, ItemParts
  <2>1. \A u \in Settled(txq) : u # t => ~u.started
    BY <1>1, <1>3, <1>4, <2>2 DEF OnlyFrontStarted, IsFront, IdsInOrder
  <2>3. \A u \in txq' : t.id <= u.id
    BY <1>1, <1>5, <2>2 DEF IsFront
  <2>4. ASSUME NEW u \in txq'
        PROVE  /\ u.started => IsFront(u, txq')
               /\ u.started <=> u.pos > 0
               /\ u.pos <= u.size
               /\ u.finishing => u.pos = u.size
    <3>1. CASE u \in Settled(txq) /\ u # t
      BY <1>3, <2>1, <3>1 DEF OnlyFrontStarted
    <3>2. CASE u = Sent(t, n)
      <4>1. IsFront(u, txq')
        BY <1>5, <2>3, <3>2 DEF IsFront
      <4>2. u.started <=> u.pos > 0
        <5>1. t.started <=> t.pos > 0
          BY <1>4 DEF OnlyFrontStarted
        <5>2. t.pos \in Nat /\ t.size \in Nat \ {0}
          BY <1>4, ItemParts
        <5>3. t.pos = 0 => n > 0
          BY <1>5, <5>2
        <5> QED BY <1>5, <3>2, <5>1, <5>2, <5>3
      <4>3. u.pos <= u.size
        BY <1>5, <3>2
      <4>4. u.finishing => u.pos = u.size
        BY <1>4, <1>5, <3>2, ItemParts
      <4> QED BY <4>1, <4>2, <4>3, <4>4
    <3> QED BY <1>1, <3>1, <3>2
  <2> QED BY <2>4 DEF OnlyFrontStarted
<1>8. RateIsCurrent'
  <2>1. CASE rate' = t.rate
    BY <1>1, <1>3, <1>5, <2>1 DEF RateIsCurrent
  <2>2. CASE rate' # t.rate
    BY <1>1, <1>3, <1>5, <2>2 DEF RateIsCurrent
  <2> QED BY <2>1, <2>2
<1>9. ReceiverOutlivesHandler'
  BY DEF ReceiverOutlivesHandler, PulseSend, fixedVars, receiverVars
<1>10. IdsInOrder'
  BY <1>1, <1>3, <1>5 DEF IdsInOrder, PulseSend
<1>11. NobodyNothing'
  BY <1>5, PutProps, <1>1 DEF NobodyNothing, PulseSend, SenderLives, fixedVars, receiverVars, historyVars
<1>12. PartsFit'
  <2>1. /\ Part(t, n).pos = t.pos /\ Part(t, n).n = n /\ Part(t, n).size = t.size
        /\ Part(t, n).kind = PartKind(t)
    BY DEF Part
  <2> QED BY <1>1, <1>5, <2>1, PutFits
<1> QED BY <1>6, <1>7, <1>8, <1>9, <1>10, <1>11, <1>12

\* What Remove does, for a set of items none of which has been sent whole.
LEMMA BaseRemove ==
    ASSUME Base, NEW gone \in SUBSET txq, SenderLives, Remove(gone)
    PROVE  Base'
<1> USE DEF Base
<1>1. txq' = txq \ gone /\ IsRate(rate', txq')
  BY DEF Remove
<1>2. /\ rate' \in Nat /\ txq' \in SUBSET Item
      /\ \A t \in txq' : t.rate <= rate'
      /\ rate' \in {0, MinRate} \/ \E t \in txq' : t.rate = rate'
  <2>1. txq' \in SUBSET Item
    BY <1>1 DEF TypeOK
  <2> QED BY <1>1, <2>1, RecomputedRate
<1>3. gone \in SUBSET Item /\ {t.id : t \in gone} \subseteq Nat
  BY ItemParts DEF TypeOK
<1>4. \/ \E t \in gone : t.started /\ Put(<<CancelPacket(t)>>)
      \/ wire' = wire
  BY DEF Remove
<1>5. ASSUME NEW t \in gone
      PROVE  /\ CancelPacket(t) \in Packet /\ CancelPacket(t).kind = "cancel"
             /\ CancelPacket(t).pos + CancelPacket(t).n <= CancelPacket(t).size
  <2>1. t \in Item /\ t.pos <= t.size
    BY <1>3 DEF OnlyFrontStarted
  <2>2. t.pos \in Nat /\ t.id \in Ids /\ t.size \in Sizes /\ t.size \in Nat
    BY <2>1, ItemParts
  <2> QED BY <2>1, <2>2 DEF CancelPacket, Packet
<1>6. wire' \in Seq(Packet) /\ (~connected => wire' = wire)
  BY <1>4, <1>5, PutProps DEF TypeOK
<1>7. TypeOK'
  BY <1>2, <1>3, <1>6 DEF TypeOK, Remove, fixedVars, receiverVars
<1>8. OnlyFrontStarted' /\ RateIsCurrent'
  BY <1>1, <1>2 DEF OnlyFrontStarted, IsFront, RateIsCurrent
<1>9. ReceiverOutlivesHandler' /\ IdsInOrder' /\ NobodyNothing'
  BY <1>1, <1>6 DEF ReceiverOutlivesHandler, IdsInOrder, NobodyNothing, SenderLives,
                    Remove, fixedVars, receiverVars
<1>10. PartsFit'
  <2>1. CASE wire' = wire
    BY <2>1 DEF PartsFit
  <2>2. CASE \E t \in gone : t.started /\ Put(<<CancelPacket(t)>>)
    BY <1>5, <2>2, PutFits
  <2> QED BY <1>4, <2>1, <2>2
<1> QED BY <1>7, <1>8, <1>9, <1>10

LEMMA BaseCancels ==
    ASSUME Base, (\E t \in txq : CancelSend(t)) \/ (\E vm \in VMs : VMDestroyed(vm))
    PROVE  Base'
<1>1. ASSUME NEW t \in txq, CancelSend(t) PROVE Base'
  <2>1. {t} \in SUBSET txq /\ SenderLives /\ Remove({t})
    BY <1>1 DEF CancelSend
  <2> QED BY <2>1, BaseRemove
<1>2. ASSUME NEW vm \in VMs, VMDestroyed(vm) PROVE Base'
  <2> DEFINE gone == {t \in txq : t.vm = vm /\ ~t.finishing}
  <2>1. gone \in SUBSET txq /\ SenderLives /\ Remove(gone)
    BY <1>2 DEF VMDestroyed
  <2> HIDE DEF gone
  <2> QED BY <2>1, BaseRemove
<1> QED BY <1>1, <1>2

\* The receiver as OnReceive finds it or makes it, and after a head.
LEMMA ReceiverTypes ==
    ASSUME TypeOK, NEW p \in Packet
    PROVE  /\ FreshRx \in RxItem /\ ~FreshRx.started /\ FreshRx.pos = 0
           /\ FreshRx.size = 0 /\ FreshRx.id = 0
           /\ \A r \in RxItem, n \in Nat : [r EXCEPT !.pos = @ + n] \in RxItem
           /\ \A r \in RxItem : ~HeadRefused(p, r) => Headed(p, r) \in RxItem
<1>1. session \in Nat
  BY DEF TypeOK
<1>2. 0 \in 0..PacketLimit
  BY SizesAssumption
<1>3. FreshRx \in RxItem
  BY <1>1, <1>2 DEF FreshRx, RxItem
<1>4. \A r \in RxItem, n \in Nat : [r EXCEPT !.pos = @ + n] \in RxItem
  BY DEF RxItem
<1>5. ASSUME NEW r \in RxItem, ~HeadRefused(p, r) PROVE Headed(p, r) \in RxItem
  <2>1. CASE p.kind = "head"
    <3>1. p.id \in Nat /\ p.size \in 0..PacketLimit
      <4>1. p.id \in Ids /\ p.size \in Sizes
        BY DEF Packet
      <4>2. Ids \subseteq Nat /\ Sizes \subseteq Nat
        BY SizesAssumption, BoundsAssumption DEF Ids
      <4>3. ~(p.size > PacketLimit)
        BY <1>5, <2>1 DEF HeadRefused
      <4>4. p.id \in Nat /\ p.size \in Nat /\ PacketLimit \in Nat
        BY <4>1, <4>2, SizesAssumption
      <4> HIDE DEF HeadRefused
      <4> QED BY <4>3, <4>4
    <3>2. \A a \in Nat, b \in 0..PacketLimit :
             [r EXCEPT !.started = TRUE, !.id = a, !.size = b, !.pos = 0, !.sess = session] \in RxItem
      BY <1>1 DEF RxItem
    <3> QED BY <2>1, <3>1, <3>2 DEF Headed
  <2>2. CASE p.kind # "head"
    BY <2>2 DEF Headed
  <2> QED BY <2>1, <2>2
<1> QED BY <1>3, <1>4, <1>5 DEF FreshRx

\* What Receive does: one case per path through OnReceive.
LEMMA ReceivePaths ==
    ASSUME Base, Receive,
           NEW p, p = Head(wire),
           NEW r, r = IF rx = NoRx THEN FreshRx ELSE rx,
           NEW item, item = Headed(p, r),
           NEW read, read = [item EXCEPT !.pos = @ + p.n]
    PROVE  /\ p \in Packet /\ p = wire[1] /\ wire' = Tail(wire) /\ wire # <<>>
           /\ ~inside /\ (down => connected)
           /\ r \in RxItem
           /\ \/ HeadRefused(p, r) /\ Fail(r)
              \/ /\ ~HeadRefused(p, r) /\ item \in RxItem
                 /\ PartRefused(p, item) /\ Fail(item)
              \/ /\ ~HeadRefused(p, r) /\ item \in RxItem /\ read \in RxItem
                 /\ ~PartRefused(p, item)
                 /\ \/ p.kind \in {"head", "body"} /\ rx' = read
                       /\ UNCHANGED <<present, inside, delivered, dropped>>
                    \/ p.kind = "cancel" /\ rx' = FreshRx
                       /\ UNCHANGED <<present, inside, delivered, dropped>>
                    \/ p.kind = "tail" /\ Finish(read)
           /\ UNCHANGED <<down, time, session, connected, txq, nextId, rate, cancelled>>
<1>1. p \in Packet /\ p = wire[1] /\ wire' = Tail(wire) /\ wire # <<>>
  BY BehindHead DEF Base, TypeOK, Receive
<1>2. r \in RxItem
  BY <1>1, ReceiverTypes DEF Base, TypeOK
<1>3. ~HeadRefused(p, r) => item \in RxItem /\ read \in RxItem
  <2>1. p.n \in Nat
    BY <1>1 DEF Packet
  <2> QED BY <1>1, <1>2, <2>1, ReceiverTypes DEF Base
<1> QED BY <1>1, <1>2, <1>3 DEF Receive, fixedVars, senderVars

LEMMA BaseReceive ==
    ASSUME Base, Receive
    PROVE  Base'
<1> DEFINE p == Head(wire)
           r == IF rx = NoRx THEN FreshRx ELSE rx
           item == Headed(p, r)
           read == [item EXCEPT !.pos = @ + p.n]
<1>1. /\ p \in Packet /\ p = wire[1] /\ wire' = Tail(wire) /\ wire # <<>>
      /\ ~inside /\ (down => connected)
      /\ r \in RxItem
      /\ \/ HeadRefused(p, r) /\ Fail(r)
         \/ /\ ~HeadRefused(p, r) /\ item \in RxItem
            /\ PartRefused(p, item) /\ Fail(item)
         \/ /\ ~HeadRefused(p, r) /\ item \in RxItem /\ read \in RxItem
            /\ ~PartRefused(p, item)
            /\ \/ p.kind \in {"head", "body"} /\ rx' = read
                  /\ UNCHANGED <<present, inside, delivered, dropped>>
               \/ p.kind = "cancel" /\ rx' = FreshRx
                  /\ UNCHANGED <<present, inside, delivered, dropped>>
               \/ p.kind = "tail" /\ Finish(read)
      /\ UNCHANGED <<down, time, session, connected, txq, nextId, rate, cancelled>>
  BY ReceivePaths
<1>2. FreshRx \in RxItem
  BY <1>1, ReceiverTypes DEF Base
<1> HIDE DEF p, r, item, read
<1> USE DEF Base
<1>9. /\ r.deferred = FALSE /\ FreshRx.deferred = FALSE
      /\ item \in RxItem => item.deferred = FALSE /\ read.deferred = FALSE
  <2>1. r.deferred = FALSE /\ FreshRx.deferred = FALSE
    BY <1>1 DEF r, FreshRx, NobodyNothing, TypeOK, RxItem
  <2>2. item.deferred = FALSE
    BY <1>1, <2>1 DEF item, Headed, RxItem
  <2>3. item \in RxItem => read.deferred = FALSE
    BY <2>2 DEF read, RxItem
  <2> QED BY <2>1, <2>2, <2>3
<1>3. /\ rx' \in RxItem \cup {NoRx}
      /\ rx' # NoRx => rx'.deferred = FALSE
      /\ present' \in BOOLEAN /\ dropped' \in BOOLEAN /\ inside' \in BOOLEAN
      /\ delivered' \subseteq Nat
      /\ (present' => present) /\ (down => present' = present)
      /\ (dropped' => dropped \/ down \/ ~present')
      /\ (inside' => /\ rx' \in RxItem /\ rx'.started /\ rx' = read
                     /\ (down \/ present) /\ present' = present)
  <2>1. ASSUME NEW x \in RxItem, x.deferred = FALSE, Fail(x)
        PROVE  /\ rx' \in RxItem \cup {NoRx}
               /\ rx' # NoRx => rx'.deferred = FALSE
               /\ present' \in BOOLEAN /\ dropped' \in BOOLEAN
               /\ (present' => present) /\ (down => present' = present)
               /\ (dropped' => dropped \/ down \/ ~present')
               /\ UNCHANGED <<inside, delivered>>
    BY <2>1 DEF Fail, TypeOK
  <2>2. CASE read \in RxItem /\ item \in RxItem /\ Finish(read)
    <3>1. read.id \in Nat
      BY <2>2 DEF RxItem
    <3> QED BY <1>1, <1>2, <1>9, <2>2, <3>1 DEF Finish, TypeOK
  <2>3. CASE \E x \in RxItem : x.deferred = FALSE /\ Fail(x)
    BY <1>1, <2>1, <2>3 DEF TypeOK
  <2>4. CASE /\ read \in RxItem /\ item \in RxItem /\ rx' = read
             /\ UNCHANGED <<present, inside, delivered, dropped>>
    BY <1>1, <1>9, <2>4 DEF TypeOK
  <2>5. CASE rx' = FreshRx /\ UNCHANGED <<present, inside, delivered, dropped>>
    BY <1>1, <1>2, <1>9, <2>5 DEF TypeOK
  <2> QED BY <1>1, <1>9, <2>2, <2>3, <2>4, <2>5
<1>4. TypeOK'
  <2>1. wire' \in Seq(Packet)
    BY <1>1, BehindHead DEF TypeOK
  <2> QED BY <1>1, <1>3, <2>1 DEF TypeOK
<1>5. OnlyFrontStarted' /\ RateIsCurrent' /\ IdsInOrder'
  BY <1>1 DEF OnlyFrontStarted, IsFront, RateIsCurrent, IdsInOrder
<1>6. ReceiverOutlivesHandler'
  BY <1>1, <1>3, NoRxAssumption DEF ReceiverOutlivesHandler
<1>7. NobodyNothing'
  BY <1>1, <1>3, NoRxAssumption DEF NobodyNothing, SenderLives
<1>8. PartsFit'
  <2>1. \A i \in 1..Len(wire') : wire'[i] = wire[i + 1] /\ i + 1 \in 1..Len(wire)
    BY <1>1, BehindHead DEF TypeOK
  <2> QED BY <2>1 DEF PartsFit
<1> QED BY <1>4, <1>5, <1>6, <1>7, <1>8

LEMMA BaseHandlerReturns ==
    ASSUME Base, HandlerReturns
    PROVE  Base'
<1> USE DEF Base
<1>1. FreshRx \in RxItem /\ FreshRx.deferred = FALSE
  <2>1. session \in Nat /\ 0 \in 0..PacketLimit
    BY SizesAssumption DEF TypeOK
  <2> QED BY <2>1 DEF FreshRx, RxItem
<1>2. rx' \in RxItem \cup {NoRx} /\ (rx' # NoRx => rx'.deferred = FALSE) /\ inside' = FALSE
  BY <1>1 DEF HandlerReturns
<1>3. UNCHANGED <<down, time, session, present, connected, txq, nextId, rate, wire,
                  delivered, cancelled, dropped>>
  BY DEF HandlerReturns, fixedVars, senderVars, historyVars
<1>4. TypeOK'
  BY <1>2, <1>3 DEF TypeOK
<1>5. OnlyFrontStarted' /\ RateIsCurrent' /\ IdsInOrder' /\ PartsFit'
  BY <1>3 DEF OnlyFrontStarted, IsFront, RateIsCurrent, IdsInOrder, PartsFit
<1>6. inside /\ (down => connected)
  BY DEF HandlerReturns, NobodyNothing
<1>7. ReceiverOutlivesHandler' /\ NobodyNothing'
  BY <1>2, <1>3, <1>6 DEF ReceiverOutlivesHandler, NobodyNothing, SenderLives
<1> QED BY <1>4, <1>5, <1>7

LEMMA BaseQuit ==
    ASSUME Base, Quit
    PROVE  Base'
<1> USE DEF Base
<1>1. UNCHANGED <<down, time, session, connected, nextId, wire, inside, delivered,
                  cancelled, dropped>> /\ present /\ present' = FALSE
  BY DEF Quit, fixedVars, historyVars
<1>2. \/ down /\ txq' = {} /\ rate' = 0 /\ rx' = rx
      \/ ~down /\ txq' = txq /\ rate' = rate
         /\ rx' = IF inside THEN [rx EXCEPT !.deferred = TRUE] ELSE NoRx
  BY DEF Quit
<1>3. inside /\ ~down => /\ rx' \in RxItem /\ rx'.deferred = TRUE /\ rx'.started
  <2>1. inside => rx \in RxItem /\ rx.started
    BY DEF NobodyNothing, TypeOK
  <2>2. \A x \in RxItem : /\ [x EXCEPT !.deferred = TRUE] \in RxItem
                          /\ [x EXCEPT !.deferred = TRUE].deferred = TRUE
                          /\ [x EXCEPT !.deferred = TRUE].started = x.started
    BY DEF RxItem
  <2> QED BY <1>2, <2>1, <2>2
<1>4. TypeOK'
  <2>1. rx' \in RxItem \cup {NoRx}
    BY <1>2, <1>3 DEF TypeOK
  <2>2. txq' \in SUBSET Item /\ rate' \in Nat
    BY <1>2 DEF TypeOK
  <2> QED BY <1>1, <2>1, <2>2 DEF TypeOK
<1>5. OnlyFrontStarted' /\ RateIsCurrent' /\ IdsInOrder' /\ PartsFit'
  BY <1>1, <1>2 DEF OnlyFrontStarted, IsFront, RateIsCurrent, IdsInOrder, PartsFit
<1>6. ReceiverOutlivesHandler'
  BY <1>1, <1>2, <1>3, NoRxAssumption DEF ReceiverOutlivesHandler
<1>7. NobodyNothing'
  BY <1>1, <1>2, <1>3, NoRxAssumption DEF NobodyNothing, SenderLives
<1> QED BY <1>4, <1>5, <1>6, <1>7

LEMMA BaseDrop ==
    ASSUME Base, Drop
    PROVE  Base'
<1> USE DEF Base
<1>1. UNCHANGED <<down, time, session, present, nextId, inside, delivered, cancelled,
                  dropped>> /\ connected' = FALSE /\ (down => ~inside)
  BY DEF Drop, fixedVars, historyVars
<1>2. \/ down /\ rx' = NoRx /\ wire' = <<>> /\ txq' = txq /\ rate' = rate
      \/ ~down /\ txq' = {} /\ rate' = 0 /\ rx' = rx
         /\ \E k \in 0..Len(wire) : wire' = SubSeq(wire, 1, k)
  BY DEF Drop
<1>3. /\ wire' \in Seq(Packet)
      /\ \A i \in 1..Len(wire') : i \in 1..Len(wire) /\ wire'[i] = wire[i]
  <2>1. CASE down
    BY <1>2, <2>1
  <2>2. CASE ~down
    <3>1. PICK k \in 0..Len(wire) : wire' = SubSeq(wire, 1, k)
      BY <1>2, <2>2
    <3>2. wire \in Seq(Packet)
      BY DEF TypeOK
    <3>3. /\ wire' \in Seq(Packet) /\ Len(wire') = k
          /\ \A i \in 1..k : wire'[i] = wire[i]
      BY <3>1, <3>2, PrefixOf
    <3>4. Len(wire) \in Nat
      BY <3>2
    <3> QED BY <3>3, <3>4
  <2> QED BY <2>1, <2>2
<1>4. TypeOK'
  <2>1. txq' \in SUBSET Item /\ rate' \in Nat /\ rx' \in RxItem \cup {NoRx}
    BY <1>2 DEF TypeOK
  <2> QED BY <1>1, <1>3, <2>1 DEF TypeOK
<1>5. OnlyFrontStarted' /\ RateIsCurrent' /\ IdsInOrder'
  BY <1>1, <1>2 DEF OnlyFrontStarted, IsFront, RateIsCurrent, IdsInOrder
<1>6. PartsFit'
  BY <1>3 DEF PartsFit
<1>7. ReceiverOutlivesHandler' /\ NobodyNothing'
  BY <1>1, <1>2 DEF ReceiverOutlivesHandler, NobodyNothing, SenderLives
<1> QED BY <1>4, <1>5, <1>6, <1>7

LEMMA BaseJoin ==
    ASSUME Base, Join
    PROVE  Base'
<1> USE DEF Base
<1>1. /\ UNCHANGED <<down, time, txq, rate, wire, rx, inside>>
      /\ ~present /\ ~connected /\ ~inside /\ wire = <<>>
      /\ session' = session + 1 /\ nextId' = 0 /\ present' = TRUE /\ connected' = TRUE
      /\ delivered' = {} /\ cancelled' = {} /\ dropped' = FALSE
  BY DEF Join, fixedVars, receiverVars
<1>2. txq = {}
  BY <1>1 DEF NobodyNothing, SenderLives
<1>3. TypeOK'
  <2>1. session' \in Nat /\ nextId' \in 0..MaxSends
    BY <1>1, BoundsAssumption DEF TypeOK
  <2> QED BY <1>1, <2>1 DEF TypeOK
<1>4. OnlyFrontStarted' /\ RateIsCurrent' /\ IdsInOrder' /\ PartsFit'
  BY <1>1, <1>2 DEF OnlyFrontStarted, IsFront, RateIsCurrent, IdsInOrder, PartsFit
<1>5. ReceiverOutlivesHandler' /\ NobodyNothing'
  BY <1>1, <1>2 DEF ReceiverOutlivesHandler, NobodyNothing, SenderLives
<1> QED BY <1>3, <1>4, <1>5

LEMMA BaseStutter ==
    ASSUME Base, UNCHANGED vars
    PROVE  Base'
BY DEF Base, vars, TypeOK, OnlyFrontStarted, IsFront, RateIsCurrent, ReceiverOutlivesHandler,
       IdsInOrder, NobodyNothing, SenderLives, PartsFit

LEMMA BaseStep == Base /\ [Next]_vars => Base'
<1> SUFFICES ASSUME Base, [Next]_vars PROVE Base'
  OBVIOUS
<1>1. ASSUME NEW vm \in VMs, NEW size \in Sizes, NEW r \in Rates, AddSend(vm, size, r) PROVE Base'
  BY <1>1, BaseAddSend
<1>2. CASE PulseIdle
  BY <1>2, BasePulseIdle
<1>3. CASE PulseSend
  BY <1>3, BasePulseSend
<1>4. CASE (\E t \in txq : CancelSend(t)) \/ (\E vm \in VMs : VMDestroyed(vm))
  BY <1>4, BaseCancels
<1>5. CASE Receive
  BY <1>5, BaseReceive
<1>6. CASE HandlerReturns
  BY <1>6, BaseHandlerReturns
<1>7. CASE Quit
  BY <1>7, BaseQuit
<1>8. CASE Drop
  BY <1>8, BaseDrop
<1>9. CASE Join
  BY <1>9, BaseJoin
<1>10. CASE UNCHANGED vars
  BY <1>10, BaseStutter
<1> QED BY <1>1, <1>2, <1>3, <1>4, <1>5, <1>6, <1>7, <1>8, <1>9, <1>10 DEF Next

LEMMA AlwaysBase == Spec => []Base
BY BaseInit, BaseStep, PTL DEF Spec

\* Every state of a latent transfer is a state of the types declared for it
\* (CLatentSendQueue, CLatentReceiver; an event over the limit never makes the
\* receiver allocate its buffer).
THEOREM TypeCorrect == Spec => []TypeOK
BY AlwaysBase, PTL DEF Base

\* Only the front of a send queue is ever being sent (CLatentSendQueue::DoPulse).
THEOREM FrontFirst == Spec => []OnlyFrontStarted
BY AlwaysBase, PTL DEF Base

\* The cached rate of a queue is the one its items ask for (PostQueueRemove).
THEOREM RateCorrect == Spec => []RateIsCurrent
BY AlwaysBase, PTL DEF Base

\* A receiver outlives the handler it is running (RemoveRemote, OnReceive).
THEOREM HandlerSafe == Spec => []ReceiverOutlivesHandler
BY AlwaysBase, PTL DEF Base

-----------------------------------------------------------------------------
(* The two ends in step.                                                    *)

\* Half a transfer of an earlier player: it is there while a server waits for
\* the first head of the player who has the address now.
Sessions == /\ rx # NoRx => rx.sess <= session
            /\ Leftover => ~down /\ ~inside
LeftoverWaits == Leftover /\ present =>
                    IF wire = <<>> THEN connected => ~\E t \in txq : Sending(t)
                    ELSE wire[1].kind = "head"

Steps == Base /\ InStep /\ Sessions /\ LeftoverWaits

\* A step that leaves the wire, the receiver and what is being sent as they are.
LEMMA StepsKept ==
    ASSUME Steps, Base', UNCHANGED <<down, session, present, connected, wire, rx, inside, dropped>>,
           \A t : Sending(t)' <=> Sending(t)
    PROVE  Steps'
<1>1. /\ Receiving' <=> Receiving
      /\ Leftover' <=> Leftover
      /\ SenderLives' <=> SenderLives
      /\ ReceiverLives' <=> ReceiverLives
      /\ \A t : Refused(t)' <=> Refused(t)
  BY DEF Receiving, Leftover, SenderLives, ReceiverLives, Refused
<1>2. /\ (\E t \in txq' : Sending(t)') <=> (\E t \in txq : Sending(t))
      /\ \A a, b, c : (\E t \in txq' : Sending(t)' /\ t.id = a /\ t.size = b /\ t.pos = c)
                         <=> (\E t \in txq : Sending(t) /\ t.id = a /\ t.size = b /\ t.pos = c)
  BY DEF Sending
<1>3. WireInStep' /\ ReceiverInStep'
  BY <1>1 DEF Steps, InStep, WireInStep, ReceiverInStep, Follows, Expected
<1>4. \A q : Continued(q)' <=> Continued(q)
  BY <1>2 DEF Continued
<1>5. SenderInStep'
  BY <1>1, <1>4 DEF Steps, InStep, SenderInStep
<1>6. EndsInStep'
  BY <1>1, <1>2 DEF Steps, InStep, EndsInStep, Sending
<1>7. Sessions' /\ LeftoverWaits'
  BY <1>1, <1>2 DEF Steps, Sessions, LeftoverWaits
<1> QED BY <1>3, <1>5, <1>6, <1>7 DEF Steps, InStep

\* At most one item is being sent, the front.
LEMMA OneSending ==
    ASSUME Base, NEW s, NEW t, Sending(s), Sending(t)
    PROVE  s = t
<1>1. s \in Item /\ t \in Item /\ s \in txq /\ t \in txq
  BY DEF Sending, Base, TypeOK
<1>2. s.id \in Nat /\ t.id \in Nat
  BY <1>1, ItemParts
<1>3. s.id <= t.id /\ t.id <= s.id
  BY <1>1 DEF Sending, Base, OnlyFrontStarted, IsFront
<1> QED BY <1>1, <1>2, <1>3 DEF Base, IdsInOrder

LEMMA StepsAddSend ==
    ASSUME Steps, NEW vm \in VMs, NEW size \in Sizes, NEW r \in Rates, AddSend(vm, size, r)
    PROVE  Steps'
<1>1. Base'
  BY BaseAddSend DEF Steps
<1>2. \A t : Sending(t)' <=> Sending(t)
  <2> DEFINE new == [id |-> nextId, vm |-> vm, size |-> size, rate |-> r,
                     pos |-> 0, started |-> FALSE, finishing |-> FALSE]
  <2>1. ~new.started /\ txq' = txq \cup {new}
    BY DEF AddSend
  <2> HIDE DEF new
  <2> QED BY <2>1 DEF Sending
<1> QED BY <1>1, <1>2, StepsKept DEF AddSend, fixedVars, receiverVars, historyVars

LEMMA StepsPulseIdle ==
    ASSUME Steps, PulseIdle
    PROVE  Steps'
<1>1. Base'
  BY BasePulseIdle DEF Steps
<1>2. \A t : Sending(t)' <=> Sending(t)
  BY DEF Sending, PulseIdle, Settled
<1> QED BY <1>1, <1>2, StepsKept DEF PulseIdle, fixedVars, receiverVars, historyVars

\* What a packet that continues the wire does to it, if there is a client.
LEMMA StepsPut ==
    ASSUME Steps, Base', SenderLives, NEW p \in Packet, Put(<<p>>),
           UNCHANGED <<down, session, present, connected, rx, inside, dropped>>,
           wire # <<>> /\ connected => Follows(wire[Len(wire)], p),
           wire = <<>> /\ present /\ connected /\ ~Leftover => Expected(p),
           wire = <<>> /\ present /\ connected /\ Leftover => p.kind = "head",
           connected => Continued(p)'
    PROVE  Steps'
<1>1. /\ Receiving' <=> Receiving
      /\ Leftover' <=> Leftover
      /\ SenderLives' <=> SenderLives
      /\ ReceiverLives' <=> ReceiverLives
      /\ \A t : Refused(t)' <=> Refused(t)
      /\ \A t : Expected(t)' <=> Expected(t)
  BY DEF Receiving, Leftover, SenderLives, ReceiverLives, Refused, Expected
<1>2. CASE connected
  <2>1. /\ wire' # <<>> /\ Len(wire') = Len(wire) + 1 /\ wire'[Len(wire')] = p
        /\ \A i \in 1..Len(wire) : wire'[i] = wire[i]
        /\ Len(wire) \in Nat /\ (wire = <<>> <=> Len(wire) = 0)
    BY <1>2, PutProps DEF Steps, Base, TypeOK
  <2>2. WireInStep'
    <3>1. ASSUME NEW i \in 1..(Len(wire') - 1) PROVE Follows(wire'[i], wire'[i + 1])
      <4>1. CASE i = Len(wire)
        BY <1>2, <2>1, <4>1
      <4>2. CASE i # Len(wire)
        <5>1. i \in 1..(Len(wire) - 1) /\ i \in 1..Len(wire) /\ i + 1 \in 1..Len(wire)
          BY <2>1, <4>2
        <5> QED BY <2>1, <5>1 DEF Steps, InStep, WireInStep
      <4> QED BY <4>1, <4>2
    <3> QED BY <3>1 DEF WireInStep, Follows
  <2>3. ReceiverInStep'
    <3>1. CASE wire = <<>>
      <4>1. wire'[1] = p
        BY <2>1, <3>1
      <4>2. ReceiverLives => present /\ connected
        BY <1>2 DEF ReceiverLives, SenderLives
      <4> QED BY <1>1, <3>1, <4>1, <4>2 DEF ReceiverInStep
    <3>2. CASE wire # <<>>
      <4>1. wire'[1] = wire[1]
        BY <2>1, <3>2
      <4> QED BY <1>1, <3>2, <4>1 DEF Steps, InStep, ReceiverInStep
    <3> QED BY <3>1, <3>2
  <2>4. SenderInStep' /\ EndsInStep'
    BY <1>2, <2>1 DEF SenderInStep, EndsInStep, Continued
  <2>5. Sessions'
    BY <1>1 DEF Steps, Sessions
  <2>6. LeftoverWaits'
    <3>1. wire'[1] = IF wire = <<>> THEN p ELSE wire[1]
      BY <2>1
    <3> QED BY <1>1, <1>2, <2>1, <3>1 DEF Steps, LeftoverWaits
  <2> QED BY <2>2, <2>3, <2>4, <2>5, <2>6 DEF Steps, InStep
<1>3. CASE ~connected
  <2>1. wire' = wire /\ ~connected'
    BY <1>3, PutProps DEF Steps, Base
  <2>2. WireInStep' /\ ReceiverInStep'
    BY <1>1, <2>1 DEF Steps, InStep, WireInStep, ReceiverInStep, Follows
  <2>3. SenderInStep' /\ EndsInStep' /\ Sessions' /\ LeftoverWaits'
    BY <1>1, <2>1 DEF Steps, SenderInStep, EndsInStep, Sessions, LeftoverWaits
  <2> QED BY <2>2, <2>3 DEF Steps, InStep
<1> QED BY <1>2, <1>3

LEMMA StepsPulseSend ==
    ASSUME Steps, PulseSend
    PROVE  Steps'
<1>1. PICK t, n :
         /\ t \in Settled(txq) /\ n \in PartSizes(t)
         /\ IsFront(t, Settled(txq)) /\ ~t.finishing
         /\ txq' = (Settled(txq) \ {t}) \cup {Sent(t, n)}
         /\ Put(<<Part(t, n)>>)
  BY DEF PulseSend
<1>2. Base /\ Base' /\ SenderLives
  BY BasePulseSend DEF Steps, PulseSend
<1>3. /\ UNCHANGED <<down, session, present, connected, rx, inside, dropped>>
      /\ Settled(txq) \subseteq txq
  BY DEF PulseSend, fixedVars, receiverVars, historyVars, Settled
<1>4. t \in Item /\ t \in txq /\ t.pos <= t.size /\ (t.started <=> t.pos > 0)
  BY <1>1, <1>2, <1>3 DEF Base, TypeOK, OnlyFrontStarted
<1>5. t.pos \in Nat /\ t.id \in Nat
  BY <1>4, ItemParts
<1>6. /\ Part(t, n) \in Packet
      /\ Sent(t, n) \in Item
      /\ Sent(t, n).id = t.id /\ Sent(t, n).size = t.size
      /\ Sent(t, n).pos = t.pos + n
      /\ Sent(t, n).started
      /\ Sent(t, n).finishing <=> PartKind(t) = "tail"
      /\ PartKind(t) = "head" <=> t.pos = 0
  BY <1>1, <1>4, <1>5, PartType
<1>7. /\ Part(t, n).pos = t.pos /\ Part(t, n).n = n /\ Part(t, n).size = t.size
      /\ Part(t, n).id = t.id
      /\ Part(t, n).kind = PartKind(t) /\ PartKind(t) \in {"head", "body", "tail"}
  BY DEF Part, PartKind
<1>8. ASSUME NEW s \in txq, s.started, ~s.finishing PROVE s = t
  <2>1. s \in Settled(txq) /\ s.id \in Nat
    BY <1>2, <1>8, ItemParts DEF Settled, Base, TypeOK
  <2>2. s.id <= t.id /\ t.id <= s.id
    BY <1>1, <1>2, <1>4, <1>8, <2>1 DEF Base, OnlyFrontStarted, IsFront
  <2> QED BY <1>2, <1>4, <1>5, <2>1, <2>2 DEF Base, IdsInOrder
<1>9. t.started => Sending(t)
  BY <1>1, <1>4 DEF Sending
<1>10. wire # <<>> /\ connected => Follows(wire[Len(wire)], Part(t, n))
  <2>1. wire # <<>> /\ connected => Continued(wire[Len(wire)])
    BY <1>2 DEF Steps, InStep, SenderInStep
  <2>2. wire # <<>> => wire[Len(wire)] \in Packet
    BY <1>2 DEF Base, TypeOK
  <2> QED BY <1>4, <1>5, <1>6, <1>7, <1>8, <1>9, <2>1, <2>2 DEF Continued, Follows, Sending, Packet
<1>11. wire = <<>> /\ present /\ connected /\ ~Leftover => Expected(Part(t, n))
  <2> SUFFICES ASSUME wire = <<>>, present, connected, ~Leftover PROVE Expected(Part(t, n))
    OBVIOUS
  <2>1. IF Receiving THEN \E u \in txq : /\ Sending(u) /\ u.id = rx.id
                                         /\ u.size = rx.size /\ u.pos = rx.pos
        ELSE \A u \in txq : Sending(u) => Refused(u)
    BY DEF Steps, InStep, EndsInStep
  <2>2. CASE Receiving
    BY <1>4, <1>5, <1>6, <1>7, <1>8, <2>1, <2>2 DEF Expected, Sending
  <2>3. CASE ~Receiving
    BY <1>4, <1>5, <1>6, <1>7, <1>9, <2>1, <2>3 DEF Expected, Refused
  <2> QED BY <2>2, <2>3
<1>12. wire = <<>> /\ present /\ connected /\ Leftover => Part(t, n).kind = "head"
  BY <1>4, <1>5, <1>6, <1>7, <1>9 DEF Steps, LeftoverWaits
<1>13. Continued(Part(t, n))'
  <2>1. \A u \in txq' : u.started /\ ~u.finishing => u = Sent(t, n)
    BY <1>1, <1>3, <1>8
  <2>2. CASE PartKind(t) = "tail"
    BY <1>1, <1>6, <1>7, <2>1, <2>2 DEF Continued, Sending
  <2>3. CASE PartKind(t) # "tail"
    BY <1>1, <1>6, <1>7, <2>3 DEF Continued, Sending
  <2> QED BY <2>2, <2>3
<1> QED BY <1>1, <1>2, <1>3, <1>6, <1>10, <1>11, <1>12, <1>13, StepsPut

LEMMA StepsRemove ==
    ASSUME Steps, NEW gone \in SUBSET txq, \A t \in gone : t.started => ~t.finishing,
           SenderLives, Remove(gone)
    PROVE  Steps'
<1>1. Base /\ Base'
  BY BaseRemove DEF Steps
<1>2. /\ UNCHANGED <<down, session, present, connected, rx, inside, dropped>>
      /\ txq' = txq \ gone
  BY DEF Remove, fixedVars, receiverVars
<1>3. CASE (\A t \in gone : ~t.started) /\ UNCHANGED wire
  <2>1. \A t : Sending(t)' <=> Sending(t)
    BY <1>2, <1>3 DEF Sending
  <2> QED BY <1>1, <1>2, <1>3, <2>1, StepsKept
<1>4. CASE \E t \in gone : t.started /\ Put(<<CancelPacket(t)>>)
  <2>1. PICK t \in gone : t.started /\ Put(<<CancelPacket(t)>>)
    BY <1>4
  <2>2. Sending(t) /\ t \in Item /\ t.pos \in Nat
    BY <1>1, <2>1, ItemParts DEF Sending, Base, TypeOK
  <2>3. /\ CancelPacket(t).kind = "cancel" /\ CancelPacket(t).id = t.id
        /\ CancelPacket(t).size = t.size /\ CancelPacket(t).pos = t.pos
        /\ CancelPacket(t) \in Packet
    BY <2>2, ItemParts DEF CancelPacket, Packet
  <2>4. \A s \in txq : Sending(s) => s = t
    BY <1>1, <2>2, OneSending
  <2>5. wire # <<>> /\ connected => Follows(wire[Len(wire)], CancelPacket(t))
    <3>1. wire # <<>> /\ connected => Continued(wire[Len(wire)])
      BY DEF Steps, InStep, SenderInStep
    <3>2. wire # <<>> => wire[Len(wire)] \in Packet
      BY <1>1 DEF Base, TypeOK
    <3>3. t \in txq
      BY <2>2 DEF Sending
    <3> QED BY <2>2, <2>3, <2>4, <3>1, <3>2, <3>3 DEF Continued, Follows, Packet
  <2>6. wire = <<>> /\ present /\ connected /\ ~Leftover => Expected(CancelPacket(t))
    BY <2>2, <2>3, <2>4 DEF Steps, InStep, EndsInStep, Expected, Refused
  <2>7. ~(wire = <<>> /\ present /\ connected /\ Leftover)
    BY <2>2 DEF Steps, LeftoverWaits, Sending
  <2>8. Continued(CancelPacket(t))'
    BY <1>2, <2>1, <2>3, <2>4 DEF Continued, Sending
  <2> QED BY <1>1, <1>2, <2>1, <2>3, <2>5, <2>6, <2>7, <2>8, StepsPut
<1> QED BY <1>3, <1>4 DEF Remove

\* What has been received when OnReceive is done with a packet, while the
\* player is still there: the packet up to its end, or nothing of a transfer
\* that was refused.
LEMMA ReceivedUpTo ==
    ASSUME Steps, Receive, ReceiverLives', ~Leftover', NEW p, p = wire[1]
    PROVE  IF Receiving'
           THEN /\ p.kind \in {"head", "body"}
                /\ rx'.id = p.id /\ rx'.size = p.size /\ rx'.pos = p.pos + p.n
           ELSE p.kind \in {"tail", "cancel"} \/ Refused(p)'
<1> DEFINE r == IF rx = NoRx THEN FreshRx ELSE rx
           item == Headed(p, r)
           read == [item EXCEPT !.pos = @ + p.n]
<1>1. Base /\ TypeOK
  BY DEF Steps, Base
<1>2. p = Head(wire)
  BY <1>1, BehindHead DEF Receive, TypeOK
<1>3. /\ p \in Packet /\ wire # <<>> /\ ~inside /\ (down => connected)
      /\ r \in RxItem
      /\ \/ HeadRefused(p, r) /\ Fail(r)
         \/ /\ ~HeadRefused(p, r) /\ item \in RxItem
            /\ PartRefused(p, item) /\ Fail(item)
         \/ /\ ~HeadRefused(p, r) /\ item \in RxItem /\ read \in RxItem
            /\ ~PartRefused(p, item)
            /\ \/ p.kind \in {"head", "body"} /\ rx' = read
                  /\ UNCHANGED <<present, inside, delivered, dropped>>
               \/ p.kind = "cancel" /\ rx' = FreshRx
                  /\ UNCHANGED <<present, inside, delivered, dropped>>
               \/ p.kind = "tail" /\ Finish(read)
      /\ UNCHANGED <<down, time, session, connected, txq, nextId, rate, cancelled>>
  BY <1>1, <1>2, ReceivePaths
<1>4. FreshRx \in RxItem /\ ~FreshRx.started /\ FreshRx.pos = 0 /\ FreshRx.size = 0
  BY <1>1, <1>3, ReceiverTypes
<1>5. /\ p.kind \in {"head", "body", "tail", "cancel"}
      /\ p.id \in Nat /\ p.size \in Nat /\ p.pos \in Nat /\ p.n \in Nat
  <2>1. Ids \subseteq Nat /\ Sizes \subseteq Nat
    BY BoundsAssumption, SizesAssumption DEF Ids
  <2> QED BY <1>3, <2>1 DEF Packet
<1>6. /\ p.pos + p.n <= p.size
      /\ p.kind = "head" => p.pos = 0
      /\ p.kind = "tail" => p.pos = p.size /\ p.n = 0
  <2>1. 1 \in 1..Len(wire)
    BY <1>1, <1>3 DEF TypeOK
  <2> QED BY <1>1, <2>1 DEF Base, PartsFit
<1>7. ASSUME NEW x, Fail(x) PROVE /\ down /\ rx' = x /\ dropped' /\ inside' = inside
                                 /\ present' = present
  BY <1>3, <1>7 DEF Fail, ReceiverLives
<1>8. read.started = item.started /\ read.id = item.id /\ read.size = item.size
      /\ read.sess = item.sess /\ (item \in RxItem => read.pos = item.pos + p.n)
  BY DEF read, item, Headed, RxItem
<1> HIDE DEF r, item, read
<1>9. present' => present
  BY <1>3 DEF Fail, Finish
<1>10. ReceiverLives
  BY <1>3, <1>9 DEF ReceiverLives
<1>11. CASE Leftover
  <2>1. ~down /\ present
    BY <1>10, <1>11 DEF Steps, Sessions, ReceiverLives
  <2>2. p.kind = "head" /\ r = rx /\ r.started
    BY <1>3, <1>11, <2>1 DEF Steps, LeftoverWaits, Leftover, r
  <2>3. HeadRefused(p, r)
    BY <2>2 DEF HeadRefused
  <2> QED BY <1>3, <1>7, <2>1, <2>3
<1>12. CASE ~Leftover
  <2>1. Expected(p)
    BY <1>3, <1>10, <1>12 DEF Steps, InStep, ReceiverInStep
  <2>2. CASE Receiving
    <3>1. /\ p.kind # "head" /\ p.id = rx.id /\ p.size = rx.size /\ p.pos = rx.pos
          /\ rx # NoRx /\ rx.started /\ r = rx
      BY <2>1, <2>2 DEF Expected, Receiving, r
    <3>2. item = rx /\ ~HeadRefused(p, r)
      BY <3>1 DEF item, Headed, HeadRefused
    <3>3. ~PartRefused(p, item)
      BY <1>5, <1>6, <3>1, <3>2 DEF PartRefused
    <3>4. /\ read.started /\ read.id = p.id /\ read.size = p.size /\ read.pos = p.pos + p.n
      BY <1>3, <1>8, <3>1, <3>2, <3>3
    <3>5. CASE p.kind = "tail"
      <4>1. down \/ present
        BY <1>10 DEF ReceiverLives
      <4> QED BY <1>3, <3>2, <3>3, <3>4, <3>5, <4>1 DEF Finish, Receiving
    <3>6. CASE p.kind = "cancel"
      BY <1>3, <1>4, <3>2, <3>3, <3>6 DEF Receiving
    <3>7. CASE p.kind = "body"
      <4>1. rx' = read /\ inside' = inside /\ read \in RxItem
        BY <1>3, <3>2, <3>3, <3>7
      <4>2. Receiving'
        BY <1>3, <3>4, <4>1, NoRxAssumption DEF Receiving
      <4> QED BY <3>4, <3>7, <4>1, <4>2
    <3> QED BY <1>5, <3>1, <3>5, <3>6, <3>7
  <2>3. CASE ~Receiving
    <3>1. ~r.started
      BY <1>3, <1>4, <2>3 DEF Receiving, r
    <3>2. CASE p.kind = "head"
      <4>1. CASE p.size > PacketLimit
        <5>1. HeadRefused(p, r)
          BY <3>2, <4>1 DEF HeadRefused
        <5>2. down /\ dropped' /\ rx' = r
          BY <1>3, <1>7, <5>1
        <5> QED BY <1>3, <3>1, <4>1, <5>2 DEF Receiving, Refused
      <4>2. CASE ~(p.size > PacketLimit)
        <5>1. ~HeadRefused(p, r)
          BY <3>1, <4>2 DEF HeadRefused
        <5>2. item.started /\ item.id = p.id /\ item.size = p.size /\ item.pos = 0
          BY <1>3, <3>2 DEF item, Headed, RxItem
        <5>3. ~PartRefused(p, item)
          BY <1>5, <1>6, <3>2, <5>2 DEF PartRefused
        <5>4. rx' = read /\ read \in RxItem /\ item \in RxItem /\ inside' = inside
          BY <1>3, <3>2, <5>1, <5>3
        <5>5. Receiving'
          BY <1>3, <1>8, <5>2, <5>4, NoRxAssumption DEF Receiving
        <5> QED BY <5>5, <1>5, <1>6, <1>8, <3>2, <5>2, <5>4
      <4> QED BY <4>1, <4>2
    <3>3. CASE p.kind # "head"
      <4>1. Refused(p) /\ item = r /\ ~HeadRefused(p, r)
        BY <2>1, <2>3, <3>3 DEF Expected, item, Headed, HeadRefused
      <4>2. Refused(p)' /\ ~Receiving'
        <5>1. CASE PartRefused(p, item)
          BY <1>3, <1>7, <3>1, <4>1, <5>1 DEF Refused, Receiving
        <5>2. CASE ~PartRefused(p, item)
          BY <1>3, <1>4, <1>8, <3>1, <4>1, <5>2 DEF Refused, Receiving, Finish
        <5> QED BY <5>1, <5>2
      <4> QED BY <4>2
    <3> QED BY <3>2, <3>3
  <2> QED BY <2>2, <2>3
<1> QED BY <1>11, <1>12

\* OnReceive never leaves half a transfer that belongs to another session.
LEMMA SessionsReceive ==
    ASSUME Steps, Receive
    PROVE  /\ Sessions'
           /\ Leftover' => Leftover
<1> DEFINE p == Head(wire)
           r == IF rx = NoRx THEN FreshRx ELSE rx
           item == Headed(p, r)
           read == [item EXCEPT !.pos = @ + p.n]
<1>1. Base /\ TypeOK /\ session \in Nat
  BY DEF Steps, Base, TypeOK
<1>2. /\ p = wire[1] /\ wire # <<>> /\ ~inside /\ (down => connected)
      /\ r \in RxItem
      /\ \/ HeadRefused(p, r) /\ Fail(r)
         \/ /\ ~HeadRefused(p, r) /\ item \in RxItem
            /\ PartRefused(p, item) /\ Fail(item)
         \/ /\ ~HeadRefused(p, r) /\ item \in RxItem /\ read \in RxItem
            /\ ~PartRefused(p, item)
            /\ \/ p.kind \in {"head", "body"} /\ rx' = read
                  /\ UNCHANGED <<present, inside, delivered, dropped>>
               \/ p.kind = "cancel" /\ rx' = FreshRx
                  /\ UNCHANGED <<present, inside, delivered, dropped>>
               \/ p.kind = "tail" /\ Finish(read)
      /\ UNCHANGED <<down, time, session, connected, txq, nextId, rate, cancelled>>
  BY <1>1, ReceivePaths
<1>3. FreshRx.sess = session /\ ~FreshRx.started
  BY DEF FreshRx
<1>4. r.sess <= session /\ (r.started /\ r.sess # session => Leftover /\ rx = r)
  BY <1>1, <1>3 DEF Steps, Sessions, r, Leftover
<1>5. /\ read.sess = item.sess /\ read.started = item.started
      /\ (item.sess = session /\ item.started) \/ item = r
  BY <1>2 DEF read, item, Headed, RxItem
<1>6. ASSUME Leftover, present
      PROVE  HeadRefused(p, r)
  <2>1. p.kind = "head" /\ r = rx /\ r.started
    BY <1>2, <1>6 DEF Steps, LeftoverWaits, Leftover, r
  <2> QED BY <2>1 DEF HeadRefused
<1> HIDE DEF p, r, item, read
<1>7. rx' # NoRx => rx'.sess <= session
  BY <1>1, <1>2, <1>3, <1>4, <1>5 DEF Fail, Finish
<1>8. Leftover' => Leftover
  BY <1>2, <1>3, <1>4, <1>5 DEF Fail, Finish, Leftover
<1>9. Leftover => ~down
  BY DEF Steps, Sessions
<1>10. Leftover => ~inside'
  BY <1>2, <1>6, <1>9 DEF Fail, Finish
<1> QED BY <1>2, <1>7, <1>8, <1>9, <1>10 DEF Sessions

LEMMA StepsReceive ==
    ASSUME Steps, Receive
    PROVE  Steps'
<1>1. Base /\ Base' /\ TypeOK
  BY BaseReceive DEF Steps, Base
<1>2. /\ wire # <<>> /\ wire' = Tail(wire) /\ wire[1] \in Packet
      /\ UNCHANGED <<down, session, connected, txq>>
      /\ Len(wire') = Len(wire) - 1 /\ Len(wire) \in Nat \ {0}
      /\ \A i \in 1..Len(wire') : wire'[i] = wire[i + 1]
      /\ present' => present
  BY <1>1, BehindHead DEF Receive, TypeOK, fixedVars, senderVars, Fail, Finish
<1>3. Sessions' /\ (Leftover' => Leftover)
  BY SessionsReceive
<1> PICK p : p = wire[1]
  OBVIOUS
<1>4. ReceiverLives' /\ ~Leftover' =>
         IF Receiving'
         THEN /\ p.kind \in {"head", "body"}
              /\ rx'.id = p.id /\ rx'.size = p.size /\ rx'.pos = p.pos + p.n
         ELSE p.kind \in {"tail", "cancel"} \/ Refused(p)'
  BY ReceivedUpTo
<1>5. WireInStep'
  <2>1. \A i \in 1..(Len(wire') - 1) : Follows(wire[i + 1], wire[i + 2])
    <3>1. ASSUME NEW i \in 1..(Len(wire') - 1) PROVE Follows(wire[i + 1], wire[(i + 1) + 1])
      <4>1. i + 1 \in 1..(Len(wire) - 1)
        BY <1>2
      <4> QED BY <4>1 DEF Steps, InStep, WireInStep
    <3> QED BY <3>1
  <2>2. \A i \in 1..(Len(wire') - 1) : /\ wire'[i] = wire[i + 1]
                                       /\ wire'[i + 1] = wire[i + 2]
    BY <1>2
  <2> QED BY <2>1, <2>2 DEF WireInStep, Follows
<1>6. ReceiverInStep'
  <2> SUFFICES ASSUME wire' # <<>>, ReceiverLives', ~Leftover'
               PROVE  Expected(wire[1])'
    BY DEF ReceiverInStep
  <2>1. Len(wire) > 1
    BY <1>1, <1>2 DEF Base, TypeOK
  <2>2. wire'[1] = wire[2] /\ Follows(wire[1], wire[2])
    BY <1>2, <2>1 DEF Steps, InStep, WireInStep
  <2> QED BY <1>2, <1>4, <2>2 DEF Follows, Expected, Refused
<1>7. SenderInStep'
  <2> SUFFICES ASSUME wire' # <<>>, connected', SenderLives'
               PROVE  Continued(wire[Len(wire)])'
    BY DEF SenderInStep
  <2>1. Len(wire) > 1
    BY <1>1, <1>2 DEF Base, TypeOK
  <2>2. wire'[Len(wire')] = wire[Len(wire)]
    BY <1>2, <2>1
  <2>3. Continued(wire[Len(wire)])
    BY <1>2 DEF Steps, InStep, SenderInStep, SenderLives
  <2> QED BY <1>2, <2>2, <2>3 DEF Continued, Sending
<1>8. EndsInStep'
  <2> SUFFICES ASSUME wire' = <<>>, present', connected', ~Leftover'
               PROVE  IF Receiving' THEN \E t \in txq' : /\ Sending(t)' /\ t.id = rx'.id
                                                         /\ t.size = rx'.size /\ t.pos = rx'.pos
                      ELSE \A t \in txq' : Sending(t)' => Refused(t)'
    BY DEF EndsInStep
  <2>1. Len(wire) = 1
    BY <1>2
  <2>2. Continued(wire[1])
    BY <1>2, <2>1 DEF Steps, InStep, SenderInStep, SenderLives
  <2>3. ReceiverLives'
    BY DEF ReceiverLives
  <2>4. \A t : Sending(t)' <=> Sending(t)
    BY <1>2 DEF Sending
  <2>5. CASE Receiving'
    BY <1>2, <1>3, <1>4, <2>2, <2>3, <2>4, <2>5 DEF Continued
  <2>6. CASE ~Receiving'
    <3>1. p.kind \in {"tail", "cancel"} \/ Refused(p)'
      BY <1>4, <2>3, <2>6
    <3>2. \A t \in txq : Sending(t) =>
             p.kind \notin {"tail", "cancel"} /\ t.size = p.size
      <4>1. Continued(p)
        BY <2>2
      <4> QED BY <1>1, <4>1, OneSending DEF Continued
    <3>3. \A t \in txq : Sending(t) => Refused(t)'
      BY <1>2, <3>1, <3>2 DEF Refused
    <3> QED BY <1>2, <2>4, <2>6, <3>3
  <2> QED BY <2>5, <2>6
<1>9. LeftoverWaits'
  <2> SUFFICES ASSUME Leftover', present' PROVE FALSE
    BY DEF LeftoverWaits
  <2>1. Leftover /\ present /\ ~down
    BY <1>2, <1>3 DEF Steps, Sessions
  <2>2. wire[1].kind = "head" /\ rx # NoRx /\ rx.started
    BY <1>2, <2>1 DEF Steps, LeftoverWaits, Leftover
  <2>3. HeadRefused(Head(wire), rx)
    BY <1>1, <1>2, <2>2, BehindHead DEF HeadRefused, TypeOK
  <2> QED BY <2>1, <2>2, <2>3 DEF Receive, Fail
<1> QED BY <1>1, <1>3, <1>5, <1>6, <1>7, <1>8, <1>9 DEF Steps, InStep

LEMMA StepsHandlerReturns ==
    ASSUME Steps, HandlerReturns
    PROVE  Steps'
<1>1. Base /\ Base'
  BY BaseHandlerReturns DEF Steps
<1>2. /\ inside /\ ~inside' /\ rx' \in {NoRx, FreshRx}
      /\ UNCHANGED <<down, session, present, connected, txq, wire, dropped>>
  BY DEF HandlerReturns, fixedVars, senderVars, historyVars
<1>3. FreshRx.sess = session /\ ~FreshRx.started
  BY DEF FreshRx
<1>4. ~Receiving /\ ~Receiving' /\ ~Leftover'
  BY <1>2, <1>3 DEF Receiving, Leftover
<1>5. ~Leftover
  BY <1>2 DEF Steps, Sessions
<1>6. /\ SenderLives' <=> SenderLives
      /\ ReceiverLives' <=> ReceiverLives
      /\ \A t : Refused(t)' <=> Refused(t)
      /\ \A t : Sending(t)' <=> Sending(t)
  BY <1>2 DEF SenderLives, ReceiverLives, Refused, Sending
<1>7. WireInStep' /\ ReceiverInStep'
  BY <1>2, <1>4, <1>5, <1>6 DEF Steps, InStep, WireInStep, ReceiverInStep, Follows, Expected
<1>8. SenderInStep'
  <2>1. \A q : Continued(q)' <=> Continued(q)
    BY <1>2, <1>6 DEF Continued
  <2> QED BY <1>2, <1>6, <2>1 DEF Steps, InStep, SenderInStep
<1>9. EndsInStep'
  BY <1>2, <1>4, <1>5, <1>6 DEF Steps, InStep, EndsInStep
<1>10. Sessions' /\ LeftoverWaits'
  <2>1. session \in Nat
    BY <1>1 DEF Base, TypeOK
  <2> QED BY <1>2, <1>3, <1>4, <2>1 DEF Sessions, LeftoverWaits
<1> QED BY <1>1, <1>7, <1>8, <1>9, <1>10 DEF Steps, InStep

LEMMA StepsQuit ==
    ASSUME Steps, Quit
    PROVE  Steps'
<1>1. Base /\ Base'
  BY BaseQuit DEF Steps
<1>2. /\ UNCHANGED <<down, session, connected, wire, inside, dropped>> /\ present /\ ~present'
      /\ \/ down /\ rx' = rx
         \/ /\ ~down /\ txq' = txq
            /\ rx' = IF inside THEN [rx EXCEPT !.deferred = TRUE] ELSE NoRx
  BY DEF Quit, fixedVars, historyVars
<1>3. rx' = NoRx \/ /\ rx # NoRx /\ rx'.started = rx.started /\ rx'.sess = rx.sess
                    /\ (down => rx' = rx)
  <2>1. inside => rx \in RxItem
    BY <1>1 DEF Base, NobodyNothing, TypeOK
  <2>2. \A x \in RxItem : /\ [x EXCEPT !.deferred = TRUE].started = x.started
                          /\ [x EXCEPT !.deferred = TRUE].sess = x.sess
    BY DEF RxItem
  <2> QED BY <1>1, <1>2, <2>1, <2>2, NoRxAssumption
<1>4. Leftover' => Leftover
  BY <1>2, <1>3 DEF Leftover
<1>5. Sessions' /\ LeftoverWaits'
  BY <1>2, <1>3, <1>4 DEF Steps, Sessions, LeftoverWaits
<1>6. WireInStep' /\ EndsInStep'
  BY <1>2 DEF Steps, InStep, WireInStep, EndsInStep, Follows
<1>7. ReceiverInStep'
  BY <1>2 DEF Steps, InStep, ReceiverInStep, ReceiverLives, Expected, Receiving, Leftover, Refused
<1>8. SenderInStep'
  <2>1. CASE down
    BY <1>2, <2>1 DEF SenderInStep, SenderLives
  <2>2. CASE ~down
    <3>1. \A q : Continued(q)' <=> Continued(q)
      BY <1>2, <2>2 DEF Continued, Sending
    <3> QED BY <1>2, <2>2, <3>1 DEF Steps, InStep, SenderInStep, SenderLives
  <2> QED BY <2>1, <2>2
<1> QED BY <1>1, <1>5, <1>6, <1>7, <1>8 DEF Steps, InStep

LEMMA StepsDrop ==
    ASSUME Steps, Drop
    PROVE  Steps'
<1>1. Base /\ Base' /\ wire \in Seq(Packet)
  BY BaseDrop DEF Steps, Base, TypeOK
<1>2. /\ UNCHANGED <<down, session, present, inside, dropped>> /\ ~connected'
      /\ \/ down /\ rx' = NoRx /\ wire' = <<>>
         \/ ~down /\ rx' = rx /\ \E k \in 0..Len(wire) : wire' = SubSeq(wire, 1, k)
  BY DEF Drop, fixedVars, historyVars
<1>3. SenderInStep' /\ EndsInStep'
  BY <1>2 DEF SenderInStep, EndsInStep
<1>4. CASE down
  <2>1. WireInStep' /\ ReceiverInStep'
    BY <1>2, <1>4 DEF WireInStep, ReceiverInStep
  <2>2. Sessions' /\ LeftoverWaits'
    BY <1>2, <1>4 DEF Sessions, LeftoverWaits, Leftover
  <2> QED BY <1>1, <1>3, <2>1, <2>2 DEF Steps, InStep
<1>5. CASE ~down
  <2>1. PICK k \in 0..Len(wire) : wire' = SubSeq(wire, 1, k)
    BY <1>2, <1>5
  <2>2. /\ Len(wire') = k /\ k \in Nat /\ k <= Len(wire) /\ Len(wire) \in Nat
        /\ \A i \in 1..k : wire'[i] = wire[i]
        /\ wire' # <<>> => k # 0 /\ wire # <<>>
        /\ wire' \in Seq(Packet)
    <3>1. Len(wire) \in Nat
      BY <1>1
    <3>2. /\ Len(wire') = k /\ wire' \in Seq(Packet)
          /\ \A i \in 1..k : wire'[i] = wire[i]
      BY <1>1, <2>1, PrefixOf
    <3>3. wire' # <<>> => k # 0
      BY <3>2
    <3> QED BY <1>1, <3>1, <3>2, <3>3
  <2>3. WireInStep'
    <3>1. ASSUME NEW i \in 1..(Len(wire') - 1) PROVE Follows(wire'[i], wire'[i + 1])
      <4>1. i \in 1..k /\ i + 1 \in 1..k /\ i \in 1..(Len(wire) - 1)
        BY <2>2
      <4> QED BY <2>2, <4>1 DEF Steps, InStep, WireInStep
    <3> QED BY <3>1 DEF WireInStep, Follows
  <2>4. wire' # <<>> => wire'[1] = wire[1]
    BY <2>2
  <2>5. ReceiverInStep'
    BY <1>2, <1>5, <2>2, <2>4 DEF Steps, InStep, ReceiverInStep, ReceiverLives, Expected,
                              Receiving, Leftover, Refused
  <2>6. Sessions' /\ LeftoverWaits'
    BY <1>2, <1>5, <2>2, <2>4 DEF Steps, Sessions, LeftoverWaits, Leftover
  <2> QED BY <1>1, <1>3, <2>3, <2>5, <2>6 DEF Steps, InStep
<1> QED BY <1>4, <1>5

LEMMA StepsJoin ==
    ASSUME Steps, Join
    PROVE  Steps'
<1>1. Base /\ Base'
  BY BaseJoin DEF Steps
<1>2. /\ UNCHANGED <<down, txq, wire, rx, inside>>
      /\ ~present /\ ~connected /\ ~inside /\ wire = <<>>
      /\ session' = session + 1 /\ session \in Nat
  BY <1>1 DEF Join, fixedVars, receiverVars, Base, TypeOK
<1>3. txq' = {} /\ (down => rx = NoRx)
  BY <1>1, <1>2 DEF Base, NobodyNothing, SenderLives
<1>4. rx # NoRx => rx.sess \in Nat /\ rx.sess <= session /\ rx.sess # session'
  BY <1>1, <1>2 DEF Steps, Sessions, Base, TypeOK, RxItem
<1>5. Receiving' => Leftover'
  BY <1>2, <1>4 DEF Receiving, Leftover
<1>6. InStep'
  BY <1>2, <1>3, <1>5 DEF InStep, WireInStep, ReceiverInStep, SenderInStep, EndsInStep, Sending
<1>7. Sessions' /\ LeftoverWaits'
  BY <1>2, <1>3, <1>4 DEF Sessions, LeftoverWaits, Leftover, Sending
<1> QED BY <1>1, <1>6, <1>7 DEF Steps

LEMMA StepsStep == Steps /\ [Next]_vars => Steps'
<1> SUFFICES ASSUME Steps, [Next]_vars PROVE Steps'
  OBVIOUS
<1>1. ASSUME NEW vm \in VMs, NEW size \in Sizes, NEW r \in Rates, AddSend(vm, size, r) PROVE Steps'
  BY <1>1, StepsAddSend
<1>2. CASE PulseIdle
  BY <1>2, StepsPulseIdle
<1>3. CASE PulseSend
  BY <1>3, StepsPulseSend
<1>4. ASSUME NEW t \in txq, CancelSend(t) PROVE Steps'
  <2>1. /\ {t} \in SUBSET txq /\ SenderLives /\ Remove({t})
        /\ \A u \in {t} : u.started => ~u.finishing
    BY <1>4 DEF CancelSend
  <2> QED BY <2>1, StepsRemove
<1>5. ASSUME NEW vm \in VMs, VMDestroyed(vm) PROVE Steps'
  <2> DEFINE gone == {t \in txq : t.vm = vm /\ ~t.finishing}
  <2>1. /\ gone \in SUBSET txq /\ SenderLives /\ Remove(gone)
        /\ \A u \in gone : u.started => ~u.finishing
    BY <1>5 DEF VMDestroyed
  <2> HIDE DEF gone
  <2> QED BY <2>1, StepsRemove
<1>6. CASE Receive
  BY <1>6, StepsReceive
<1>7. CASE HandlerReturns
  BY <1>7, StepsHandlerReturns
<1>8. CASE Quit
  BY <1>8, StepsQuit
<1>9. CASE Drop
  BY <1>9, StepsDrop
<1>10. CASE Join
  BY <1>10, StepsJoin
<1>11. CASE UNCHANGED vars
  <2>1. \A t : Sending(t)' <=> Sending(t)
    BY <1>11 DEF vars, Sending
  <2>2. Base'
    BY <1>11, BaseStutter DEF Steps
  <2> QED BY <1>11, <2>1, <2>2, StepsKept DEF vars
<1> QED BY <1>1, <1>2, <1>3, <1>4, <1>5, <1>6, <1>7, <1>8, <1>9, <1>10, <1>11 DEF Next

LEMMA StepsInit == Init => Steps
<1> SUFFICES ASSUME Init PROVE Steps
  OBVIOUS
<1>1. InStep
  BY DEF Init, InStep, WireInStep, ReceiverInStep, SenderInStep, EndsInStep, Receiving, Sending
<1>2. Sessions /\ LeftoverWaits
  BY DEF Init, Sessions, LeftoverWaits, Leftover
<1> QED BY BaseInit, <1>1, <1>2 DEF Steps

LEMMA AlwaysSteps == Spec => []Steps
BY StepsInit, StepsStep, PTL DEF Spec

\* Sender, wire and receiver stay in step through cancels, VMs that end and ids
\* that wrap around (CLatentSendQueue::DoPulse, CLatentReceiver::OnReceive).
THEOREM TwoEndsInStep == Spec => []InStep
BY AlwaysSteps, PTL DEF Steps

LEMMA DropStep ==
    ASSUME Steps, Next, ~dropped, dropped'
    PROVE  Leftover \/ Head(wire).size > PacketLimit
<1>1. Receive
  BY DEF Next, AddSend, PulseIdle, PulseSend, CancelSend, VMDestroyed, Remove, HandlerReturns,
         Quit, Drop, Join, historyVars
<1>2. PICK p : p = Head(wire)
  OBVIOUS
<1>3. PICK r : r = IF rx = NoRx THEN FreshRx ELSE rx
  OBVIOUS
<1>4. PICK item : item = Headed(p, r)
  OBVIOUS
<1>5. PICK read : read = [item EXCEPT !.pos = @ + p.n]
  OBVIOUS
<1>6. Base /\ TypeOK
  BY DEF Steps, Base
<1>7. /\ p \in Packet /\ p = wire[1] /\ wire # <<>> /\ ~inside /\ (down => connected)
      /\ r \in RxItem
      /\ \/ HeadRefused(p, r) /\ Fail(r)
         \/ ~HeadRefused(p, r) /\ PartRefused(p, item) /\ Fail(item)
  BY <1>1, <1>2, <1>3, <1>4, <1>5, <1>6, ReceivePaths DEF Finish
<1>8. ReceiverLives
  BY <1>7 DEF ReceiverLives, Fail
<1> SUFFICES ASSUME ~Leftover, ~(p.size > PacketLimit) PROVE FALSE
  BY <1>2
<1>9. Expected(p)
  BY <1>7, <1>8 DEF Steps, InStep, ReceiverInStep
<1>10. /\ p.pos + p.n <= p.size
       /\ p.kind = "head" => p.pos = 0
       /\ p.kind = "tail" => p.pos = p.size /\ p.n = 0
  <2>1. 1 \in 1..Len(wire)
    BY <1>6, <1>7 DEF TypeOK
  <2> QED BY <1>6, <1>7, <2>1 DEF Base, PartsFit
<1>11. p.id \in Nat /\ p.size \in Nat /\ p.pos \in Nat /\ p.n \in Nat
  <2>1. Ids \subseteq Nat /\ Sizes \subseteq Nat
    BY BoundsAssumption, SizesAssumption DEF Ids
  <2> QED BY <1>7, <2>1 DEF Packet
<1>12. CASE Receiving
  <2>1. /\ p.kind # "head" /\ p.id = rx.id /\ p.size = rx.size /\ p.pos = rx.pos /\ r = rx
    BY <1>3, <1>9, <1>12 DEF Expected, Receiving
  <2>2. item = rx /\ ~HeadRefused(p, r)
    BY <1>4, <2>1 DEF Headed, HeadRefused
  <2> QED BY <1>7, <1>10, <1>11, <2>1, <2>2 DEF PartRefused
<1>13. CASE ~Receiving
  <2>1. ~r.started /\ p.kind = "head"
    BY <1>3, <1>7, <1>9, <1>13 DEF Expected, Refused, Receiving, FreshRx
  <2>2. ~HeadRefused(p, r)
    BY <2>1 DEF HeadRefused
  <2>3. item.id = p.id /\ item.size = p.size /\ item.pos = 0
    BY <1>4, <1>7, <2>1 DEF Headed, RxItem
  <2> QED BY <1>7, <1>10, <1>11, <2>1, <2>2, <2>3 DEF PartRefused
<1> QED BY <1>12, <1>13

\* OnReceiveError ends a connection only for an event over the limit or for half
\* a transfer left by an earlier player with the same address.
THEOREM DropsExplained == Spec => OnlyLeftoversDrop
<1>1. Steps /\ [Next]_vars => [~dropped /\ dropped' => Leftover \/ Head(wire).size > PacketLimit]_vars
  BY DropStep
<1> QED BY <1>1, AlwaysSteps, PTL DEF Spec, OnlyLeftoversDrop

-----------------------------------------------------------------------------
(* The refinement.                                                          *)

Ends(p) == p.kind \in {"tail", "cancel"}

\* Ids are used in the order of sending, all the way.
WireInOrder == \A i \in 1..Len(wire), j \in 1..Len(wire) : i < j =>
                  wire[i].id <= wire[j].id /\ (Ends(wire[i]) => wire[i].id < wire[j].id)
QueueBehind == \A i \in 1..Len(wire) : \A t \in txq : ~t.finishing =>
                  wire[i].id <= t.id /\ (Ends(wire[i]) => wire[i].id < t.id)
UsedIds == /\ \A i \in 1..Len(wire) : wire[i].id < nextId
           /\ \A x \in delivered \cup cancelled : x < nextId

Order == Steps /\ WireInOrder /\ QueueBehind /\ UsedIds

LEMMA PendingIs ==
    \A x : x \in Pending <=> \/ \E t \in txq : ~t.finishing /\ t.id = x
                             \/ \E i \in DOMAIN wire : wire[i].kind = "tail" /\ wire[i].id = x
BY DEF Pending

\* The parts of a packet on the wire.
LEMMA PacketParts ==
    ASSUME TypeOK, NEW i \in 1..Len(wire)
    PROVE  /\ wire[i] \in Packet /\ wire[i].id \in Nat /\ wire[i].id \in Ids
           /\ DOMAIN wire = 1..Len(wire) /\ Len(wire) \in Nat
<1>1. wire \in Seq(Packet)
  BY DEF TypeOK
<1>2. Ids \subseteq Nat
  BY BoundsAssumption DEF Ids
<1>3. wire[i] \in Packet /\ DOMAIN wire = 1..Len(wire) /\ Len(wire) \in Nat
  BY <1>1
<1>4. wire[i].id \in Ids
  BY <1>3 DEF Packet
<1> QED BY <1>2, <1>3, <1>4

LEMMA WireDomain ==
    ASSUME TypeOK
    PROVE  /\ DOMAIN wire = 1..Len(wire) /\ Len(wire) \in Nat /\ nextId \in Nat
           /\ wire = <<>> <=> Len(wire) = 0
BY BoundsAssumption DEF TypeOK

\* Putting a part of the front, or the notice that it is cancelled, on the wire
\* keeps the order, whatever then becomes of the front.
LEMMA OrderPut ==
    ASSUME Order, Steps', NEW t \in txq, ~t.finishing,
           \A u \in txq : ~u.finishing => t.id <= u.id,
           NEW p \in Packet, p.id = t.id, Put(<<p>>),
           UNCHANGED <<connected, nextId>>,
           \A x \in delivered' \cup cancelled' : x < nextId,
           \A u \in txq' : ~u.finishing =>
               \/ u \in txq /\ u # t
               \/ ~Ends(p) /\ u.id = t.id
    PROVE  Order'
<1>1. TypeOK /\ TypeOK' /\ t \in Item /\ t.id \in Nat /\ nextId \in Nat /\ t.id < nextId
  BY ItemParts, WireDomain DEF Order, Steps, Base, TypeOK, IdsInOrder
<1>2. \A u \in txq : u \in Item /\ u.id \in Nat /\ (u.id = t.id => u = t)
  BY <1>1, ItemParts DEF Order, Steps, Base, TypeOK, IdsInOrder
<1>3. \A u \in txq' : ~u.finishing =>
          u.id \in Nat /\ t.id <= u.id /\ (Ends(p) => t.id < u.id)
            /\ \A i \in 1..Len(wire) : wire[i].id <= u.id /\ (Ends(wire[i]) => wire[i].id < u.id)
  <2>1. ASSUME NEW u \in txq, ~u.finishing, u # t
        PROVE  /\ u.id \in Nat /\ t.id < u.id
               /\ \A i \in 1..Len(wire) : wire[i].id <= u.id /\ (Ends(wire[i]) => wire[i].id < u.id)
    BY <1>1, <1>2, <2>1 DEF Order, QueueBehind
  <2>2. \A i \in 1..Len(wire) : wire[i].id <= t.id /\ (Ends(wire[i]) => wire[i].id < t.id)
    BY DEF Order, QueueBehind
  <2> QED BY <1>1, <2>1, <2>2
<1>4. CASE ~connected
  <2>1. wire' = wire
    BY <1>1, <1>4, PutProps
  <2> QED BY <1>3, <2>1 DEF Order, WireInOrder, QueueBehind, UsedIds, Ends
<1>5. CASE connected
  <2>1. /\ Len(wire') = Len(wire) + 1 /\ wire'[Len(wire')] = p /\ Len(wire) \in Nat
        /\ \A i \in 1..Len(wire) : wire'[i] = wire[i]
    BY <1>1, <1>5, PutProps, WireDomain
  <2>2. \A i \in 1..Len(wire') : i \in 1..Len(wire) \/ (i = Len(wire') /\ wire'[i] = p)
    BY <2>1
  <2>3. \A i \in 1..Len(wire) : wire[i].id <= p.id /\ (Ends(wire[i]) => wire[i].id < p.id)
    BY DEF Order, QueueBehind
  <2>4. WireInOrder'
    <3>1. ASSUME NEW i \in 1..Len(wire'), NEW j \in 1..Len(wire'), i < j
          PROVE  wire'[i].id <= wire'[j].id /\ (Ends(wire'[i]) => wire'[i].id < wire'[j].id)
      <4>1. i \in 1..Len(wire) /\ wire'[i] = wire[i]
        BY <2>1, <3>1
      <4>2. CASE j \in 1..Len(wire)
        BY <2>1, <3>1, <4>1, <4>2 DEF Order, WireInOrder
      <4>3. CASE wire'[j] = p
        BY <2>3, <4>1, <4>3
      <4> QED BY <2>2, <4>2, <4>3
    <3> QED BY <3>1 DEF WireInOrder, Ends
  <2>5. QueueBehind'
    <3>1. ASSUME NEW i \in 1..Len(wire'), NEW u \in txq', ~u.finishing
          PROVE  wire'[i].id <= u.id /\ (Ends(wire'[i]) => wire'[i].id < u.id)
      BY <1>3, <2>1, <2>2, <3>1
    <3> QED BY <3>1 DEF QueueBehind, Ends
  <2>6. UsedIds'
    BY <1>1, <2>1, <2>2 DEF Order, UsedIds
  <2> QED BY <2>4, <2>5, <2>6 DEF Order
<1> QED BY <1>4, <1>5

\* A step that adds nothing to the wire and begins no transfer.
LEMMA OrderKept ==
    ASSUME Order, Steps',
           \A i \in 1..Len(wire') : i \in 1..Len(wire) /\ wire'[i] = wire[i],
           \A u \in txq' : ~u.finishing => u \in txq,
           UNCHANGED nextId,
           \A x \in delivered' \cup cancelled' : x < nextId
    PROVE  Order'
<1>1. WireInOrder'
  BY DEF Order, WireInOrder, Ends
<1>2. QueueBehind'
  BY DEF Order, QueueBehind, Ends
<1>3. UsedIds'
  BY DEF Order, UsedIds
<1> QED BY <1>1, <1>2, <1>3 DEF Order

\* What no service can see.
LEMMA Unseen ==
    ASSUME UNCHANGED <<present, connected, dropped, delivered, cancelled>>, Pending' = Pending
    PROVE  UNCHANGED Service!serviceVars
BY DEF Service!serviceVars, Open

\* When the connection is closed, whatever is no longer pending is lost.
LEMMA Lost ==
    ASSUME ~Open', Pending' \subseteq Pending, UNCHANGED <<delivered, cancelled>>
    PROVE  Service!Lose
BY DEF Service!Lose, Open

LEMMA RefinesAddSend ==
    ASSUME Order, NEW vm \in VMs, NEW size \in Sizes, NEW r \in Rates, AddSend(vm, size, r)
    PROVE  Order' /\ Service!Next
<1> DEFINE new == [id |-> nextId, vm |-> vm, size |-> size, rate |-> r,
                   pos |-> 0, started |-> FALSE, finishing |-> FALSE]
<1>1. txq' = txq \cup {new} /\ new.id = nextId /\ ~new.finishing /\ nextId' = nextId + 1
  BY DEF AddSend
<1>2. UNCHANGED <<wire, delivered, cancelled, present, connected, dropped>> /\ nextId < MaxSends
  BY DEF AddSend, historyVars
<1> HIDE DEF new
<1>3. TypeOK /\ nextId \in Nat /\ nextId \in Ids /\ Steps'
  BY <1>2, StepsAddSend, WireDomain, BoundsAssumption DEF Order, Steps, Base, Ids
<1>4. \A i \in 1..Len(wire) : wire[i].id \in Nat /\ wire[i].id < nextId
  BY <1>3, PacketParts DEF Order, UsedIds
<1>5. \A x \in delivered \cup cancelled : x \in Nat /\ x < nextId
  BY <1>3 DEF Order, UsedIds, TypeOK
<1>6. Order'
  <2>1. WireInOrder' /\ UsedIds'
    BY <1>1, <1>2, <1>3, <1>4, <1>5 DEF Order, WireInOrder, UsedIds, Ends
  <2>2. QueueBehind'
    BY <1>1, <1>2, <1>3, <1>4 DEF Order, QueueBehind, Ends
  <2> QED BY <1>3, <2>1, <2>2 DEF Order
<1>7. Pending' = Pending \cup {nextId}
  BY <1>1, <1>2 DEF Pending
<1>8. \A x \in Pending : x < nextId
  <2>1. \A t \in txq : t.id < nextId
    BY DEF Order, Steps, Base, IdsInOrder
  <2> QED BY <1>3, <1>4, <2>1, WireDomain DEF Pending
<1>9. Service!Send(nextId)
  BY <1>2, <1>5, <1>7, <1>8 DEF Service!Send, Service!Used, Open
<1> QED BY <1>3, <1>6, <1>9 DEF Service!Next

LEMMA RefinesPulseIdle ==
    ASSUME Order, PulseIdle
    PROVE  Order' /\ UNCHANGED Service!serviceVars
<1>1. UNCHANGED <<wire, delivered, cancelled, present, connected, dropped, nextId>>
      /\ txq' = Settled(txq)
  BY DEF PulseIdle, historyVars
<1>2. Steps'
  BY StepsPulseIdle DEF Order
<1>3. Order'
  BY <1>1, <1>2, OrderKept DEF Settled, Order, UsedIds
<1>4. Pending' = Pending
  BY <1>1 DEF Pending, Settled
<1> QED BY <1>1, <1>3, <1>4, Unseen

LEMMA RefinesPulseSend ==
    ASSUME Order, PulseSend
    PROVE  Order' /\ (Service!Next \/ UNCHANGED Service!serviceVars)
<1>1. PICK t, n :
         /\ t \in Settled(txq) /\ n \in PartSizes(t)
         /\ IsFront(t, Settled(txq)) /\ ~t.finishing
         /\ txq' = (Settled(txq) \ {t}) \cup {Sent(t, n)}
         /\ Put(<<Part(t, n)>>)
  BY DEF PulseSend
<1>2. /\ UNCHANGED <<delivered, cancelled, present, connected, dropped, nextId>>
      /\ Settled(txq) \subseteq txq /\ \A u \in txq : ~u.finishing => u \in Settled(txq)
  BY DEF PulseSend, historyVars, Settled
<1>3. Steps' /\ Base /\ TypeOK
  BY StepsPulseSend DEF Order, Steps, Base
<1>4. t \in txq /\ t \in Item /\ t.pos <= t.size
  BY <1>1, <1>2, <1>3 DEF Base, TypeOK, OnlyFrontStarted
<1>5. /\ Part(t, n) \in Packet /\ Sent(t, n) \in Item /\ Sent(t, n).id = t.id
      /\ Sent(t, n).finishing <=> PartKind(t) = "tail"
  BY <1>1, <1>4, PartType
<1>6. /\ Part(t, n).id = t.id /\ Part(t, n).kind = PartKind(t)
      /\ PartKind(t) \in {"head", "body", "tail"}
  BY DEF Part, PartKind
<1>7. \A u \in txq : ~u.finishing => t.id <= u.id
  BY <1>1, <1>2 DEF IsFront
<1>8. \A u \in txq' : ~u.finishing => \/ u \in txq /\ u # t
                                      \/ ~Ends(Part(t, n)) /\ u.id = t.id
  BY <1>1, <1>2, <1>5, <1>6 DEF Ends
<1>9. Order'
  BY <1>1, <1>2, <1>3, <1>4, <1>5, <1>6, <1>7, <1>8, OrderPut DEF Order, UsedIds
<1>10. \A x : x \in Pending <=> \/ \E u \in txq : ~u.finishing /\ u.id = x
                                \/ \E i \in 1..Len(wire) : wire[i].kind = "tail" /\ wire[i].id = x
  BY <1>3, PendingIs, WireDomain
<1>11. \A x : x \in Pending' <=> \/ \E u \in txq' : ~u.finishing /\ u.id = x
                                 \/ \E i \in 1..Len(wire') : wire'[i].kind = "tail" /\ wire'[i].id = x
  <2>1. TypeOK'
    BY <1>3 DEF Steps, Base
  <2>2. DOMAIN wire' = 1..Len(wire')
    BY <2>1 DEF TypeOK
  <2> QED BY <2>2 DEF Pending
<1>12. \A x : (\E u \in txq : ~u.finishing /\ u.id = x)
                <=> (x = t.id \/ \E u \in txq' : ~u.finishing /\ u.id = x)
  <2>1. \A u \in txq : ~u.finishing => u = t \/ u \in txq'
    BY <1>1, <1>2
  <2>2. \A u \in txq' : ~u.finishing => u.id = t.id \/ u \in txq
    BY <1>8
  <2> QED BY <1>1, <1>4, <2>1, <2>2
<1>13. CASE PartKind(t) # "tail"
  <2>1. \E u \in txq' : ~u.finishing /\ u.id = t.id
    BY <1>1, <1>5, <1>13
  <2>2. \A x : (\E i \in 1..Len(wire') : wire'[i].kind = "tail" /\ wire'[i].id = x)
                 <=> (\E i \in 1..Len(wire) : wire[i].kind = "tail" /\ wire[i].id = x)
    <3>1. CASE ~connected
      BY <1>1, <1>3, <1>5, <3>1, PutProps
    <3>2. CASE connected
      <4>1. /\ Len(wire') = Len(wire) + 1 /\ wire'[Len(wire')] = Part(t, n) /\ Len(wire) \in Nat
            /\ \A i \in 1..Len(wire) : wire'[i] = wire[i]
        BY <1>1, <1>3, <1>5, <3>2, PutProps, WireDomain
      <4>2. \A i \in 1..Len(wire') : i \in 1..Len(wire) \/ wire'[i].kind # "tail"
        BY <1>6, <1>13, <4>1
      <4>3. 1..Len(wire) \subseteq 1..Len(wire')
        BY <4>1
      <4> QED BY <4>1, <4>2, <4>3
    <3> QED BY <3>1, <3>2
  <2>3. Pending' = Pending
    BY <1>10, <1>11, <1>12, <2>1, <2>2
  <2> QED BY <1>2, <1>9, <2>3, Unseen
<1>14. CASE PartKind(t) = "tail"
  <2>1. CASE connected
    <3>1. /\ Len(wire') = Len(wire) + 1 /\ wire'[Len(wire')] = Part(t, n) /\ Len(wire) \in Nat
          /\ \A i \in 1..Len(wire) : wire'[i] = wire[i]
      BY <1>1, <1>3, <1>5, <2>1, PutProps, WireDomain
    <3>2. \A i \in 1..Len(wire') : i \in 1..Len(wire) \/ wire'[i].id = t.id
      BY <1>6, <3>1
    <3>3. 1..Len(wire) \subseteq 1..Len(wire') /\ Len(wire') \in 1..Len(wire')
      BY <3>1
    <3>4. \A x : (\E i \in 1..Len(wire') : wire'[i].kind = "tail" /\ wire'[i].id = x)
                   <=> (x = t.id \/ \E i \in 1..Len(wire) : wire[i].kind = "tail" /\ wire[i].id = x)
      BY <1>6, <1>14, <3>1, <3>2, <3>3
    <3>5. Pending' = Pending
      BY <1>10, <1>11, <1>12, <3>4
    <3> QED BY <1>2, <1>9, <3>5, Unseen
  <2>2. CASE ~connected
    <3>1. wire' = wire /\ ~Open'
      BY <1>1, <1>2, <1>3, <1>5, <2>2, PutProps DEF Open
    <3>2. Pending' \subseteq Pending
      BY <1>10, <1>11, <1>12, <3>1
    <3> QED BY <1>2, <1>9, <3>1, <3>2, Lost DEF Service!Next
  <2> QED BY <2>1, <2>2
<1> QED BY <1>13, <1>14

\* Removing items that have not been sent whole takes just them back.
LEMMA RemovePending ==
    ASSUME Order, NEW gone \in SUBSET txq, \A t \in gone : ~t.finishing,
           Steps', txq' = txq \ gone,
           UNCHANGED <<delivered, present, connected, dropped>>,
           cancelled' = cancelled \cup {t.id : t \in gone},
           \A x : (\E i \in 1..Len(wire') : wire'[i].kind = "tail" /\ wire'[i].id = x)
                   <=> (\E i \in 1..Len(wire) : wire[i].kind = "tail" /\ wire[i].id = x)
    PROVE  Service!Next
<1>1. TypeOK /\ TypeOK' /\ Base
  BY DEF Order, Steps, Base
<1>2. DOMAIN wire = 1..Len(wire) /\ DOMAIN wire' = 1..Len(wire')
  BY <1>1 DEF TypeOK
<1> DEFINE xs == {t.id : t \in gone}
<1>3. xs \subseteq Pending
  BY DEF Pending
<1>4. \A t \in gone : \A i \in 1..Len(wire) : wire[i].kind = "tail" => wire[i].id # t.id
  <2>1. ASSUME NEW t \in gone, NEW i \in 1..Len(wire), wire[i].kind = "tail"
        PROVE  wire[i].id # t.id
    <3>1. wire[i].id < t.id /\ wire[i].id \in Nat
      BY <1>1, <2>1, PacketParts DEF Order, QueueBehind, Ends
    <3>2. t.id \in Nat
      BY <1>1, ItemParts DEF TypeOK
    <3> QED BY <3>1, <3>2
  <2> QED BY <2>1
<1>5. \A t \in gone : \A u \in txq' : u.id # t.id
  BY <1>1 DEF Base, IdsInOrder
<1>6. \A x : x \in Pending <=> \/ \E u \in txq : ~u.finishing /\ u.id = x
                               \/ \E i \in 1..Len(wire) : wire[i].kind = "tail" /\ wire[i].id = x
  BY <1>2, PendingIs
<1>7. \A x : x \in Pending' <=> \/ \E u \in txq' : ~u.finishing /\ u.id = x
                                \/ \E i \in 1..Len(wire') : wire'[i].kind = "tail" /\ wire'[i].id = x
  BY <1>2 DEF Pending
<1>8. \A x : x \in Pending' <=> x \in Pending /\ x \notin xs
  <2>1. ASSUME NEW x, x \in Pending' PROVE x \in Pending /\ x \notin xs
    BY <1>4, <1>5, <1>6, <1>7, <2>1
  <2>2. ASSUME NEW x, x \in Pending, x \notin xs PROVE x \in Pending'
    BY <1>6, <1>7, <2>2
  <2> QED BY <2>1, <2>2
<1>9. Service!Cancel(xs)
  BY <1>3, <1>8 DEF Service!Cancel, Open
<1> QED BY <1>3, <1>9 DEF Service!Next

LEMMA RefinesRemove ==
    ASSUME Order, NEW gone \in SUBSET txq, \A t \in gone : ~t.finishing,
           SenderLives, Remove(gone)
    PROVE  Order' /\ Service!Next
<1>1. /\ txq' = txq \ gone
      /\ UNCHANGED <<delivered, present, connected, dropped, nextId>>
      /\ cancelled' = cancelled \cup {t.id : t \in gone}
  BY DEF Remove
<1>2. Steps' /\ Base /\ TypeOK
  BY StepsRemove DEF Order, Steps, Base
<1>3. \A x \in delivered' \cup cancelled' : x < nextId
  BY <1>1, <1>2 DEF Order, UsedIds, Base, IdsInOrder
<1>4. CASE (\A t \in gone : ~t.started) /\ UNCHANGED wire
  <2>1. Order'
    BY <1>1, <1>2, <1>3, <1>4, OrderKept
  <2>2. \A x : (\E i \in 1..Len(wire') : wire'[i].kind = "tail" /\ wire'[i].id = x)
                 <=> (\E i \in 1..Len(wire) : wire[i].kind = "tail" /\ wire[i].id = x)
    BY <1>4
  <2> QED BY <2>1, <2>2, <1>1, <1>2, RemovePending
<1>5. CASE \E t \in gone : t.started /\ Put(<<CancelPacket(t)>>)
  <2>1. PICK t \in gone : t.started /\ Put(<<CancelPacket(t)>>)
    BY <1>5
  <2>2. t \in Item /\ t \in txq /\ \A u \in txq : t.id <= u.id
    BY <1>2, <2>1 DEF Base, TypeOK, OnlyFrontStarted, IsFront
  <2>3. /\ CancelPacket(t).kind = "cancel" /\ CancelPacket(t).id = t.id
        /\ CancelPacket(t) \in Packet
    BY <2>2, ItemParts DEF CancelPacket, Packet
  <2>4. \A u \in txq' : u \in txq /\ u # t
    BY <1>1, <2>1
  <2>5. Order'
    BY <1>1, <1>2, <1>3, <2>1, <2>2, <2>3, <2>4, OrderPut
  <2>6. \A x : (\E i \in 1..Len(wire') : wire'[i].kind = "tail" /\ wire'[i].id = x)
                 <=> (\E i \in 1..Len(wire) : wire[i].kind = "tail" /\ wire[i].id = x)
    <3>1. CASE ~connected
      BY <1>2, <2>1, <2>3, <3>1, PutProps
    <3>2. CASE connected
      <4>1. /\ Len(wire') = Len(wire) + 1 /\ wire'[Len(wire')] = CancelPacket(t) /\ Len(wire) \in Nat
            /\ \A i \in 1..Len(wire) : wire'[i] = wire[i]
        BY <1>2, <2>1, <2>3, <3>2, PutProps, WireDomain
      <4>2. \A i \in 1..Len(wire') : i \in 1..Len(wire) \/ wire'[i].kind # "tail"
        BY <2>3, <4>1
      <4>3. 1..Len(wire) \subseteq 1..Len(wire')
        BY <4>1
      <4> QED BY <4>1, <4>2, <4>3
    <3> QED BY <3>1, <3>2
  <2> QED BY <1>1, <1>2, <2>5, <2>6, RemovePending
<1> QED BY <1>4, <1>5 DEF Remove

LEMMA RefinesHandlerReturns ==
    ASSUME Order, HandlerReturns
    PROVE  Order' /\ UNCHANGED Service!serviceVars
<1>1. UNCHANGED <<txq, wire, delivered, cancelled, present, connected, dropped, nextId>>
  BY DEF HandlerReturns, historyVars, senderVars
<1>2. Steps'
  BY StepsHandlerReturns DEF Order
<1>3. Order'
  BY <1>1, <1>2, OrderKept DEF Order, UsedIds
<1>4. Pending' = Pending
  BY <1>1 DEF Pending
<1> QED BY <1>1, <1>3, <1>4, Unseen

LEMMA RefinesQuit ==
    ASSUME Order, Quit
    PROVE  Order' /\ Service!Next
<1>1. UNCHANGED <<wire, delivered, cancelled, nextId>> /\ ~present' /\ (txq' = txq \/ txq' = {})
  BY DEF Quit, historyVars
<1>2. Steps'
  BY StepsQuit DEF Order
<1>3. Order'
  BY <1>1, <1>2, OrderKept DEF Order, UsedIds
<1>4. Pending' \subseteq Pending
  BY <1>1 DEF Pending
<1> QED BY <1>1, <1>3, <1>4, Lost DEF Open, Service!Next

LEMMA RefinesDrop ==
    ASSUME Order, Drop
    PROVE  Order' /\ Service!Next
<1>1. /\ UNCHANGED <<delivered, cancelled, nextId>> /\ ~connected' /\ txq' \subseteq txq
      /\ wire' = <<>> \/ \E k \in 0..Len(wire) : wire' = SubSeq(wire, 1, k)
  BY DEF Drop, historyVars
<1>2. Steps' /\ wire \in Seq(Packet)
  BY StepsDrop DEF Order, Steps, Base, TypeOK
<1>3. /\ \A i \in 1..Len(wire') : i \in 1..Len(wire) /\ wire'[i] = wire[i]
      /\ DOMAIN wire' = 1..Len(wire') /\ DOMAIN wire = 1..Len(wire)
  <2>1. CASE wire' = <<>>
    BY <1>2, <2>1
  <2>2. CASE \E k \in 0..Len(wire) : wire' = SubSeq(wire, 1, k)
    <3>1. PICK k \in 0..Len(wire) : wire' = SubSeq(wire, 1, k)
      BY <2>2
    <3>2. Len(wire') = k /\ wire' \in Seq(Packet) /\ \A i \in 1..k : wire'[i] = wire[i]
      BY <1>2, <3>1, PrefixOf
    <3> QED BY <1>2, <3>2
  <2> QED BY <1>1, <2>1, <2>2
<1>4. Order'
  BY <1>1, <1>2, <1>3, OrderKept DEF Order, UsedIds
<1>5. Pending' \subseteq Pending
  BY <1>1, <1>3 DEF Pending
<1> QED BY <1>1, <1>4, <1>5, Lost DEF Open, Service!Next

LEMMA RefinesJoin ==
    ASSUME Order, Join
    PROVE  Order' /\ Service!Next
<1>1. /\ wire = <<>> /\ wire' = <<>> /\ txq' = txq /\ ~present /\ ~connected
      /\ present' /\ connected' /\ ~dropped' /\ nextId' = 0
      /\ present' = TRUE /\ connected' = TRUE /\ dropped' = FALSE
      /\ delivered' = {} /\ cancelled' = {}
  BY DEF Join
<1>2. Steps' /\ txq = {}
  BY <1>1, StepsJoin DEF Order, Steps, Base, NobodyNothing, SenderLives
<1>3. Order'
  BY <1>1, <1>2 DEF Order, WireInOrder, QueueBehind, UsedIds
<1>4. Pending' = {}
  BY <1>1, <1>2 DEF Pending
<1>5. ~Open /\ Open' = TRUE
  BY <1>1 DEF Open
<1> QED BY <1>1, <1>3, <1>4, <1>5 DEF Service!Reopen, Service!Next

\* What OnReceive delivers, if anything, is the transfer whose tail it reads; a
\* tail that delivers nothing is one of a connection that is closing.
LEMMA ReceiveEffect ==
    ASSUME Steps, Receive, NEW p, p = wire[1]
    PROVE  \/ UNCHANGED <<delivered, present, dropped>> /\ p.kind # "tail"
           \/ delivered' = delivered /\ ~Open'
           \/ /\ UNCHANGED <<present, dropped>> /\ p.kind = "tail"
              /\ delivered' = delivered \cup {p.id}
<1>1. Base /\ TypeOK
  BY DEF Steps, Base
<1>2. p = Head(wire)
  BY <1>1, BehindHead DEF Receive, TypeOK
<1>3. PICK r : r = IF rx = NoRx THEN FreshRx ELSE rx
  OBVIOUS
<1>4. PICK item : item = Headed(p, r)
  OBVIOUS
<1>5. PICK read : read = [item EXCEPT !.pos = @ + p.n]
  OBVIOUS
<1>6. /\ p \in Packet /\ wire # <<>> /\ ~inside /\ (down => connected)
      /\ r \in RxItem
      /\ \/ HeadRefused(p, r) /\ Fail(r)
         \/ /\ ~HeadRefused(p, r) /\ item \in RxItem
            /\ PartRefused(p, item) /\ Fail(item)
         \/ /\ ~HeadRefused(p, r) /\ item \in RxItem /\ read \in RxItem
            /\ ~PartRefused(p, item)
            /\ \/ p.kind \in {"head", "body"} /\ rx' = read
                  /\ UNCHANGED <<present, inside, delivered, dropped>>
               \/ p.kind = "cancel" /\ rx' = FreshRx
                  /\ UNCHANGED <<present, inside, delivered, dropped>>
               \/ p.kind = "tail" /\ Finish(read)
      /\ UNCHANGED <<down, time, session, connected, txq, nextId, rate, cancelled>>
  BY <1>1, <1>2, <1>3, <1>4, <1>5, ReceivePaths
<1>7. ASSUME NEW x, Fail(x) PROVE delivered' = delivered /\ ~Open'
  BY <1>6, <1>7 DEF Fail, Open
<1>8. ASSUME p.kind = "tail", Finish(read), item \in RxItem
      PROVE  \/ delivered' = delivered /\ ~Open'
             \/ UNCHANGED <<present, dropped>> /\ delivered' = delivered \cup {p.id}
  <2>1. item = r /\ read.started = r.started /\ read.id = r.id
    BY <1>4, <1>5, <1>6, <1>8 DEF Headed, RxItem
  <2>2. ASSUME ReceiverLives PROVE ~Leftover /\ Expected(p)
    <3>1. ~Leftover
      BY <1>6, <1>8, <2>2 DEF Steps, Sessions, LeftoverWaits, ReceiverLives
    <3> QED BY <1>6, <2>2, <3>1 DEF Steps, InStep, ReceiverInStep
  <2>3. CASE r.started /\ (down \/ present)
    <3>1. ReceiverLives
      BY <1>6, <2>3 DEF ReceiverLives
    <3>2. rx = r /\ Receiving
      BY <1>3, <1>6, <2>3 DEF Receiving, FreshRx
    <3>3. rx.id = p.id
      BY <2>2, <3>1, <3>2 DEF Expected
    <3> QED BY <1>8, <2>1, <2>3, <3>2, <3>3 DEF Finish
  <2>4. CASE ~(r.started /\ (down \/ present))
    <3>1. UNCHANGED <<delivered, present, dropped, connected>>
      BY <1>6, <1>8, <2>1, <2>4 DEF Finish
    <3>2. ~Open
      <4> SUFFICES ASSUME Open PROVE FALSE
        OBVIOUS
      <4>1. ReceiverLives /\ ~r.started
        BY <2>4 DEF ReceiverLives, Open
      <4>2. ~Receiving
        BY <1>3, <4>1 DEF Receiving
      <4>3. Refused(p)
        BY <1>8, <2>2, <4>1, <4>2 DEF Expected
      <4> QED BY <4>3 DEF Refused, Open
    <3> QED BY <3>1, <3>2 DEF Open
  <2> QED BY <2>3, <2>4
<1> QED BY <1>6, <1>7, <1>8

LEMMA RefinesReceive ==
    ASSUME Order, Receive
    PROVE  Order' /\ (Service!Next \/ UNCHANGED Service!serviceVars)
<1>1. Steps' /\ Base /\ TypeOK
  BY StepsReceive DEF Order, Steps, Base
<1>2. /\ wire # <<>> /\ wire' = Tail(wire)
      /\ UNCHANGED <<connected, txq, nextId, cancelled>>
      /\ Len(wire') = Len(wire) - 1 /\ Len(wire) \in Nat \ {0}
      /\ \A i \in 1..Len(wire') : wire'[i] = wire[i + 1]
  BY <1>1, BehindHead DEF Receive, TypeOK, senderVars
<1>3. PICK p : p = wire[1]
  OBVIOUS
<1>4. \/ UNCHANGED <<delivered, present, dropped>> /\ p.kind # "tail"
      \/ delivered' = delivered /\ ~Open'
      \/ /\ UNCHANGED <<present, dropped>> /\ p.kind = "tail"
         /\ delivered' = delivered \cup {p.id}
  BY <1>3, ReceiveEffect DEF Order
<1>5. 1 \in 1..Len(wire) /\ p \in Packet /\ p.id \in Nat /\ p.id \in Ids /\ p.id < nextId
  <2>1. 1 \in 1..Len(wire)
    BY <1>2
  <2> QED BY <1>1, <1>3, <2>1, PacketParts DEF Order, UsedIds
<1>6. \A i \in 1..Len(wire') : i + 1 \in 1..Len(wire) /\ 1 < i + 1
  BY <1>2
<1>7. \A i \in 1..Len(wire) : i = 1 \/ (i - 1 \in 1..Len(wire') /\ wire'[i - 1] = wire[i])
  BY <1>2
<1>8. Order'
  <2>1. WireInOrder'
    <3>1. ASSUME NEW i \in 1..Len(wire'), NEW j \in 1..Len(wire'), i < j
          PROVE  wire'[i].id <= wire'[j].id /\ (Ends(wire'[i]) => wire'[i].id < wire'[j].id)
      <4>1. /\ i + 1 \in 1..Len(wire) /\ j + 1 \in 1..Len(wire) /\ i + 1 < j + 1
        BY <1>6, <3>1
      <4> QED BY <1>2, <4>1 DEF Order, WireInOrder
    <3> QED BY <3>1 DEF WireInOrder, Ends
  <2>2. QueueBehind'
    BY <1>2, <1>6 DEF Order, QueueBehind, Ends
  <2>3. UsedIds'
    BY <1>2, <1>4, <1>5, <1>6 DEF Order, UsedIds
  <2> QED BY <1>1, <2>1, <2>2, <2>3 DEF Order
<1>9. \A x : x \in Pending <=> \/ \E u \in txq : ~u.finishing /\ u.id = x
                               \/ \E i \in 1..Len(wire) : wire[i].kind = "tail" /\ wire[i].id = x
  BY <1>1, PendingIs, WireDomain
<1>10. \A x : x \in Pending' <=> \/ \E u \in txq : ~u.finishing /\ u.id = x
                                 \/ \E i \in 1..Len(wire') : wire'[i].kind = "tail" /\ wire'[i].id = x
  <2>1. TypeOK'
    BY <1>1 DEF Steps, Base
  <2>2. DOMAIN wire' = 1..Len(wire')
    BY <2>1 DEF TypeOK
  <2> QED BY <1>2, <2>2 DEF Pending
<1>11. \A x : (\E i \in 1..Len(wire) : wire[i].kind = "tail" /\ wire[i].id = x)
                 <=> \/ p.kind = "tail" /\ p.id = x
                     \/ \E i \in 1..Len(wire') : wire'[i].kind = "tail" /\ wire'[i].id = x
  <2>1. ASSUME NEW i \in 1..Len(wire), i # 1
        PROVE  \E j \in 1..Len(wire') : wire'[j] = wire[i]
    BY <1>7, <2>1
  <2>2. ASSUME NEW j \in 1..Len(wire') PROVE \E i \in 1..Len(wire) : wire'[j] = wire[i]
    BY <1>2, <1>6, <2>2
  <2>3. ASSUME NEW x, NEW i \in 1..Len(wire), wire[i].kind = "tail", wire[i].id = x
        PROVE  \/ p.kind = "tail" /\ p.id = x
               \/ \E j \in 1..Len(wire') : wire'[j].kind = "tail" /\ wire'[j].id = x
    <3>1. CASE i = 1
      BY <1>3, <2>3, <3>1
    <3>2. CASE i # 1
      <4>1. PICK j \in 1..Len(wire') : wire'[j] = wire[i]
        BY <2>1, <3>2
      <4> QED BY <2>3, <4>1
    <3> QED BY <3>1, <3>2
  <2>4. ASSUME NEW x, p.kind = "tail", p.id = x
        PROVE  \E i \in 1..Len(wire) : wire[i].kind = "tail" /\ wire[i].id = x
    BY <1>3, <1>5, <2>4
  <2>5. ASSUME NEW x, NEW j \in 1..Len(wire'), wire'[j].kind = "tail", wire'[j].id = x
        PROVE  \E i \in 1..Len(wire) : wire[i].kind = "tail" /\ wire[i].id = x
    <3>1. PICK i \in 1..Len(wire) : wire'[j] = wire[i]
      BY <2>2
    <3> QED BY <2>5, <3>1
  <2> QED BY <2>3, <2>4, <2>5
<1>12. CASE UNCHANGED <<delivered, present, dropped>> /\ p.kind # "tail"
  <2>1. Pending' = Pending
    BY <1>9, <1>10, <1>11, <1>12
  <2> QED BY <1>2, <1>8, <1>12, <2>1, Unseen
<1>13. CASE delivered' = delivered /\ ~Open'
  <2>1. Pending' \subseteq Pending
    BY <1>9, <1>10, <1>11
  <2> QED BY <1>2, <1>8, <1>13, <2>1, Lost DEF Service!Next
<1>14. CASE /\ UNCHANGED <<present, dropped>> /\ p.kind = "tail"
            /\ delivered' = delivered \cup {p.id}
  <2>1. p.id \in Pending
    BY <1>9, <1>11, <1>14
  <2>2. \A u \in txq : ~u.finishing => p.id < u.id
    BY <1>3, <1>5, <1>14 DEF Order, QueueBehind, Ends
  <2>3. \A i \in 1..Len(wire') : p.id < wire'[i].id
    BY <1>2, <1>3, <1>5, <1>6, <1>14 DEF Order, WireInOrder, Ends
  <2>4. \A x \in Pending' : p.id < x
    BY <1>10, <2>2, <2>3
  <2>5. Pending' = Pending \ {p.id}
    BY <1>5, <1>9, <1>10, <1>11, <1>14, <2>4
  <2>6. \A x \in Pending : p.id <= x
    <3>1. \A u \in txq : u.id \in Nat
      BY <1>1, ItemParts DEF TypeOK
    <3>2. \A i \in 1..Len(wire) : wire[i].id \in Nat
      BY <1>1, PacketParts
    <3>3. \A x \in Pending : x \in Nat
      BY <1>9, <3>1, <3>2
    <3> QED BY <1>5, <2>4, <2>5, <3>3
  <2>7. Service!Deliver(p.id)
    BY <1>2, <1>14, <2>1, <2>5, <2>6 DEF Service!Deliver, Open
  <2> QED BY <1>5, <1>8, <2>7 DEF Service!Next
<1> QED BY <1>4, <1>12, <1>13, <1>14

LEMMA RefinesInit == Init => Order /\ Service!Init
<1> SUFFICES ASSUME Init PROVE Order /\ Service!Init
  OBVIOUS
<1>1. Steps
  BY StepsInit
<1>2. Order
  BY <1>1 DEF Init, Order, WireInOrder, QueueBehind, UsedIds
<1>3. Service!Init
  BY DEF Init, Service!Init, Open, Pending
<1> QED BY <1>2, <1>3

LEMMA RefinesStep == Order /\ [Next]_vars => Order' /\ [Service!Next]_Service!serviceVars
<1> SUFFICES ASSUME Order, [Next]_vars
             PROVE  Order' /\ (Service!Next \/ UNCHANGED Service!serviceVars)
  OBVIOUS
<1>1. ASSUME NEW vm \in VMs, NEW size \in Sizes, NEW r \in Rates, AddSend(vm, size, r)
      PROVE  Order' /\ Service!Next
  BY <1>1, RefinesAddSend
<1>2. CASE PulseIdle
  BY <1>2, RefinesPulseIdle
<1>3. CASE PulseSend
  BY <1>3, RefinesPulseSend
<1>4. ASSUME NEW t \in txq, CancelSend(t) PROVE Order' /\ Service!Next
  <2>1. t.finishing => t.started
    <3>1. t \in Item /\ (t.finishing => t.pos = t.size) /\ (t.started <=> t.pos > 0)
      BY <1>4 DEF Order, Steps, Base, TypeOK, OnlyFrontStarted
    <3> QED BY <3>1, ItemParts
  <2>2. /\ {t} \in SUBSET txq /\ SenderLives /\ Remove({t})
        /\ \A u \in {t} : ~u.finishing
    BY <1>4, <2>1 DEF CancelSend
  <2> QED BY <2>2, RefinesRemove
<1>5. ASSUME NEW vm \in VMs, VMDestroyed(vm) PROVE Order' /\ Service!Next
  <2> DEFINE gone == {t \in txq : t.vm = vm /\ ~t.finishing}
  <2>1. /\ gone \in SUBSET txq /\ SenderLives /\ Remove(gone)
        /\ \A u \in gone : ~u.finishing
    BY <1>5 DEF VMDestroyed
  <2> HIDE DEF gone
  <2> QED BY <2>1, RefinesRemove
<1>6. CASE Receive
  BY <1>6, RefinesReceive
<1>7. CASE HandlerReturns
  BY <1>7, RefinesHandlerReturns
<1>8. CASE Quit
  BY <1>8, RefinesQuit
<1>9. CASE Drop
  BY <1>9, RefinesDrop
<1>10. CASE Join
  BY <1>10, RefinesJoin
<1>11. CASE UNCHANGED vars
  <2>1. Steps' /\ Pending' = Pending
    BY <1>11, StepsStep DEF Order, vars, Pending
  <2>2. Order'
    BY <1>11, <2>1 DEF vars, Order, WireInOrder, QueueBehind, UsedIds, Ends
  <2> QED BY <1>11, <2>1, <2>2, Unseen DEF vars
<1> QED BY <1>1, <1>2, <1>3, <1>4, <1>5, <1>6, <1>7, <1>8, <1>9, <1>10, <1>11 DEF Next

\* Latent transfers implement the service: delivered in the order of sending, at
\* most once, none lost while the connection is open, none after its cancellation.
THEOREM KeepsPromise == Spec => ImplementsService
<1>1. Spec => Service!Init /\ [][Service!Next]_Service!serviceVars
  BY RefinesInit, RefinesStep, PTL DEF Spec
<1> QED BY <1>1 DEF ImplementsService, Service!Spec
=============================================================================
