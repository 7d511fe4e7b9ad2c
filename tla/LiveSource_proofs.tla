------------------------- MODULE LiveSource_proofs -------------------------
(***************************************************************************)
(* Proofs about LiveSource, for both sources in both kinds of tool and     *)
(* every capacity of the channels, number of arrivals and choice of those  *)
(* that do not pass.                                                       *)
(***************************************************************************)
EXTENDS LiveSource, SequenceTheorems, TLAPS

-----------------------------------------------------------------------------
(* The inductive invariant.                                                *)

LiveTypeOK ==
  /\ ctl \in {"idle", "running", "stopping", "done", "failed"}
  /\ numOwner \in {"free", "source", "other"}
  /\ rdPc \in {"none", "check", "recv", "send", "exited"} /\ rdItem \in Nat
  /\ arrived \in Nat /\ out1 \in Seq(Nat)
  /\ fwPc \in {"none", "take", "send", "exited"} /\ fwItem \in Nat /\ fwId \in Nat
  /\ out2 \in Seq(Nat \X Nat)
  /\ received \in Seq(Nat \X Nat)

\* While the capture of a direct command runs, the number is its own; the monitor's
\* file knows whether it is closed.
OwnerInv ==
  /\ Raw /\ ~Engine /\ rdPc \in {"check", "recv", "send"} => numOwner = "source"
  /\ NeverClosesForeign

\* Who holds an item, and who runs at all.
HandsInv ==
  /\ ctl = "idle" => rdPc = "none" /\ fwPc = "none"
  /\ IF rdPc = "send" THEN rdItem = arrived /\ rdItem # 0 /\ Passes(rdItem) ELSE rdItem = 0
  /\ fwPc = "send" <=> fwItem # 0
  /\ ~Engine => fwPc = "none" /\ out2 = <<>>

\* The forwarder numbers what it takes.
NumbersInv ==
  /\ \A i \in 1..Len(received) : received[i][1] = i
  /\ \A i \in 1..Len(out2) : out2[i][1] = Len(received) + i
  /\ Engine /\ fwPc # "exited" =>
       fwId = Len(received) + Len(out2) + IF fwPc = "send" THEN 1 ELSE 0

\* The items in each place.
Taken == ToSet(Items(received))
Queued2 == ToSet(Items(out2))
InForwarder == ToSet(InHand(fwItem))
Queued1 == ToSet(out1)
InReader == ToSet(InHand(rdItem))
Transit == Taken \cup Queued2 \cup InForwarder \cup Queued1 \cup InReader

Increasing(s) == \A i, j \in 1..Len(s) : i < j => s[i] < s[j]
Before(S, T) == \A x \in S, y \in T : x < y

\* Each place is in order, and each is before those behind it.
PlacesInv ==
  /\ Increasing(Items(received)) /\ Increasing(Items(out2)) /\ Increasing(out1)
  /\ Before(Taken, Queued2)
  /\ Before(Taken \cup Queued2, InForwarder)
  /\ Before(Taken \cup Queued2 \cup InForwarder, Queued1)
  /\ Before(Taken \cup Queued2 \cup InForwarder \cup Queued1, InReader)
  /\ Transit \subseteq Passed(arrived)

\* What the consumer has or may still get: nothing that a forwarder would have to take
\* when it has ended.
Coming ==
  Taken \cup Queued2 \cup InForwarder
    \cup IF fwPc = "exited" THEN {} ELSE Queued1 \cup InReader

\* Items are lost only behind all those, and when a goroutine that was cancelled has ended.
LossInv ==
  \A x \in Passed(arrived) \ Transit :
    /\ ctxDone /\ (rdPc = "exited" \/ fwPc = "exited")
    /\ \A y \in Coming : y < x

LiveInv == LiveTypeOK /\ OwnerInv /\ HandsInv /\ NumbersInv /\ PlacesInv /\ LossInv

-----------------------------------------------------------------------------
(* Sequences of items.                                                     *)

\* The set of the items of a sequence.
LEMMA ToSetOf ==
    ASSUME NEW s \in Seq(Nat)
    PROVE  /\ Len(s) \in Nat /\ DOMAIN s = 1..Len(s)
           /\ ToSet(s) = {s[i] : i \in 1..Len(s)}
           /\ \A i \in 1..Len(s) : s[i] \in Nat /\ s[i] \in ToSet(s)
BY LenProperties, ElementOfSeq DEF ToSet

\* A send puts an item behind those that are there, a receive takes the first.
LEMMA SendItem ==
    ASSUME NEW s \in Seq(Nat), NEW x \in Nat, Increasing(s), \A y \in ToSet(s) : y < x
    PROVE  /\ Append(s, x) \in Seq(Nat)
           /\ ToSet(Append(s, x)) = ToSet(s) \cup {x}
           /\ Increasing(Append(s, x))
<1>1. PICK t : t = Append(s, x)
  OBVIOUS
<1>2. /\ t \in Seq(Nat) /\ Len(t) = Len(s) + 1
      /\ \A i \in 1..Len(s) : t[i] = s[i]
      /\ t[Len(s) + 1] = x
  BY <1>1, AppendProperties
<1>3. /\ Len(s) \in Nat
      /\ ToSet(s) = {s[i] : i \in 1..Len(s)} /\ ToSet(t) = {t[i] : i \in 1..Len(t)}
      /\ \A i \in 1..Len(s) : s[i] \in Nat /\ s[i] \in ToSet(s)
  BY <1>2, ToSetOf
<1>4. 1..Len(t) = (1..Len(s)) \cup {Len(s) + 1}
  BY <1>2, <1>3
<1>5. ToSet(t) = ToSet(s) \cup {x}
  <2>1. \A i \in 1..Len(s) : t[i] \in ToSet(s)
    BY <1>2, <1>3
  <2>2. ToSet(t) \subseteq ToSet(s) \cup {x}
    BY <1>2, <1>3, <1>4, <2>1
  <2>3. \A i \in 1..Len(s) : s[i] \in ToSet(t)
    BY <1>2, <1>3, <1>4
  <2>4. ToSet(s) \cup {x} \subseteq ToSet(t)
    BY <1>2, <1>3, <1>4, <2>3
  <2> QED
    BY <2>2, <2>4
<1>6. ASSUME NEW i \in 1..Len(t), NEW j \in 1..Len(t), i < j
      PROVE  t[i] < t[j]
  <2>1. i \in 1..Len(s) /\ t[i] = s[i]
    BY <1>2, <1>3, <1>6
  <2>2. CASE j \in 1..Len(s)
    BY <1>2, <1>6, <2>1, <2>2 DEF Increasing
  <2>3. CASE j = Len(s) + 1
    BY <1>2, <1>3, <2>1, <2>3
  <2> QED
    BY <1>2, <1>3, <2>2, <2>3
<1> QED
  BY <1>1, <1>2, <1>5, <1>6 DEF Increasing

\* A receive takes the least item of an increasing queue.
LEMMA TakeItem ==
    ASSUME NEW s \in Seq(Nat), s # <<>>, Increasing(s)
    PROVE  /\ Head(s) \in Nat /\ Tail(s) \in Seq(Nat)
           /\ ToSet(s) = {Head(s)} \cup ToSet(Tail(s))
           /\ Increasing(Tail(s))
           /\ \A y \in ToSet(Tail(s)) : Head(s) < y
<1>1. PICK t : t = Tail(s)
  OBVIOUS
<1>2. /\ t \in Seq(Nat) /\ Len(t) = Len(s) - 1 /\ Len(s) \in Nat /\ Len(s) > 0
      /\ \A i \in 1..Len(t) : t[i] = s[i + 1]
      /\ Head(s) = s[1] /\ Head(s) \in Nat
  BY <1>1, HeadTailProperties, LenProperties, EmptySeq
<1>3. /\ ToSet(s) = {s[i] : i \in 1..Len(s)} /\ ToSet(t) = {t[i] : i \in 1..Len(t)}
      /\ \A i \in 1..Len(s) : s[i] \in Nat
  BY <1>2, ToSetOf
<1>4. ASSUME NEW i \in 1..Len(t)
      PROVE  i + 1 \in 1..Len(s) /\ t[i] = s[i + 1] /\ 1 \in 1..Len(s) /\ Head(s) < t[i]
  <2>1. i + 1 \in 1..Len(s) /\ 1 \in 1..Len(s) /\ 1 < i + 1
    BY <1>2
  <2>2. s[1] < s[i + 1]
    BY <2>1 DEF Increasing
  <2> QED
    BY <1>2, <2>1, <2>2
<1>5. ToSet(s) = {Head(s)} \cup ToSet(t)
  <2>1. ASSUME NEW i \in 1..Len(s)
        PROVE  s[i] = Head(s) \/ \E j \in 1..Len(t) : s[i] = t[j]
    <3>1. i = 1 \/ (i - 1 \in 1..Len(t) /\ (i - 1) + 1 = i)
      BY <1>2
    <3> QED
      BY <1>2, <3>1
  <2>2. 1 \in 1..Len(s)
    BY <1>2
  <2> QED
    BY <1>2, <1>3, <1>4, <2>1, <2>2
<1>6. ASSUME NEW i \in 1..Len(t), NEW j \in 1..Len(t), i < j
      PROVE  t[i] < t[j]
  <2>1. i + 1 \in 1..Len(s) /\ j + 1 \in 1..Len(s) /\ i + 1 < j + 1
    BY <1>2, <1>4, <1>6
  <2>2. s[i + 1] < s[j + 1]
    BY <2>1 DEF Increasing
  <2> QED
    BY <1>4, <2>2
<1> QED
  BY <1>1, <1>2, <1>3, <1>4, <1>5, <1>6 DEF Increasing

\* The items of numbered items.
LEMMA ItemsOf ==
    ASSUME NEW s \in Seq(Nat \X Nat)
    PROVE  /\ Items(s) \in Seq(Nat) /\ Len(Items(s)) = Len(s) /\ Len(s) \in Nat
           /\ \A i \in 1..Len(s) : Items(s)[i] = s[i][2] /\ s[i] \in Nat \X Nat
<1>1. /\ Len(s) \in Nat /\ DOMAIN s = 1..Len(s)
      /\ \A i \in 1..Len(s) : s[i] \in Nat \X Nat
  BY LenProperties, ElementOfSeq
<1>2. PICK t : t = Items(s)
  OBVIOUS
<1>3. t = [i \in 1..Len(s) |-> s[i][2]]
  BY <1>1, <1>2 DEF Items
<1>4. t \in [1..Len(s) -> Nat] /\ \A i \in 1..Len(s) : t[i] = s[i][2]
  BY <1>1, <1>3
<1>5. t \in Seq(Nat) /\ Len(t) = Len(s)
  <2>1. PICK n \in Nat : n = Len(s)
    BY <1>1
  <2>2. t \in [1..n -> Nat]
    BY <1>4, <2>1
  <2>3. t \in Seq(Nat)
    BY <2>2, SeqDef
  <2>4. DOMAIN t = 1..n /\ DOMAIN t = 1..Len(t) /\ Len(t) \in Nat
    BY <2>2, <2>3, LenProperties
  <2> QED
    BY <2>1, <2>3, <2>4
<1> QED
  BY <1>1, <1>2, <1>4, <1>5

\* A numbered item that is appended appends its item.
LEMMA ItemsSent ==
    ASSUME NEW s \in Seq(Nat \X Nat), NEW k \in Nat, NEW x \in Nat
    PROVE  /\ Append(s, <<k, x>>) \in Seq(Nat \X Nat)
           /\ Items(Append(s, <<k, x>>)) = Append(Items(s), x)
<1>1. PICK n : n = <<k, x>>
  OBVIOUS
<1>2. n \in Nat \X Nat /\ n[2] = x
  BY <1>1
<1>3. PICK t : t = Append(s, n)
  OBVIOUS
<1>4. /\ t \in Seq(Nat \X Nat) /\ Len(t) = Len(s) + 1
      /\ \A i \in 1..Len(s) : t[i] = s[i]
      /\ t[Len(s) + 1] = n
  BY <1>2, <1>3, AppendProperties
<1>5. PICK u : u = Append(Items(s), x)
  OBVIOUS
<1>6. /\ Items(s) \in Seq(Nat) /\ Len(Items(s)) = Len(s) /\ Len(s) \in Nat
      /\ \A i \in 1..Len(s) : Items(s)[i] = s[i][2]
      /\ Items(t) \in Seq(Nat) /\ Len(Items(t)) = Len(t)
      /\ \A i \in 1..Len(t) : Items(t)[i] = t[i][2]
  BY <1>4, ItemsOf
<1>7. /\ u \in Seq(Nat) /\ Len(u) = Len(s) + 1
      /\ \A i \in 1..Len(s) : u[i] = Items(s)[i]
      /\ u[Len(s) + 1] = x
  <2>1. /\ Append(Items(s), x) \in Seq(Nat)
        /\ Len(Append(Items(s), x)) = Len(Items(s)) + 1
        /\ \A i \in 1..Len(Items(s)) : Append(Items(s), x)[i] = Items(s)[i]
        /\ Append(Items(s), x)[Len(Items(s)) + 1] = x
    BY <1>6, AppendProperties
  <2> QED
    BY <1>5, <1>6, <2>1
<1>8. ASSUME NEW i \in 1..Len(u)
      PROVE  Items(t)[i] = u[i]
  <2>1. CASE i = Len(s) + 1
    <3>1. i \in 1..Len(t) /\ t[i] = n /\ u[i] = x
      BY <1>4, <1>6, <1>7, <2>1
    <3> QED
      BY <1>2, <1>6, <3>1
  <2>2. CASE i # Len(s) + 1
    <3>1. i \in 1..Len(s) /\ i \in 1..Len(t)
      BY <1>4, <1>6, <1>7, <2>2
    <3> QED
      BY <1>4, <1>6, <1>7, <3>1
  <2> QED
    BY <2>1, <2>2
<1>9. Items(t) = u
  BY <1>4, <1>6, <1>7, <1>8, SeqEqual
<1> QED
  BY <1>1, <1>3, <1>4, <1>5, <1>9

\* A numbered item that is taken takes its item.
LEMMA ItemsTaken ==
    ASSUME NEW s \in Seq(Nat \X Nat), s # <<>>
    PROVE  /\ Tail(s) \in Seq(Nat \X Nat) /\ Head(s) \in Nat \X Nat
           /\ Items(s) # <<>>
           /\ Items(Tail(s)) = Tail(Items(s)) /\ Head(Items(s)) = Head(s)[2]
<1>1. PICK t : t = Tail(s)
  OBVIOUS
<1>2. PICK v : v = Items(s)
  OBVIOUS
<1>3. /\ t \in Seq(Nat \X Nat) /\ Len(t) = Len(s) - 1 /\ Len(s) \in Nat /\ Len(s) > 0
      /\ \A i \in 1..Len(t) : t[i] = s[i + 1]
      /\ Head(s) = s[1] /\ Head(s) \in Nat \X Nat
  BY <1>1, HeadTailProperties, LenProperties, EmptySeq
<1>4. /\ v \in Seq(Nat) /\ Len(v) = Len(s)
      /\ \A i \in 1..Len(s) : v[i] = s[i][2]
  BY <1>2, ItemsOf
<1>5. v # <<>>
  BY <1>3, <1>4, EmptySeq
<1>6. PICK u : u = Tail(v)
  OBVIOUS
<1>7. /\ u \in Seq(Nat) /\ Len(u) = Len(v) - 1
      /\ \A i \in 1..Len(u) : u[i] = v[i + 1]
      /\ Head(v) = v[1]
  BY <1>4, <1>5, <1>6, HeadTailProperties
<1>8. /\ Items(t) \in Seq(Nat) /\ Len(Items(t)) = Len(t)
      /\ \A i \in 1..Len(t) : Items(t)[i] = t[i][2]
  BY <1>3, ItemsOf
<1>9. ASSUME NEW i \in 1..Len(u)
      PROVE  Items(t)[i] = u[i]
  <2>1. i \in 1..Len(t) /\ i + 1 \in 1..Len(s)
    BY <1>3, <1>4, <1>7
  <2> QED
    BY <1>3, <1>4, <1>7, <1>8, <2>1
<1>10. Items(t) = u
  BY <1>3, <1>4, <1>7, <1>8, <1>9, SeqEqual
<1>11. Head(v) = Head(s)[2]
  BY <1>3, <1>4, <1>7
<1> QED
  BY <1>1, <1>2, <1>3, <1>5, <1>6, <1>10, <1>11

\* A hand holds no item or one.
LEMMA InHandSet ==
    ASSUME NEW x \in Nat
    PROVE  ToSet(InHand(x)) = IF x = 0 THEN {} ELSE {x}
<1>1. ToSet(<<>>) = {}
  BY DEF ToSet
<1>2. ToSet(<<x>>) = {x}
  <2>1. DOMAIN <<x>> = {1} /\ <<x>>[1] = x
    OBVIOUS
  <2> QED
    BY <2>1 DEF ToSet
<1> QED
  BY <1>1, <1>2 DEF InHand

-----------------------------------------------------------------------------
(* The invariant holds at the start and is kept.                           *)

\* Before the source opens nothing is anywhere.
LEMMA LiveInit == Init => LiveInv
<1> SUFFICES ASSUME Init PROVE LiveInv
  OBVIOUS
<1>1. LiveTypeOK
  <2>1. out1 \in Seq(Nat) /\ out2 \in Seq(Nat \X Nat) /\ received \in Seq(Nat \X Nat)
    BY EmptySeq DEF Init
  <2> QED
    BY <2>1 DEF Init, LiveTypeOK
<1>2. OwnerInv
  BY DEF Init, OwnerInv, NeverClosesForeign
<1>3. HandsInv
  BY DEF Init, HandsInv
<1>4. NumbersInv
  BY EmptySeq DEF Init, NumbersInv
<1>5. Items(<<>>) = <<>> /\ Len(<<>>) = 0 /\ ToSet(<<>>) = {} /\ InHand(0) = <<>>
  BY DEF Items, ToSet, InHand
<1>6. /\ received = <<>> /\ out1 = <<>> /\ out2 = <<>> /\ fwItem = 0 /\ rdItem = 0
      /\ arrived = 0
  BY DEF Init
<1>7. PlacesInv
  BY <1>5, <1>6 DEF PlacesInv, Increasing, Before, Taken, Queued2, InForwarder, Queued1,
     InReader, Transit
<1>8. LossInv
  BY <1>6 DEF LossInv, Passed
<1> QED
  BY <1>1, <1>2, <1>3, <1>4, <1>7, <1>8 DEF LiveInv

\* Every step keeps the types.
LEMMA LiveTypeStep == LiveTypeOK /\ [Next]_vars => LiveTypeOK'
<1> SUFFICES ASSUME LiveTypeOK, [Next]_vars PROVE LiveTypeOK'
  OBVIOUS
<1> USE DEF LiveTypeOK
<1>1. CASE Start \/ StartFails \/ Signal \/ OtherOpens
  BY <1>1 DEF Start, StartFails, Signal, OtherOpens, fdVars, rdVars, fwVars, conVars
<1>2. CASE Main
  BY <1>2 DEF Main, CloseSource, Finish, CloseNumber, CloseFile, fdVars, rdVars, fwVars,
     conVars
<1>3. CASE ReaderCheck \/ ReaderGets \/ ReaderFails \/ ReaderAbandons
  BY <1>3 DEF ReaderCheck, ReaderGets, ReaderFails, ReaderAbandons, ReaderReturns,
     CloseNumber, CloseFile, fdVars, fwVars, conVars
<1>4. CASE ReaderSends
  <2>1. out1' \in Seq(Nat)
    BY <1>4, AppendProperties DEF ReaderSends
  <2> QED
    BY <1>4, <2>1 DEF ReaderSends, fdVars, fwVars, conVars
<1>5. CASE ForwarderTakes
  <2>1. out1' \in Seq(Nat) /\ fwItem' \in Nat
    BY <1>5, TakeItem, HeadTailProperties DEF ForwarderTakes
  <2> QED
    BY <1>5, <2>1 DEF ForwarderTakes, fdVars, conVars
<1>6. CASE ForwarderSends
  <2>1. out2' \in Seq(Nat \X Nat)
    BY <1>6, ItemsSent DEF ForwarderSends
  <2> QED
    BY <1>6, <2>1 DEF ForwarderSends, fdVars, rdVars, conVars
<1>7. CASE ForwarderReturns
  BY <1>7 DEF ForwarderReturns, fdVars, rdVars, conVars
<1>8. CASE ConsumerTakes
  <2>1. CASE Engine
    <3>1. Head(out2) \in Nat \X Nat /\ out2' \in Seq(Nat \X Nat) /\ out1' = out1
      BY <1>8, <2>1, ItemsTaken DEF ConsumerTakes
    <3>2. received' \in Seq(Nat \X Nat)
      <4>1. received' = Append(received, Head(out2))
        BY <1>8, <2>1 DEF ConsumerTakes
      <4> QED
        BY <3>1, <4>1, AppendProperties
    <3> QED
      BY <1>8, <3>1, <3>2 DEF ConsumerTakes, fdVars
  <2>2. CASE ~Engine
    <3>1. Head(out1) \in Nat /\ out1' \in Seq(Nat) /\ out2' = out2
      BY <1>8, <2>2, HeadTailProperties DEF ConsumerTakes
    <3>2. Len(received) + 1 \in Nat
      BY LenProperties
    <3>3. received' \in Seq(Nat \X Nat)
      <4>1. received' = Append(received, <<Len(received) + 1, Head(out1)>>)
        BY <1>8, <2>2 DEF ConsumerTakes
      <4> QED
        BY <3>1, <3>2, <4>1, ItemsSent
    <3> QED
      BY <1>8, <3>1, <3>3 DEF ConsumerTakes, fdVars
  <2> QED
    BY <2>1, <2>2
<1>9. CASE ConsumerReturns
  BY <1>9 DEF ConsumerReturns, fdVars, rdVars, fwVars
<1>10. CASE UNCHANGED vars
  BY <1>10 DEF vars
<1> QED
  BY <1>1, <1>2, <1>3, <1>4, <1>5, <1>6, <1>7, <1>8, <1>9, <1>10
     DEF Next, Reader, Forwarder, Consumer

\* The number is given back once: by the reader that owns it, or through the file.
LEMMA OwnerStep ==
    ASSUME LiveTypeOK, OwnerInv, HandsInv, [Next]_vars
    PROVE  OwnerInv'
<1> USE DEF OwnerInv, NeverClosesForeign
<1>0. setup' = setup /\ (Raw' <=> Raw) /\ (Engine' <=> Engine)
  <2>1. setup' = setup
    BY DEF Next, vars, Start, StartFails, Signal, OtherOpens, Main, CloseSource, Finish, Reader,
       ReaderCheck, ReaderGets, ReaderFails, ReaderSends, ReaderAbandons, Forwarder,
       ForwarderTakes, ForwarderSends, ForwarderReturns, Consumer, ConsumerTakes, ConsumerReturns
  <2> QED
    BY <2>1 DEF Raw, Engine
<1>1. ASSUME CloseFile
      PROVE  foreign' => foreign
  <2>1. CASE numOwner = "source"
    BY <1>1, <2>1, Zenon DEF CloseFile, CloseNumber
  <2>2. CASE numOwner # "source"
    BY <1>1, <2>2 DEF CloseFile
  <2> QED
    BY <2>1, <2>2
<1>2. ASSUME CloseNumber, numOwner = "source"
      PROVE  foreign' => foreign
  BY <1>2, Zenon DEF CloseNumber
<1>3. ASSUME rdPc \in {"check", "recv", "send"}, ReaderReturns
      PROVE  OwnerInv'
  <2>1. CASE Raw
    <3>1. CloseNumber
      BY <1>3, <2>1 DEF ReaderReturns
    <3>2. ~Engine => (foreign' => foreign)
      BY <1>2, <1>3, <2>1, <3>1
    <3> QED
      BY <1>0, <1>3, <2>1, <3>2 DEF ReaderReturns
  <2>2. CASE ~Raw
    <3>1. CloseFile
      BY <1>3, <2>2 DEF ReaderReturns
    <3> QED
      BY <1>0, <1>1, <2>2, <3>1
  <2> QED
    BY <2>1, <2>2
<1>4. CASE CloseSource
  <2>1. CASE ~Raw
    <3>1. UNCHANGED foreign \/ CloseFile
      BY <1>4, <2>1 DEF CloseSource
    <3> QED
      BY <1>0, <1>1, <2>1, <3>1
  <2>2. CASE Raw
    BY <1>0, <1>4, <2>2 DEF CloseSource
  <2> QED
    BY <2>1, <2>2
<1>5. CASE ReaderCheck \/ ReaderFails \/ ReaderAbandons
  <2>1. CASE ReaderReturns
    BY <1>3, <1>5, <2>1 DEF ReaderCheck, ReaderFails, ReaderAbandons
  <2>2. CASE ~ReaderReturns
    <3>1. UNCHANGED <<numOwner, foreign>> /\ rdPc \in {"check", "recv"}
      BY <1>5, <2>2 DEF ReaderCheck, ReaderFails, ReaderAbandons
    <3> QED
      BY <1>0, <3>1
  <2> QED
    BY <2>1, <2>2
<1>6. CASE Start \/ StartFails
  <2>1. CASE Start
    BY <1>0, <2>1 DEF Start
  <2>2. CASE StartFails
    <3>1. UNCHANGED <<numOwner, foreign, rdPc>>
      BY <2>2 DEF StartFails, rdVars
    <3> QED
      BY <1>0, <3>1
  <2> QED
    BY <1>6, <2>1, <2>2
<1>7. CASE OtherOpens
  BY <1>0, <1>7 DEF OtherOpens, rdVars
<1>8. CASE ReaderGets \/ ReaderSends
  BY <1>0, <1>8 DEF ReaderGets, ReaderSends, fdVars
<1>9. CASE UNCHANGED <<numOwner, foreign, rdPc>>
  BY <1>0, <1>9
<1> QED
  BY <1>4, <1>5, <1>6, <1>7, <1>8, <1>9
     DEF Next, vars, Signal, Main, Finish, Reader, Forwarder, ForwarderTakes, ForwarderSends,
         ForwarderReturns, Consumer, ConsumerTakes, ConsumerReturns, fdVars, rdVars

\* The kind of source and of tool does not change.
LEMMA SetupKept ==
    ASSUME [Next]_vars
    PROVE  (Raw' <=> Raw) /\ (Engine' <=> Engine) /\ \A i : Passes(i)' <=> Passes(i)
<1>1. setup' = setup
  BY DEF Next, vars, Start, StartFails, Signal, OtherOpens, Main, CloseSource, Finish, Reader,
     ReaderCheck, ReaderGets, ReaderFails, ReaderSends, ReaderAbandons, Forwarder,
     ForwarderTakes, ForwarderSends, ForwarderReturns, Consumer, ConsumerTakes, ConsumerReturns
<1> QED
  BY <1>1 DEF Raw, Engine, Passes

\* A goroutine holds an item exactly while it waits to send it on.
LEMMA HandsStep ==
    ASSUME LiveTypeOK, HandsInv, PlacesInv, [Next]_vars
    PROVE  HandsInv'
<1> USE SetupKept DEF HandsInv, LiveTypeOK
<1>1. CASE Start \/ StartFails \/ Signal \/ OtherOpens
  BY <1>1 DEF Start, StartFails, Signal, OtherOpens, fdVars, rdVars, fwVars, conVars
<1>2. CASE Main
  BY <1>2 DEF Main, CloseSource, Finish, fdVars, rdVars, fwVars, conVars
<1>3. CASE ReaderCheck \/ ReaderFails \/ ReaderAbandons \/ ReaderSends
  BY <1>3 DEF ReaderCheck, ReaderFails, ReaderAbandons, ReaderSends, ReaderReturns, fwVars
<1>4. CASE ReaderGets
  BY <1>4 DEF ReaderGets, fwVars
<1>5. CASE ForwarderTakes
  <2>1. Head(out1) \in Queued1
    BY <1>5, ToSetOf, TakeItem DEF ForwarderTakes, Queued1, PlacesInv
  <2>2. Head(out1) # 0
    BY <2>1 DEF PlacesInv, Transit, Passed
  <2> QED
    BY <1>5, <2>2 DEF ForwarderTakes
<1>6. CASE ForwarderSends \/ ForwarderReturns
  BY <1>6 DEF ForwarderSends, ForwarderReturns, rdVars
<1>7. CASE Consumer
  BY <1>7 DEF Consumer, ConsumerTakes, ConsumerReturns, rdVars, fwVars
<1>8. CASE UNCHANGED vars
  BY <1>8 DEF vars
<1> QED
  BY <1>1, <1>2, <1>3, <1>4, <1>5, <1>6, <1>7, <1>8 DEF Next, Reader, Forwarder

\* The numbers of the consumer, of the channel and of the forwarder follow one another.
LEMMA NumbersStep ==
    ASSUME LiveTypeOK, HandsInv, NumbersInv, [Next]_vars
    PROVE  NumbersInv'
<1>0. (Engine' <=> Engine) /\ Len(received) \in Nat /\ Len(out2) \in Nat /\ fwId \in Nat
  BY SetupKept, LenProperties DEF LiveTypeOK
<1>1. CASE UNCHANGED <<received, out2, fwId, fwPc>>
  BY <1>0, <1>1 DEF NumbersInv
<1>2. CASE Start
  <2>1. UNCHANGED <<received, out2, fwId>> /\ fwPc = "none" /\ fwPc' \in {"take", "none"}
    BY <1>2 DEF Start, HandsInv
  <2> QED
    BY <1>0, <2>1 DEF NumbersInv
<1>3. CASE ForwarderTakes
  <2>1. /\ UNCHANGED <<received, out2>>
        /\ fwPc = "take" /\ fwPc' = "send" /\ fwId' = fwId + 1
    BY <1>3 DEF ForwarderTakes, conVars
  <2> QED
    BY <1>0, <2>1 DEF NumbersInv
<1>4. CASE ForwarderReturns
  BY <1>0, <1>4 DEF ForwarderReturns, NumbersInv, conVars
<1>5. CASE ForwarderSends
  <2>1. /\ received' = received /\ fwId' = fwId /\ fwPc = "send" /\ fwPc' = "take"
        /\ out2' = Append(out2, <<fwId, fwItem>>) /\ Engine
    BY <1>5 DEF ForwarderSends, conVars, HandsInv
  <2>2. PICK n : n = <<fwId, fwItem>>
    OBVIOUS
  <2>3. n \in Nat \X Nat /\ n[1] = fwId
    BY <2>2 DEF LiveTypeOK
  <2>4. /\ Len(out2') = Len(out2) + 1
        /\ \A i \in 1..Len(out2) : out2'[i] = out2[i]
        /\ out2'[Len(out2) + 1] = n
    BY <2>1, <2>2, <2>3, AppendProperties DEF LiveTypeOK
  <2>5. fwId = Len(received) + Len(out2) + 1
    BY <2>1 DEF NumbersInv
  <2>6. ASSUME NEW i \in 1..Len(out2')
        PROVE  out2'[i][1] = Len(received) + i
    <3>1. CASE i \in 1..Len(out2)
      BY <2>4, <3>1 DEF NumbersInv
    <3>2. CASE i = Len(out2) + 1
      BY <1>0, <2>3, <2>4, <2>5, <3>2
    <3> QED
      BY <1>0, <2>4, <3>1, <3>2
  <2> QED
    BY <1>0, <2>1, <2>4, <2>5, <2>6 DEF NumbersInv
<1>6. CASE ConsumerTakes /\ Engine
  <2>1. /\ UNCHANGED <<fwId, fwPc>> /\ out2 # <<>>
        /\ received' = Append(received, Head(out2)) /\ out2' = Tail(out2)
    BY <1>6 DEF ConsumerTakes
  <2>2. PICK n : n = Head(out2)
    OBVIOUS
  <2>3. /\ n \in Nat \X Nat /\ n = out2[1] /\ Len(out2) > 0
        /\ Len(out2') = Len(out2) - 1
        /\ \A i \in 1..Len(out2') : out2'[i] = out2[i + 1]
    BY <2>1, <2>2, HeadTailProperties, EmptySeq DEF LiveTypeOK
  <2>4. /\ Len(received') = Len(received) + 1
        /\ \A i \in 1..Len(received) : received'[i] = received[i]
        /\ received'[Len(received) + 1] = n
    BY <2>1, <2>2, <2>3, AppendProperties DEF LiveTypeOK
  <2>5. n[1] = Len(received) + 1
    BY <1>0, <2>3 DEF NumbersInv
  <2>6. \A i \in 1..Len(received') : received'[i][1] = i
    BY <1>0, <2>4, <2>5 DEF NumbersInv
  <2>7. ASSUME NEW i \in 1..Len(out2')
        PROVE  out2'[i][1] = Len(received') + i
    <3>1. i + 1 \in 1..Len(out2) /\ out2'[i] = out2[i + 1]
      BY <1>0, <2>3
    <3>2. out2[i + 1][1] = Len(received) + (i + 1)
      BY <3>1 DEF NumbersInv
    <3> QED
      BY <1>0, <2>4, <3>1, <3>2
  <2>8. Engine /\ fwPc' # "exited" =>
          fwId' = Len(received') + Len(out2') + IF fwPc' = "send" THEN 1 ELSE 0
    <3>1. Len(received') + Len(out2') = Len(received) + Len(out2)
      BY <1>0, <2>3, <2>4
    <3> QED
      BY <2>1, <3>1 DEF NumbersInv
  <2> QED
    BY <1>0, <2>6, <2>7, <2>8 DEF NumbersInv
<1>7. CASE ConsumerTakes /\ ~Engine
  <2>1. /\ out2' = out2 /\ out2 = <<>>
        /\ received' = Append(received, <<Len(received) + 1, Head(out1)>>)
        /\ Head(out1) \in Nat
    BY <1>7, HeadTailProperties DEF ConsumerTakes, HandsInv, LiveTypeOK
  <2>2. PICK n : n = <<Len(received) + 1, Head(out1)>>
    OBVIOUS
  <2>3. n \in Nat \X Nat /\ n[1] = Len(received) + 1
    BY <1>0, <2>1, <2>2
  <2>4. /\ Len(received') = Len(received) + 1
        /\ \A i \in 1..Len(received) : received'[i] = received[i]
        /\ received'[Len(received) + 1] = n
    BY <2>1, <2>2, <2>3, AppendProperties DEF LiveTypeOK
  <2>5. \A i \in 1..Len(received') : received'[i][1] = i
    BY <1>0, <2>3, <2>4 DEF NumbersInv
  <2> QED
    BY <1>0, <1>7, <2>1, <2>5, EmptySeq DEF NumbersInv
<1> QED
  BY <1>1, <1>2, <1>3, <1>4, <1>5, <1>6, <1>7
     DEF Next, vars, StartFails, Signal, OtherOpens, Main, CloseSource, Finish, Reader,
         ReaderCheck, ReaderGets, ReaderFails, ReaderSends, ReaderAbandons, Forwarder, Consumer,
         ConsumerReturns, rdVars, fwVars, conVars

\* What is in the places: numbers, one of them in a hand at most.
LEMMA PlacesAre ==
    ASSUME LiveTypeOK
    PROVE  /\ Items(received) \in Seq(Nat) /\ Items(out2) \in Seq(Nat) /\ out1 \in Seq(Nat)
           /\ InForwarder = (IF fwItem = 0 THEN {} ELSE {fwItem})
           /\ InReader = (IF rdItem = 0 THEN {} ELSE {rdItem})
           /\ arrived \in Nat /\ rdItem \in Nat /\ fwItem \in Nat
BY ItemsOf, InHandSet DEF LiveTypeOK, InForwarder, InReader

\* The same of the hands after a step.
LEMMA PlacesAreNext ==
    ASSUME LiveTypeOK'
    PROVE  /\ InForwarder' = (IF fwItem' = 0 THEN {} ELSE {fwItem'})
           /\ InReader' = (IF rdItem' = 0 THEN {} ELSE {rdItem'})
BY InHandSet DEF LiveTypeOK, InForwarder, InReader

\* What a step leaves in its place.
LEMMA PlacesKept ==
    /\ received' = received => Items(received)' = Items(received) /\ Taken' = Taken
    /\ out2' = out2 => Items(out2)' = Items(out2) /\ Queued2' = Queued2
    /\ fwItem' = fwItem => InForwarder' = InForwarder
    /\ out1' = out1 => Queued1' = Queued1
    /\ rdItem' = rdItem => InReader' = InReader
BY DEF Taken, Queued2, InForwarder, Queued1, InReader, Items

\* An item moves from one place to the next: everything stays in order, and nothing
\* is lost.
LEMMA PlacesStep ==
    ASSUME LiveTypeOK, LiveTypeOK', HandsInv, PlacesInv, LossInv, [Next]_vars
    PROVE  PlacesInv' /\ LossInv'
<1>0. \A i : Passes(i)' <=> Passes(i)
  BY SetupKept
<1>a. /\ Items(received) \in Seq(Nat) /\ Items(out2) \in Seq(Nat) /\ out1 \in Seq(Nat)
      /\ InForwarder = (IF fwItem = 0 THEN {} ELSE {fwItem})
      /\ InReader = (IF rdItem = 0 THEN {} ELSE {rdItem})
      /\ InForwarder' = (IF fwItem' = 0 THEN {} ELSE {fwItem'})
      /\ InReader' = (IF rdItem' = 0 THEN {} ELSE {rdItem'})
      /\ arrived \in Nat /\ rdItem \in Nat /\ fwItem \in Nat
  BY PlacesAre, PlacesAreNext
<1>b. arrived' = arrived => Passed(arrived)' = Passed(arrived)
  BY <1>0 DEF Passed
<1>1. ASSUME UNCHANGED <<received, out2, fwItem, out1, rdItem, arrived>>,
             ctxDone => ctxDone', rdPc = "exited" => rdPc' = "exited",
             fwPc = "exited" <=> fwPc' = "exited"
      PROVE  PlacesInv' /\ LossInv'
  <2>1. /\ Taken' = Taken /\ Queued2' = Queued2 /\ InForwarder' = InForwarder
        /\ Queued1' = Queued1 /\ InReader' = InReader /\ Passed(arrived)' = Passed(arrived)
        /\ Items(received)' = Items(received) /\ Items(out2)' = Items(out2) /\ out1' = out1
    BY <1>1, <1>b, PlacesKept
  <2>2. Transit' = Transit /\ Coming' = Coming
    BY <1>1, <2>1 DEF Transit, Coming
  <2>3. PlacesInv'
    BY <2>1, <2>2 DEF PlacesInv, Increasing, Before
  <2>4. LossInv'
    BY <1>1, <2>1, <2>2 DEF LossInv
  <2> QED
    BY <2>3, <2>4
<1>2. CASE ReaderGets
  <2>1. /\ UNCHANGED <<received, out2, fwItem, out1, ctxDone, fwPc>>
        /\ arrived' = arrived + 1 /\ rdPc = "recv" /\ rdItem = 0
        /\ rdItem' = IF Passes(arrived + 1) THEN arrived + 1 ELSE 0
    BY <1>2 DEF ReaderGets, fwVars, conVars, HandsInv
  <2>2. /\ Taken' = Taken /\ Queued2' = Queued2 /\ InForwarder' = InForwarder
        /\ Queued1' = Queued1
        /\ Items(received)' = Items(received) /\ Items(out2)' = Items(out2) /\ out1' = out1
    BY <2>1, PlacesKept
  <2>3. /\ InReader = {}
        /\ InReader' = IF Passes(arrived + 1) THEN {arrived + 1} ELSE {}
    <3>1. InReader = {}
      BY <1>a, <2>1
    <3>2. arrived + 1 # 0
      BY <1>a
    <3>3. CASE Passes(arrived + 1)
      <4>1. rdItem' = arrived + 1
        BY <2>1, <3>3
      <4> QED
        BY <1>a, <3>1, <3>2, <3>3, <4>1
    <3>4. CASE ~Passes(arrived + 1)
      <4>1. rdItem' = 0
        BY <2>1, <3>4
      <4> QED
        BY <1>a, <3>1, <3>4, <4>1
    <3> QED
      BY <3>3, <3>4
  <2>4. Passed(arrived)' = Passed(arrived) \cup InReader'
    <3>1. 1..(arrived + 1) = (1..arrived) \cup {arrived + 1}
      BY <1>a
    <3> QED
      BY <1>0, <2>1, <2>3, <3>1 DEF Passed
  <2>5. Transit' = Transit \cup InReader' /\ \A x \in Transit : x < arrived + 1
    <3>1. Transit' = Transit \cup InReader'
      BY <2>2, <2>3 DEF Transit
    <3>2. \A x \in Transit : x \in 1..arrived
      BY DEF PlacesInv, Passed
    <3> QED
      BY <1>a, <3>1, <3>2
  <2>6. PlacesInv'
    <3>1. Before(Taken \cup Queued2 \cup InForwarder \cup Queued1, InReader')
      BY <2>3, <2>5 DEF Before, Transit
    <3>2. Transit' \subseteq Passed(arrived)'
      BY <2>4, <2>5 DEF PlacesInv
    <3> QED
      BY <2>2, <3>1, <3>2 DEF PlacesInv, Increasing, Before
  <2>7. LossInv'
    <3>1. Passed(arrived)' \ Transit' \subseteq Passed(arrived) \ Transit
      BY <2>4, <2>5
    <3>2. ASSUME NEW x \in Passed(arrived) \ Transit
          PROVE  ctxDone' /\ fwPc' = "exited" /\ \A y \in Coming' : y < x
      <4>1. ctxDone /\ fwPc = "exited" /\ \A y \in Coming : y < x
        BY <2>1 DEF LossInv
      <4>2. Coming' = Coming
        BY <2>1, <2>2, <4>1 DEF Coming
      <4> QED
        BY <2>1, <4>1, <4>2
    <3> QED
      BY <3>1, <3>2 DEF LossInv
  <2> QED
    BY <2>6, <2>7
<1>3. CASE ReaderSends
  <2>1. /\ UNCHANGED <<received, out2, fwItem, ctxDone, fwPc, arrived>>
        /\ rdPc = "send" /\ rdItem # 0 /\ rdItem' = 0
        /\ out1' = Append(out1, rdItem)
    BY <1>3 DEF ReaderSends, fwVars, conVars, HandsInv
  <2>2. /\ Taken' = Taken /\ Queued2' = Queued2 /\ InForwarder' = InForwarder
        /\ Items(received)' = Items(received) /\ Items(out2)' = Items(out2)
        /\ Passed(arrived)' = Passed(arrived)
    BY <1>b, <2>1, PlacesKept
  <2>3. InReader = {rdItem} /\ InReader' = {}
    BY <1>a, <2>1
  <2>4. Queued1' = Queued1 \cup {rdItem} /\ Increasing(out1')
    <3>1. \A y \in ToSet(out1) : y < rdItem
      BY <2>3 DEF PlacesInv, Before, Queued1
    <3>2. Increasing(out1)
      BY DEF PlacesInv
    <3> QED
      BY <1>a, <2>1, <3>1, <3>2, SendItem DEF Queued1
  <2>5. Transit' = Transit
    BY <2>2, <2>3, <2>4 DEF Transit
  <2>6. PlacesInv'
    <3>1. Before(Taken \cup Queued2 \cup InForwarder, Queued1')
      BY <2>3, <2>4 DEF PlacesInv, Before
    <3>2. Before(Taken \cup Queued2 \cup InForwarder \cup Queued1', InReader')
      BY <2>3 DEF Before
    <3> QED
      BY <2>2, <2>4, <2>5, <3>1, <3>2 DEF PlacesInv, Increasing, Before
  <2>7. Coming' = Coming
    BY <2>1, <2>2, <2>3, <2>4 DEF Coming
  <2>8. LossInv'
    BY <2>1, <2>2, <2>5, <2>7 DEF LossInv
  <2> QED
    BY <2>6, <2>8
<1>4. ASSUME UNCHANGED <<received, out2, fwItem, out1, ctxDone, fwPc, arrived>>,
             ctxDone, rdPc' = "exited", rdItem' = 0
      PROVE  PlacesInv' /\ LossInv'
  <2>1. /\ Taken' = Taken /\ Queued2' = Queued2 /\ InForwarder' = InForwarder
        /\ Queued1' = Queued1 /\ Passed(arrived)' = Passed(arrived)
        /\ Items(received)' = Items(received) /\ Items(out2)' = Items(out2) /\ out1' = out1
    BY <1>4, <1>b, PlacesKept
  <2>2. InReader' = {}
    BY <1>a, <1>4
  <2>3. Transit' \subseteq Transit /\ Transit \subseteq Transit' \cup InReader
    BY <2>1, <2>2 DEF Transit
  <2>4. PlacesInv'
    BY <2>1, <2>2, <2>3 DEF PlacesInv, Increasing, Before
  <2>5. LossInv'
    <3>1. ASSUME NEW x \in Passed(arrived)' \ Transit', NEW y \in Coming'
          PROVE  y < x
      <4>1. y \in Coming
        BY <1>4, <2>1, <2>2 DEF Coming
      <4>2. CASE x \in InReader
        <5>1. y \in Taken \cup Queued2 \cup InForwarder \cup Queued1
          BY <2>1, <2>2 DEF Coming
        <5> QED
          BY <4>2, <5>1 DEF PlacesInv, Before
      <4>3. CASE x \notin InReader
        BY <2>1, <2>3, <4>1, <4>3 DEF LossInv
      <4> QED
        BY <4>2, <4>3
    <3> QED
      BY <1>4, <3>1 DEF LossInv
  <2> QED
    BY <2>4, <2>5
<1>5. CASE ReaderCheck \/ ReaderFails \/ ReaderAbandons
  <2>1. /\ UNCHANGED <<received, out2, fwItem, out1, ctxDone, fwPc, arrived>>
        /\ rdPc # "exited"
    BY <1>5 DEF ReaderCheck, ReaderFails, ReaderAbandons, fwVars, conVars
  <2>2. CASE ctxDone /\ ReaderReturns
    BY <1>4, <2>1, <2>2 DEF ReaderReturns
  <2>3. CASE ~(ctxDone /\ ReaderReturns)
    <3>1. rdItem' = rdItem
      BY <1>5, <2>3 DEF ReaderCheck, ReaderFails, ReaderAbandons, ReaderReturns, HandsInv
    <3> QED
      BY <1>1, <2>1, <3>1
  <2> QED
    BY <2>2, <2>3
<1>6. CASE ForwarderTakes
  <2>1. PICK x : x = Head(out1)
    OBVIOUS
  <2>2. /\ UNCHANGED <<received, out2, rdItem, ctxDone, rdPc, arrived>>
        /\ fwPc = "take" /\ fwPc' = "send" /\ fwItem = 0 /\ fwItem' = x
        /\ out1 # <<>> /\ out1' = Tail(out1)
    BY <1>6, <2>1 DEF ForwarderTakes, conVars, HandsInv
  <2>3. /\ Taken' = Taken /\ Queued2' = Queued2 /\ InReader' = InReader
        /\ Items(received)' = Items(received) /\ Items(out2)' = Items(out2)
        /\ Passed(arrived)' = Passed(arrived)
    BY <1>b, <2>2, PlacesKept
  <2>4. /\ Queued1 = {x} \cup Queued1' /\ Increasing(out1')
        /\ \A y \in Queued1' : x < y
    BY <1>a, <2>1, <2>2, TakeItem DEF PlacesInv, Queued1
  <2>5. InForwarder = {} /\ InForwarder' = {x}
    <3>1. x # 0
      BY <2>4 DEF PlacesInv, Transit, Passed
    <3> QED
      BY <1>a, <2>2, <3>1
  <2>6. Transit' = Transit
    BY <2>3, <2>4, <2>5 DEF Transit
  <2>7. PlacesInv'
    <3>1. Before(Taken \cup Queued2, InForwarder')
      BY <2>4, <2>5 DEF PlacesInv, Before
    <3>2. Before(Taken \cup Queued2 \cup InForwarder', Queued1')
      BY <2>4, <2>5 DEF PlacesInv, Before
    <3>3. Before(Taken \cup Queued2 \cup InForwarder' \cup Queued1', InReader)
      BY <2>4, <2>5 DEF PlacesInv, Before
    <3> QED
      BY <2>3, <2>4, <2>6, <3>1, <3>2, <3>3 DEF PlacesInv, Increasing, Before
  <2>8. Coming' = Coming
    BY <2>2, <2>3, <2>4, <2>5 DEF Coming
  <2>9. LossInv'
    BY <2>2, <2>3, <2>6, <2>8 DEF LossInv
  <2> QED
    BY <2>7, <2>9
<1>7. CASE ForwarderSends
  <2>1. /\ UNCHANGED <<received, out1, rdItem, ctxDone, rdPc, arrived>>
        /\ fwPc = "send" /\ fwPc' = "take" /\ fwItem # 0 /\ fwItem' = 0
        /\ out2' = Append(out2, <<fwId, fwItem>>)
    BY <1>7 DEF ForwarderSends, rdVars, conVars, HandsInv
  <2>2. /\ Taken' = Taken /\ Queued1' = Queued1 /\ InReader' = InReader
        /\ Items(received)' = Items(received) /\ out1' = out1
        /\ Passed(arrived)' = Passed(arrived)
    BY <1>b, <2>1, PlacesKept
  <2>3. InForwarder = {fwItem} /\ InForwarder' = {}
    BY <1>a, <2>1
  <2>4. Items(out2)' = Append(Items(out2), fwItem)
    <3>1. Items(Append(out2, <<fwId, fwItem>>)) = Append(Items(out2), fwItem)
      BY ItemsSent DEF LiveTypeOK
    <3>2. Items(out2)' = Items(out2')
      BY DEF Items
    <3> QED
      BY <2>1, <3>1, <3>2
  <2>5. Queued2' = Queued2 \cup {fwItem} /\ Increasing(Append(Items(out2), fwItem))
    <3>1. \A y \in ToSet(Items(out2)) : y < fwItem
      BY <2>3 DEF PlacesInv, Before, Queued2
    <3>2. Increasing(Items(out2))
      BY DEF PlacesInv
    <3>3. ToSet(Append(Items(out2), fwItem)) = ToSet(Items(out2)) \cup {fwItem}
      BY <1>a, <3>1, <3>2, SendItem
    <3>4. Queued2' = ToSet(Append(Items(out2), fwItem))
      BY <2>4 DEF Queued2
    <3> QED
      BY <1>a, <3>1, <3>2, <3>3, <3>4, SendItem DEF Queued2
  <2>6. Transit' = Transit
    BY <2>2, <2>3, <2>5 DEF Transit
  <2>7. PlacesInv'
    <3>1. Increasing(Items(out2))'
      BY <2>4, <2>5 DEF Increasing
    <3>2. Before(Taken, Queued2')
      BY <2>3, <2>5 DEF PlacesInv, Before
    <3>3. Taken \cup Queued2' \cup InForwarder' = Taken \cup Queued2 \cup InForwarder
      BY <2>3, <2>5
    <3>4. Before(Taken \cup Queued2', InForwarder')
      BY <2>3 DEF Before
    <3>5. Before(Taken \cup Queued2' \cup InForwarder', Queued1)
      BY <3>3 DEF PlacesInv
    <3>6. Before(Taken \cup Queued2' \cup InForwarder' \cup Queued1, InReader)
      BY <3>3 DEF PlacesInv
    <3>7. Increasing(Items(received))' /\ Increasing(out1)' /\ Transit' \subseteq Passed(arrived)'
      BY <2>2, <2>6 DEF PlacesInv, Increasing
    <3>8. Before(Taken, Queued2)' /\ Before(Taken \cup Queued2, InForwarder)'
          /\ Before(Taken \cup Queued2 \cup InForwarder, Queued1)'
          /\ Before(Taken \cup Queued2 \cup InForwarder \cup Queued1, InReader)'
      BY <2>2, <3>2, <3>4, <3>5, <3>6 DEF Before
    <3> QED
      BY <3>1, <3>7, <3>8 DEF PlacesInv
  <2>8. Coming' = Coming
    BY <2>1, <2>2, <2>3, <2>5 DEF Coming
  <2>9. LossInv'
    BY <2>1, <2>2, <2>6, <2>8 DEF LossInv
  <2> QED
    BY <2>7, <2>9
<1>8. CASE ForwarderReturns
  <2>1. /\ UNCHANGED <<received, out2, out1, rdItem, ctxDone, rdPc, arrived>>
        /\ fwPc' = "exited" /\ fwPc # "exited" /\ fwItem' = 0
        /\ fwItem = 0 \/ ctxDone
    BY <1>8 DEF ForwarderReturns, rdVars, conVars, HandsInv
  <2>2. /\ Taken' = Taken /\ Queued2' = Queued2 /\ Queued1' = Queued1 /\ InReader' = InReader
        /\ Items(received)' = Items(received) /\ Items(out2)' = Items(out2) /\ out1' = out1
        /\ Passed(arrived)' = Passed(arrived)
    BY <1>b, <2>1, PlacesKept
  <2>3. InForwarder' = {} /\ (InForwarder = {} \/ ctxDone)
    BY <1>a, <2>1
  <2>4. Transit' \subseteq Transit /\ Transit \subseteq Transit' \cup InForwarder
    BY <2>2, <2>3 DEF Transit
  <2>5. PlacesInv'
    BY <2>2, <2>3, <2>4 DEF PlacesInv, Increasing, Before
  <2>6. Coming' = Taken \cup Queued2 /\ Coming' \subseteq Coming
    BY <2>1, <2>2, <2>3 DEF Coming
  <2>7. LossInv'
    <3>1. ASSUME NEW x \in Passed(arrived)' \ Transit'
          PROVE  ctxDone /\ \A y \in Coming' : y < x
      <4>1. CASE x \in InForwarder
        BY <2>3, <2>6, <4>1 DEF PlacesInv, Before
      <4>2. CASE x \notin InForwarder
        BY <2>2, <2>4, <2>6, <4>2 DEF LossInv
      <4> QED
        BY <4>1, <4>2
    <3> QED
      BY <2>1, <3>1 DEF LossInv
  <2> QED
    BY <2>5, <2>7
<1>9. CASE ConsumerTakes /\ Engine
  <2>1. PICK h : h = Head(out2)
    OBVIOUS
  <2>2. /\ UNCHANGED <<fwItem, fwPc, out1, rdItem, ctxDone, rdPc, arrived>>
        /\ out2 # <<>> /\ out2' = Tail(out2) /\ received' = Append(received, h)
    BY <1>9, <2>1 DEF ConsumerTakes
  <2>3. h \in Nat \X Nat
    BY <2>1, <2>2, ItemsTaken DEF LiveTypeOK
  <2>4. PICK k \in Nat, x \in Nat : h = <<k, x>>
    BY <2>3
  <2>5. /\ InForwarder' = InForwarder /\ Queued1' = Queued1 /\ InReader' = InReader
        /\ out1' = out1 /\ Passed(arrived)' = Passed(arrived)
    BY <1>b, <2>2, PlacesKept
  <2>6. Items(received)' = Append(Items(received), x)
    <3>1. Items(Append(received, <<k, x>>)) = Append(Items(received), x)
      BY ItemsSent DEF LiveTypeOK
    <3>2. Items(received)' = Items(received')
      BY DEF Items
    <3> QED
      BY <2>2, <2>4, <3>1, <3>2
  <2>7. Items(out2)' = Tail(Items(out2)) /\ Head(Items(out2)) = x /\ Items(out2) # <<>>
    <3>1. /\ Items(Tail(out2)) = Tail(Items(out2)) /\ Head(Items(out2)) = Head(out2)[2]
          /\ Items(out2) # <<>>
      BY <2>2, ItemsTaken DEF LiveTypeOK
    <3>2. Items(out2)' = Items(out2')
      BY DEF Items
    <3>3. Head(out2)[2] = x
      BY <2>1, <2>4
    <3> QED
      BY <2>2, <3>1, <3>2, <3>3
  <2>8. /\ Queued2 = {x} \cup Queued2' /\ Increasing(Tail(Items(out2)))
        /\ \A y \in Queued2' : x < y
    <3>1. Increasing(Items(out2))
      BY DEF PlacesInv
    <3>2. /\ ToSet(Items(out2)) = {x} \cup ToSet(Tail(Items(out2)))
          /\ Increasing(Tail(Items(out2)))
          /\ \A y \in ToSet(Tail(Items(out2))) : x < y
      BY <1>a, <2>7, <3>1, TakeItem
    <3>3. Queued2' = ToSet(Tail(Items(out2)))
      BY <2>7 DEF Queued2
    <3> QED
      BY <3>2, <3>3 DEF Queued2
  <2>9. Taken' = Taken \cup {x} /\ Increasing(Append(Items(received), x))
    <3>1. \A y \in ToSet(Items(received)) : y < x
      BY <2>8 DEF PlacesInv, Before, Taken
    <3>2. Increasing(Items(received))
      BY DEF PlacesInv
    <3>3. /\ ToSet(Append(Items(received), x)) = ToSet(Items(received)) \cup {x}
          /\ Increasing(Append(Items(received), x))
      BY <1>a, <3>1, <3>2, SendItem
    <3>4. Taken' = ToSet(Append(Items(received), x))
      BY <2>6 DEF Taken
    <3> QED
      BY <3>3, <3>4 DEF Taken
  <2>10. Taken' \cup Queued2' = Taken \cup Queued2
    BY <2>8, <2>9
  <2>11. Transit' = Transit /\ Coming' = Coming
    BY <2>2, <2>5, <2>10 DEF Transit, Coming
  <2>12. PlacesInv'
    <3>1. Increasing(Items(received))' /\ Increasing(Items(out2))' /\ Increasing(out1)'
      BY <2>5, <2>6, <2>7, <2>8, <2>9 DEF Increasing, PlacesInv
    <3>2. Before(Taken, Queued2)'
      BY <2>8, <2>9 DEF PlacesInv, Before
    <3>3. /\ Before(Taken \cup Queued2, InForwarder)'
          /\ Before(Taken \cup Queued2 \cup InForwarder, Queued1)'
          /\ Before(Taken \cup Queued2 \cup InForwarder \cup Queued1, InReader)'
      BY <2>5, <2>10 DEF PlacesInv, Before
    <3> QED
      BY <2>5, <2>11, <3>1, <3>2, <3>3 DEF PlacesInv
  <2>13. LossInv'
    BY <2>2, <2>5, <2>11 DEF LossInv
  <2> QED
    BY <2>12, <2>13
<1>10. CASE ConsumerTakes /\ ~Engine
  <2>1. PICK x : x = Head(out1)
    OBVIOUS
  <2>2. /\ UNCHANGED <<fwItem, fwPc, out2, rdItem, ctxDone, rdPc, arrived>>
        /\ out1 # <<>> /\ out1' = Tail(out1)
        /\ received' = Append(received, <<Len(received) + 1, x>>)
        /\ out2 = <<>> /\ fwPc = "none" /\ fwItem = 0
    BY <1>10, <2>1 DEF ConsumerTakes, HandsInv
  <2>3. /\ Queued2' = Queued2 /\ InForwarder' = InForwarder /\ InReader' = InReader
        /\ Items(out2)' = Items(out2) /\ Passed(arrived)' = Passed(arrived)
    BY <1>b, <2>2, PlacesKept
  <2>4. Queued2 = {} /\ InForwarder = {}
    <3>1. Queued2 = {}
      BY <2>2 DEF Queued2, Items, ToSet
    <3> QED
      BY <1>a, <2>2, <3>1
  <2>5. /\ Queued1 = {x} \cup Queued1' /\ Increasing(out1') /\ x \in Nat
        /\ \A y \in Queued1' : x < y
    BY <1>a, <2>1, <2>2, TakeItem DEF PlacesInv, Queued1
  <2>6. Items(received)' = Append(Items(received), x)
    <3>1. Len(received) + 1 \in Nat
      BY LenProperties DEF LiveTypeOK
    <3>2. Items(Append(received, <<Len(received) + 1, x>>)) = Append(Items(received), x)
      BY <2>5, <3>1, ItemsSent DEF LiveTypeOK
    <3>3. Items(received)' = Items(received')
      BY DEF Items
    <3> QED
      BY <2>2, <3>2, <3>3
  <2>7. Taken' = Taken \cup {x} /\ Increasing(Append(Items(received), x))
    <3>1. \A y \in ToSet(Items(received)) : y < x
      BY <2>5 DEF PlacesInv, Before, Taken
    <3>2. Increasing(Items(received))
      BY DEF PlacesInv
    <3>3. /\ ToSet(Append(Items(received), x)) = ToSet(Items(received)) \cup {x}
          /\ Increasing(Append(Items(received), x))
      BY <1>a, <2>5, <3>1, <3>2, SendItem
    <3>4. Taken' = ToSet(Append(Items(received), x))
      BY <2>6 DEF Taken
    <3> QED
      BY <3>3, <3>4 DEF Taken
  <2>8. Transit' = Transit /\ Coming' = Coming
    BY <2>2, <2>3, <2>5, <2>7 DEF Transit, Coming
  <2>9. PlacesInv'
    <3>1. Increasing(Items(received))' /\ Increasing(Items(out2))' /\ Increasing(out1)'
      BY <2>3, <2>5, <2>6, <2>7 DEF Increasing, PlacesInv
    <3>2. Before(Taken, Queued2)' /\ Before(Taken \cup Queued2, InForwarder)'
      BY <2>3, <2>4 DEF Before
    <3>3. Before(Taken \cup Queued2 \cup InForwarder, Queued1)'
      BY <2>3, <2>4, <2>5, <2>7 DEF PlacesInv, Before
    <3>4. Before(Taken \cup Queued2 \cup InForwarder \cup Queued1, InReader)'
      BY <2>3, <2>5, <2>7 DEF PlacesInv, Before
    <3> QED
      BY <2>3, <2>8, <3>1, <3>2, <3>3, <3>4 DEF PlacesInv
  <2>10. LossInv'
    BY <2>2, <2>3, <2>8 DEF LossInv
  <2> QED
    BY <2>9, <2>10
<1>11. CASE Start
  <2>1. /\ UNCHANGED <<received, out2, fwItem, out1, rdItem, arrived, ctxDone>>
        /\ rdPc = "none" /\ fwPc = "none" /\ fwPc' # "exited"
    BY <1>11 DEF Start, HandsInv
  <2> QED
    BY <1>1, <2>1
<1>12. CASE StartFails \/ Signal \/ OtherOpens \/ Main \/ ConsumerReturns \/ UNCHANGED vars
  <2>1. UNCHANGED <<received, out2, fwItem, out1, rdItem, arrived, rdPc, fwPc>>
    <3>1. CASE StartFails \/ Signal \/ OtherOpens
      BY <3>1 DEF StartFails, Signal, OtherOpens, rdVars, fwVars, conVars
    <3>2. CASE Main
      BY <3>2 DEF Main, CloseSource, Finish, rdVars, fwVars, conVars
    <3>3. CASE ConsumerReturns
      BY <3>3 DEF ConsumerReturns, rdVars, fwVars
    <3>4. CASE UNCHANGED vars
      BY <3>4 DEF vars
    <3> QED
      BY <1>12, <3>1, <3>2, <3>3, <3>4
  <2>2. ctxDone => ctxDone'
    <3>1. CASE Signal
      BY <3>1 DEF Signal
    <3>2. CASE StartFails \/ OtherOpens \/ Main \/ ConsumerReturns \/ UNCHANGED vars
      <4>1. UNCHANGED ctxDone
        BY <3>2, Zenon DEF StartFails, OtherOpens, Main, CloseSource, Finish,
           ConsumerReturns, vars
      <4> QED
        BY <4>1
    <3> QED
      BY <1>12, <3>1, <3>2
  <2> QED
    BY <1>1, <2>1, <2>2
<1> QED
  BY <1>2, <1>3, <1>5, <1>6, <1>7, <1>8, <1>9, <1>10, <1>11, <1>12
     DEF Next, Reader, Forwarder, Consumer

\* The invariant is kept by every step.
LEMMA LiveStep == LiveInv /\ [Next]_vars => LiveInv'
<1> SUFFICES ASSUME LiveInv, [Next]_vars PROVE LiveInv'
  OBVIOUS
<1>1. LiveTypeOK'
  BY LiveTypeStep DEF LiveInv
<1>2. OwnerInv' /\ HandsInv' /\ NumbersInv'
  BY OwnerStep, HandsStep, NumbersStep DEF LiveInv
<1>3. PlacesInv' /\ LossInv'
  BY <1>1, PlacesStep DEF LiveInv
<1> QED
  BY <1>1, <1>2, <1>3 DEF LiveInv

\* In every state of either source in either tool, each item is in one place, the places
\* are in order, and what is lost was lost by a goroutine that was cancelled, behind
\* everything that the consumer has or can still get.
THEOREM LiveInvariance == Spec => []LiveInv
BY LiveInit, LiveStep, PTL DEF Spec

-----------------------------------------------------------------------------
(* The two safety properties.                                              *)

\* Neither the goroutine's deferred close nor Close of a monitor, or of a capture in a
\* direct command, hits a descriptor number that somebody else has by then.
THEOREM LiveClosesOwn == Spec => []NeverClosesForeign
<1>1. LiveInv => NeverClosesForeign
  BY DEF LiveInv, OwnerInv
<1> QED
  BY <1>1, LiveInvariance, PTL

\* An increasing sequence lists the set of its items.
LEMMA ListsIncreasing ==
    ASSUME NEW s \in Seq(Nat), Increasing(s)
    PROVE  Lists(s, ToSet(s))
BY ToSetOf DEF Lists, Increasing

\* Two queues one after the other, when all of the first is before all of the second.
LEMMA ListsConcat ==
    ASSUME NEW s \in Seq(Nat), NEW t \in Seq(Nat), NEW S, NEW T,
           Lists(s, S), Lists(t, T), Before(S, T)
    PROVE  s \o t \in Seq(Nat) /\ Lists(s \o t, S \cup T)
<1>1. PICK u : u = s \o t
  OBVIOUS
<1>2. /\ u \in Seq(Nat) /\ Len(u) = Len(s) + Len(t)
      /\ \A i \in 1..Len(s) + Len(t) : u[i] = IF i <= Len(s) THEN s[i] ELSE t[i - Len(s)]
  BY <1>1, ConcatProperties
<1>3. /\ Len(s) \in Nat /\ DOMAIN s = 1..Len(s) /\ S = {s[i] : i \in 1..Len(s)}
      /\ Len(t) \in Nat /\ DOMAIN t = 1..Len(t) /\ T = {t[i] : i \in 1..Len(t)}
      /\ DOMAIN u = 1..Len(u) /\ ToSet(u) = {u[i] : i \in 1..Len(u)}
  BY <1>2, ToSetOf DEF Lists
<1>4. \A i \in 1..Len(s) : i \in 1..Len(u) /\ u[i] = s[i] /\ u[i] \in S
  BY <1>2, <1>3
<1>5. \A j \in 1..Len(t) : Len(s) + j \in 1..Len(u) /\ u[Len(s) + j] = t[j]
                           /\ u[Len(s) + j] \in T
  <2>1. ASSUME NEW j \in 1..Len(t)
        PROVE  Len(s) + j \in 1..Len(u) /\ u[Len(s) + j] = t[j]
    <3>1. /\ Len(s) + j \in 1..Len(u) /\ ~(Len(s) + j <= Len(s)) /\ (Len(s) + j) - Len(s) = j
      BY <1>2, <1>3
    <3> QED
      BY <1>2, <3>1
  <2> QED
    BY <1>3, <2>1
<1>6. \A i \in 1..Len(u) : i \in 1..Len(s) \/ \E j \in 1..Len(t) : i = Len(s) + j
  <2>1. ASSUME NEW i \in 1..Len(u), i \notin 1..Len(s)
        PROVE  \E j \in 1..Len(t) : i = Len(s) + j
    <3>1. i - Len(s) \in 1..Len(t) /\ i = Len(s) + (i - Len(s))
      BY <1>2, <1>3, <2>1
    <3> QED
      BY <3>1
  <2> QED
    BY <2>1
<1>7. ToSet(u) = S \cup T
  <2>1. ToSet(u) \subseteq S \cup T
    <3>1. \A i \in 1..Len(u) : u[i] \in S \cup T
      BY <1>4, <1>5, <1>6
    <3> QED
      BY <1>3, <3>1
  <2>2. S \subseteq ToSet(u)
    BY <1>3, <1>4
  <2>3. T \subseteq ToSet(u)
    BY <1>3, <1>5
  <2> QED
    BY <2>1, <2>2, <2>3
<1>8. ASSUME NEW i \in 1..Len(u), NEW j \in 1..Len(u), i < j
      PROVE  u[i] < u[j]
  <2>1. CASE j \in 1..Len(s)
    <3>1. i \in 1..Len(s)
      BY <1>3, <1>8, <2>1
    <3> QED
      BY <1>3, <1>4, <1>8, <2>1, <3>1 DEF Lists
  <2>2. CASE i \in 1..Len(s) /\ j \notin 1..Len(s)
    BY <1>4, <1>5, <1>6, <2>2 DEF Before
  <2>3. CASE i \notin 1..Len(s) /\ j \notin 1..Len(s)
    <3>1. PICK a \in 1..Len(t) : i = Len(s) + a
      BY <1>6, <2>3
    <3>2. PICK b \in 1..Len(t) : j = Len(s) + b
      BY <1>6, <2>3
    <3>3. a < b
      BY <1>3, <1>8, <3>1, <3>2
    <3>4. t[a] < t[b]
      BY <1>3, <3>3 DEF Lists
    <3> QED
      BY <1>5, <3>1, <3>2, <3>4
  <2>4. i \in 1..Len(s) \/ j \notin 1..Len(s)
    BY <1>3, <1>8
  <2> QED
    BY <2>1, <2>2, <2>3, <2>4
<1> QED
  BY <1>1, <1>2, <1>3, <1>7, <1>8 DEF Lists

\* The item in a hand, as a sequence.
LEMMA ListsHand ==
    ASSUME NEW x \in Nat
    PROVE  InHand(x) \in Seq(Nat) /\ Lists(InHand(x), ToSet(InHand(x)))
<1>1. CASE x = 0
  <2>1. InHand(x) = <<>> /\ <<>> \in Seq(Nat)
    BY <1>1 DEF InHand
  <2>2. Increasing(<<>>)
    BY DEF Increasing
  <2> QED
    BY <2>1, <2>2, ListsIncreasing
<1>2. CASE x # 0
  <2>1. InHand(x) = <<x>> /\ <<x>> \in Seq(Nat) /\ Len(<<x>>) = 1
    BY <1>2 DEF InHand
  <2>2. Increasing(<<x>>)
    BY <2>1 DEF Increasing
  <2> QED
    BY <2>1, <2>2, ListsIncreasing
<1> QED
  BY <1>1, <1>2

\* The places one after the other list what is in them.
LEMMA TransitListed ==
    ASSUME LiveTypeOK, PlacesInv
    PROVE  Lists(InTransit, Transit)
<1>a. /\ Items(received) \in Seq(Nat) /\ Items(out2) \in Seq(Nat) /\ out1 \in Seq(Nat)
      /\ rdItem \in Nat /\ fwItem \in Nat
  BY PlacesAre
<1>b. /\ Lists(Items(received), Taken) /\ Lists(Items(out2), Queued2) /\ Lists(out1, Queued1)
  BY <1>a, ListsIncreasing DEF PlacesInv, Taken, Queued2, Queued1
<1>c. /\ InHand(fwItem) \in Seq(Nat) /\ Lists(InHand(fwItem), InForwarder)
      /\ InHand(rdItem) \in Seq(Nat) /\ Lists(InHand(rdItem), InReader)
  BY <1>a, ListsHand DEF InForwarder, InReader
<1>d. /\ Before(Taken, Queued2)
      /\ Before(Taken \cup Queued2, InForwarder)
      /\ Before(Taken \cup Queued2 \cup InForwarder, Queued1)
      /\ Before(Taken \cup Queued2 \cup InForwarder \cup Queued1, InReader)
  BY DEF PlacesInv
<1>1. PICK p : p = Items(received) \o Items(out2)
  OBVIOUS
<1>2. p \in Seq(Nat) /\ Lists(p, Taken \cup Queued2)
  BY <1>a, <1>b, <1>d, <1>1, ListsConcat
<1>3. PICK q : q = p \o InHand(fwItem)
  OBVIOUS
<1>4. q \in Seq(Nat) /\ Lists(q, Taken \cup Queued2 \cup InForwarder)
  BY <1>c, <1>d, <1>2, <1>3, ListsConcat
<1>5. PICK r : r = q \o out1
  OBVIOUS
<1>6. r \in Seq(Nat) /\ Lists(r, Taken \cup Queued2 \cup InForwarder \cup Queued1)
  BY <1>a, <1>b, <1>d, <1>4, <1>5, ListsConcat
<1>7. Lists(r \o InHand(rdItem),
            Taken \cup Queued2 \cup InForwarder \cup Queued1 \cup InReader)
  BY <1>c, <1>d, <1>6, ListsConcat
<1>8. InTransit = r \o InHand(rdItem)
  BY <1>1, <1>3, <1>5 DEF InTransit
<1> QED
  BY <1>7, <1>8 DEF Transit

\* What the consumer has got is what came first, up to the last item it has.
LEMMA TakenIsPrefix ==
    ASSUME LiveTypeOK, PlacesInv, LossInv
    PROVE  \E n \in 0..arrived : Lists(Items(received), Passed(n))
<1>1. PICK s : s = Items(received)
  OBVIOUS
<1>2. /\ s \in Seq(Nat) /\ Len(s) \in Nat /\ arrived \in Nat
      /\ Taken = {s[i] : i \in 1..Len(s)} /\ \A i \in 1..Len(s) : s[i] \in Nat /\ s[i] \in Taken
  BY <1>1, PlacesAre, ToSetOf DEF Taken
<1>3. Lists(s, Taken)
  BY <1>1, <1>2, ListsIncreasing DEF PlacesInv, Taken
<1>4. Taken \subseteq Passed(arrived)
  BY DEF PlacesInv, Transit
<1>5. CASE Len(s) = 0
  <2>1. Taken = {} /\ Passed(0) = {}
    BY <1>2, <1>5 DEF Passed
  <2>2. 0 \in 0..arrived
    BY <1>2
  <2> QED
    BY <1>1, <1>3, <2>1, <2>2
<1>6. CASE Len(s) > 0
  <2>1. PICK n : n = s[Len(s)]
    OBVIOUS
  <2>2. Len(s) \in 1..Len(s)
    BY <1>2, <1>6
  <2>3. n \in Taken /\ n \in 1..arrived
    BY <1>2, <1>4, <2>1, <2>2 DEF Passed
  <2>4. Taken \subseteq Passed(n)
    <3>1. ASSUME NEW i \in 1..Len(s)
          PROVE  s[i] \in Passed(n)
      <4>1. s[i] <= n
        <5>1. CASE i = Len(s)
          BY <1>2, <2>1, <5>1
        <5>2. CASE i < Len(s)
          <6>1. s[i] < s[Len(s)]
            BY <1>1, <2>2, <5>2 DEF PlacesInv, Increasing
          <6> QED
            BY <1>2, <2>1, <2>2, <6>1
        <5> QED
          BY <1>2, <5>1, <5>2
      <4>2. s[i] \in 1..arrived /\ Passes(s[i])
        BY <1>2, <1>4 DEF Passed
      <4> QED
        BY <1>2, <2>3, <4>1, <4>2 DEF Passed
    <3> QED
      BY <1>2, <3>1
  <2>5. Passed(n) \subseteq Taken
    <3>1. SUFFICES ASSUME NEW x \in Passed(n), x \notin Taken
                   PROVE  FALSE
      OBVIOUS
    <3>2. x \in Passed(arrived) /\ x \in Nat /\ n \in Nat /\ x <= n
      BY <1>2, <2>3 DEF Passed
    <3>3. x \notin Transit
      <4>1. \A y \in Queued2 \cup InForwarder \cup Queued1 \cup InReader : n < y
        BY <2>3 DEF PlacesInv, Before
      <4> QED
        BY <3>1, <3>2, <4>1 DEF Transit
    <3>4. n < x
      BY <2>3, <3>2, <3>3 DEF LossInv, Coming
    <3> QED
      BY <3>2, <3>4
  <2>6. Passed(n) = Taken /\ n \in 0..arrived
    BY <1>2, <2>3, <2>4, <2>5
  <2> QED
    BY <1>1, <1>3, <2>6
<1> QED
  BY <1>2, <1>5, <1>6

\* Across the two channels and the two goroutines nothing is duplicated, reordered or,
\* before the context is cancelled, lost, and the consumer sees the numbers 1, 2, 3, ...
THEOREM LiveLosesNothing == Spec => []NothingLostInTransit
<1>1. LiveInv => NothingLostInTransit
  <2> SUFFICES ASSUME LiveInv PROVE NothingLostInTransit
    OBVIOUS
  <2> USE DEF LiveInv
  <2>1. ctxDone => \E n \in 0..arrived : Lists(Items(received), Passed(n))
    BY TakenIsPrefix
  <2>2. ASSUME ~ctxDone PROVE Lists(InTransit, Passed(arrived))
    <3>1. Transit = Passed(arrived)
      BY <2>2 DEF PlacesInv, LossInv
    <3> QED
      BY <3>1, TransitListed
  <2>3. \A i \in DOMAIN received : received[i][1] = i
    <3>1. DOMAIN received = 1..Len(received)
      BY LenProperties DEF LiveTypeOK
    <3> QED
      BY <3>1 DEF NumbersInv
  <2> QED
    BY <2>1, <2>2, <2>3 DEF NothingLostInTransit
<1> QED
  BY <1>1, LiveInvariance, PTL
=============================================================================
