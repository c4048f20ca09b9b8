--------------------------- MODULE DownloadProofs ---------------------------
(***************************************************************************)
(* The safety properties of DownloadSystem for every protocol, every file, *)
(* packet size and deflate result, by the invariant of DownloadInvariant;  *)
(* and that a download is a FileTransfer.                                  *)
(***************************************************************************)
EXTENDS DownloadInvariant, NumberLemmas, SequenceTheorems, TLAPS

(***************************************************************************)
(* IInv, with the positions of the messages not computed but given: those  *)
(* of a state follow from those of the state before it.                    *)
(***************************************************************************)
CountersOK ==
  /\ phase \in Phases
  /\ total \in Nat /\ transferred \in 0..total
  /\ compress \in {"none", "deflate", "raw"}
  /\ valid \in BOOLEAN
  /\ zio \in {"none", "open", "broken"}
  /\ zmax \in Nat
  /\ data \in 0..total /\ remaining = total - data
  /\ downloads \in 0..MaxDownloads
  /\ cphase \in ClientPhases
  /\ inflating \in BOOLEAN
  /\ zat \in Nat

Inv ==
  /\ CountersOK
  /\ wire \in Seq(DownloadMessage)
  /\ \E at : WireInv(at)
  /\ ServerInv
  /\ ClientInv

-----------------------------------------------------------------------------
LEMMA SliceType ==
  ASSUME NEW a \in Nat, NEW b \in Nat, a <= b
  PROVE  /\ Slice(a, b) \in Seq(Nat)
         /\ Len(Slice(a, b)) = b - a
         /\ \A i \in 1..(b - a) : Slice(a, b)[i] = a + i
BY DEF Slice

LEMMA SliceFromStart ==
  ASSUME NEW b \in Nat PROVE Len(Slice(0, b)) = b
BY DEF Slice

LEMMA SliceBounds ==
  ASSUME NEW n \in Nat, NEW a \in 0..n, NEW b \in 0..n, a <= b
  PROVE  Slice(a, b) \in Seq(1..n)
<1> DEFINE d == b - a
<1>1. d \in Nat /\ Slice(a, b) = [i \in 1..d |-> a + i]
  BY DEF Slice
<1>2. \A i \in 1..d : a + i \in 1..n
  OBVIOUS
<1> HIDE DEF d
<1>3. [i \in 1..d |-> a + i] \in Seq(1..n)
  BY <1>1, <1>2
<1> QED BY <1>1, <1>3

LEMMA SliceJoins ==
  ASSUME NEW a \in Nat, NEW b \in Nat, a <= b
  PROVE  Slice(0, a) \o Slice(a, b) = Slice(0, b)
<1> DEFINE s == Slice(0, a)
           t == Slice(a, b)
           u == Slice(0, b)
<1>1. s \in Seq(Nat) /\ Len(s) = a /\ \A i \in 1..a : s[i] = i
  <2>1. a - 0 = a /\ \A i \in 1..a : 0 + i = i
    OBVIOUS
  <2>2. s \in Seq(Nat) /\ Len(s) = a - 0 /\ \A i \in 1..(a - 0) : s[i] = 0 + i
    BY SliceType
  <2> QED BY <2>1, <2>2
<1>2. t \in Seq(Nat) /\ Len(t) = b - a /\ \A i \in 1..(b - a) : t[i] = a + i
  BY SliceType
<1>3. u \in Seq(Nat) /\ Len(u) = b /\ \A i \in 1..b : u[i] = i
  <2>1. b - 0 = b /\ \A i \in 1..b : 0 + i = i
    OBVIOUS
  <2>2. u \in Seq(Nat) /\ Len(u) = b - 0 /\ \A i \in 1..(b - 0) : u[i] = 0 + i
    BY SliceType
  <2> QED BY <2>1, <2>2
<1> HIDE DEF s, t, u
<1>4. /\ s \o t \in Seq(Nat) /\ Len(s \o t) = Len(s) + Len(t)
      /\ \A i \in 1..(Len(s) + Len(t)) : (s \o t)[i] = IF i <= Len(s) THEN s[i] ELSE t[i - Len(s)]
  BY <1>1, <1>2, ConcatProperties, Zenon
<1>5. Len(s \o t) = b
  BY <1>1, <1>2, <1>4
<1>6. ASSUME NEW i \in 1..b PROVE (s \o t)[i] = u[i]
  <2>1. (s \o t)[i] = IF i <= a THEN s[i] ELSE t[i - a]
    <3>1. Len(s) = a /\ Len(s) + Len(t) = b
      BY <1>1, <1>2
    <3>2. i \in 1..(Len(s) + Len(t))
      BY <3>1
    <3>3. (s \o t)[i] = IF i <= Len(s) THEN s[i] ELSE t[i - Len(s)]
      BY <1>4, <3>2
    <3> QED BY <3>1, <3>3
  <2>2. i > a => i - a \in 1..(b - a)
    OBVIOUS
  <2>3. i > a => t[i - a] = a + (i - a)
    BY <1>2, <2>2
  <2> QED BY <1>1, <1>3, <2>1, <2>3
<1>7. s \o t = u
  BY <1>3, <1>4, <1>5, <1>6, SeqEqual
<1> QED BY <1>7 DEF s, t, u

LEMMA SliceEmpty ==
  ASSUME NEW a \in Nat PROVE Slice(a, a) = <<>>
BY DEF Slice

\* A conversion to int16_t changes nothing that an int16_t can hold.
LEMMA FitsInt16 ==
  ASSUME NEW n \in 0..MaxInt16
  PROVE  ToInt16(n) = n /\ n % (2 * (MaxInt16 + 1)) = n
<1>1. MaxInt16 \in Nat \ {0}
  BY DownloadAssumption
<1> DEFINE M == MaxInt16 + 1
<1>2. M \in Nat /\ M > 0 /\ n < M
  BY <1>1
<1>3. n + M \in 0..(2 * M - 1) /\ n \in 0..(2 * M - 1)
  BY <1>2
<1>4. \A x \in 0..(2 * M - 1) : x % (2 * M) = x
  BY <1>2
<1>5. (n + M) % (2 * M) = n + M /\ n % (2 * M) = n
  BY <1>3, <1>4
<1>6. n + MaxInt16 + 1 = n + M
  BY <1>1
<1> QED BY <1>5, <1>6, <1>2 DEF ToInt16

LEMMA TypeFollows == Inv => TypeOK
<1> SUFFICES ASSUME Inv PROVE TypeOK
  OBVIOUS
<1>1. PICK at : WireInv(at)
  BY DEF Inv
<1>2. total \in Nat /\ at \in [0..Len(wire) -> 0..total] /\ Len(wire) \in Nat
      /\ wire \in Seq(DownloadMessage)
  BY <1>1 DEF WireInv, Inv, CountersOK
<1>3. ASSUME NEW i \in DOMAIN wire
      PROVE  /\ wire[i].percent \in 0..100
             /\ wire[i].size \in -1..MaxInt16
             /\ wire[i].bytes \in Seq(1..total)
  <2>1. i \in 1..Len(wire) /\ wire[i] \in DownloadMessage /\ MessageInv(at, i)
    BY <1>1, <1>2, <1>3 DEF WireInv
  <2>2. wire[i].bytes = Slice(at[i - 1], at[i]) /\ at[i - 1] <= at[i]
        /\ wire[i].size \in -1..MaxInt16
    BY <2>1 DEF MessageInv
  <2>3. at[i - 1] \in 0..total /\ at[i] \in 0..total
    BY <1>2, <2>1
  <2>4. Slice(at[i - 1], at[i]) \in Seq(1..total)
    BY <1>2, <2>2, <2>3, SliceBounds
  <2> QED BY <2>1, <2>2, <2>4 DEF DownloadMessage
<1>4. Len(file) \in 0..total /\ file \in Seq(1..total)
  <2>1. at[0] \in 0..total /\ at[0] = Len(file)
    BY <1>1, <1>2 DEF WireInv
  <2>2. file = Slice(0, Len(file))
    BY DEF Inv, ClientInv
  <2> QED BY <1>2, <2>1, <2>2 DEF Slice
<1>5. zat \in 0..total
  BY <1>2, <1>4 DEF Inv, ClientInv, CountersOK
<1> QED BY <1>3, <1>4, <1>5 DEF Inv, CountersOK, TypeOK

-----------------------------------------------------------------------------
(* The channel                                                             *)

\* A message that goes on where the server stands.
LEMMA AppendKeeps ==
  ASSUME Inv, phase \in {"active", "failed"}, cphase = "receiving",
         NEW m \in DownloadMessage, wire' = Append(wire, m),
         NEW n \in Nat, n <= MaxInt16, transferred + n <= total,
         transferred' = transferred + n,
         m.bytes = Slice(transferred, transferred + n),
         UNCHANGED <<total, file, cphase, inflating>>,
         phase' # "overrun",
         m.size \in -1..MaxInt16,
         ~m.zipped /\ m.size # -1 => m.size = n,
         m.size = -1 => ~m.zipped /\ n = 0 /\ phase' = "stopped",
         m.size # -1 /\ transferred' = total => phase' = "complete",
         m.size # -1 /\ m.percent = 100 => transferred' = total,
         m.size # -1 /\ transferred' = total /\ PercentFits(total) => m.percent = 100,
         m.zipped => Protocol \in {"r1q2", "q2pro"},
         m.zipped /\ Protocol = "q2pro" =>
           /\ m.starts <=> ~(inflating \/ ZippedBefore(Len(wire) + 1))
           /\ m.starts => transferred = 0
           /\ m.ends => transferred' = total,
         ~m.zipped /\ Protocol = "q2pro" /\ (inflating \/ ZippedBefore(Len(wire) + 1)) =>
           n = 0
  PROVE  wire' \in Seq(DownloadMessage) /\ (\E at : WireInv(at))'
<1>1. PICK at : WireInv(at)
  BY DEF Inv
<1>0. PICK N : N = Len(wire)
  OBVIOUS
<1>2. /\ wire \in Seq(DownloadMessage) /\ N \in Nat /\ total \in Nat /\ MaxInt16 \in Nat
      /\ transferred \in 0..total /\ at \in [0..N -> 0..total] /\ at[N] = transferred
  BY <1>0, <1>1, DownloadAssumption DEF WireInv, Inv, CountersOK
<1>3. /\ wire' \in Seq(DownloadMessage) /\ Len(wire') = N + 1
      /\ wire'[N + 1] = m /\ \A i \in 1..N : wire'[i] = wire[i]
  BY <1>0, <1>2
<1>11. PICK new : new = [i \in 0..(N + 1) |-> IF i <= N THEN at[i] ELSE transferred + n]
  OBVIOUS
<1>4. /\ new \in [0..(N + 1) -> 0..total]
      /\ new[N + 1] = transferred + n /\ \A i \in 0..N : new[i] = at[i]
  BY <1>2, <1>11
<1>5. \A i \in 1..(N + 1) : ZippedBefore(i)' <=> ZippedBefore(i)
  <2> SUFFICES ASSUME NEW i \in 1..(N + 1) PROVE ZippedBefore(i)' <=> ZippedBefore(i)
    OBVIOUS
  <2>1. \A j \in 1..(i - 1) : wire'[j] = wire[j]
    BY <1>2, <1>3
  <2> QED BY <2>1 DEF ZippedBefore
<1>6. ASSUME NEW i \in 1..N PROVE MessageInv(new, i)' /\ StreamInv(new, i)'
  <2>1. MessageInv(at, i) /\ StreamInv(at, i)
    BY <1>0, <1>1 DEF WireInv
  <2>2. i \in 0..N /\ i - 1 \in 0..N
    BY <1>2
  <2>3. new[i] = at[i] /\ new[i - 1] = at[i - 1] /\ wire'[i] = wire[i]
    BY <1>3, <1>4, <2>2
  <2>4. wire[i].size # -1 /\ at[i] # total
    BY <2>1 DEF MessageInv, IsLast
  <2>5. MessageInv(new, i)'
    BY <2>1, <2>3, <2>4 DEF MessageInv, PercentFits
  <2>6. i \in 1..(N + 1)
    BY <1>2
  <2>7. ZippedBefore(i)' <=> ZippedBefore(i)
    BY <1>5, <2>6
  <2>8. StreamInv(new, i)'
    BY <2>1, <2>3, <2>7 DEF StreamInv
  <2> QED BY <2>5, <2>8
<1>7. /\ (N + 1) - 1 = N /\ N + 1 \in 1..(N + 1)
      /\ new[N] = transferred /\ new[N + 1] = transferred'
      /\ new[N + 1] - new[N] = n /\ new[N] <= new[N + 1]
      /\ n = 0 => new[N + 1] = new[N]
  BY <1>2, <1>4
<1>8. MessageInv(new, N + 1)'
  BY <1>0, <1>3, <1>7 DEF MessageInv, IsLast, PercentFits
<1>9. StreamInv(new, N + 1)'
  BY <1>0, <1>3, <1>5, <1>7 DEF StreamInv
<1>10. WireInv(new)'
  <2>1. new[0] = Len(file)' /\ at[0] = Len(file)
    BY <1>1, <1>2, <1>4 DEF WireInv
  <2>2. ASSUME NEW i \in 1..(N + 1) PROVE MessageInv(new, i)' /\ StreamInv(new, i)'
    <3>1. i \in 1..N \/ i = N + 1
      BY <1>2
    <3> QED BY <3>1, <1>6, <1>8, <1>9
  <2>3. new[N + 1] <= transferred' /\ new[N + 1] = transferred'
    BY <1>2, <1>7
  <2> QED BY <1>2, <1>3, <1>4, <2>1, <2>2, <2>3 DEF WireInv
<1> QED BY <1>3, <1>10

\* The client takes the first message.
LEMMA HeadFacts ==
  ASSUME Inv, wire # <<>>
  PROVE  /\ Head(wire) \in DownloadMessage /\ Head(wire) = wire[1] /\ Len(wire) \in Nat \ {0}
         /\ wire' = Tail(wire) =>
              /\ wire' \in Seq(DownloadMessage) /\ Len(wire') = Len(wire) - 1
              /\ \A i \in 1..(Len(wire) - 1) : wire'[i] = wire[i + 1]
<1>1. wire \in Seq(DownloadMessage)
  BY DEF Inv
<1> QED BY <1>1

LEMMA ZippedTail ==
  ASSUME Inv, wire # <<>>, wire' = Tail(wire), NEW i \in 1..Len(wire)
  PROVE  ZippedBefore(i + 1) <=> wire[1].zipped \/ ZippedBefore(i)'
<1>1. PICK N : N = Len(wire)
  OBVIOUS
<1>2. N \in Nat \ {0} /\ i \in 1..N /\ \A j \in 1..(N - 1) : wire'[j] = wire[j + 1]
  BY <1>1, HeadFacts
<1>3. (i + 1) - 1 = i
  BY <1>2
<1>4. ASSUME NEW j \in 1..((i + 1) - 1), wire[j].zipped
      PROVE  wire[1].zipped \/ ZippedBefore(i)'
  <2>1. CASE j # 1
    <3>1. j - 1 \in 1..(i - 1) /\ j - 1 \in 1..(N - 1) /\ (j - 1) + 1 = j
      BY <1>2, <2>1
    <3>2. wire'[j - 1] = wire[j]
      BY <1>2, <3>1
    <3> QED BY <1>4, <3>1, <3>2 DEF ZippedBefore
  <2> QED BY <1>4, <2>1
<1>5. wire[1].zipped => ZippedBefore(i + 1)
  <2>1. 1 \in 1..((i + 1) - 1)
    BY <1>2
  <2> QED BY <2>1 DEF ZippedBefore
<1>6. ASSUME NEW j \in 1..(i - 1), wire'[j].zipped PROVE ZippedBefore(i + 1)
  <2>1. j \in 1..(N - 1) /\ j + 1 \in 1..((i + 1) - 1)
    BY <1>2
  <2>2. wire'[j] = wire[j + 1]
    BY <1>2, <2>1
  <2> QED BY <1>6, <2>1, <2>2 DEF ZippedBefore
<1>7. ZippedBefore(i)' => ZippedBefore(i + 1)
  BY <1>6 DEF ZippedBefore
<1>8. ZippedBefore(i + 1) => wire[1].zipped \/ ZippedBefore(i)'
  BY <1>4, Zenon DEF ZippedBefore
<1> QED BY <1>5, <1>7, <1>8

LEMMA TailKeeps ==
  ASSUME Inv, cphase = "receiving", wire # <<>>, wire' = Tail(wire),
         file' = file \o wire[1].bytes,
         UNCHANGED <<phase, total, transferred>>,
         inflating' \in BOOLEAN,
         Len(wire) > 1 /\ Protocol = "q2pro" => (inflating' <=> inflating \/ wire[1].zipped)
  PROVE  /\ wire' \in Seq(DownloadMessage)
         /\ (\E at : WireInv(at))'
         /\ file' = Slice(0, Len(file'))
         /\ Len(file') = Len(file) + Len(wire[1].bytes) /\ Len(file') \in Nat
<1>1. PICK at : WireInv(at)
  BY DEF Inv
<1>2. PICK N : N = Len(wire)
  OBVIOUS
<1>3. /\ N \in Nat \ {0} /\ total \in Nat /\ Len(wire') = N - 1
      /\ wire' \in Seq(DownloadMessage)
      /\ \A i \in 1..(N - 1) : wire'[i] = wire[i + 1]
  BY <1>2, HeadFacts DEF Inv, CountersOK
<1>4. /\ at \in [0..N -> 0..total] /\ at[0] = Len(file)
      /\ \A i \in 1..N : MessageInv(at, i) /\ StreamInv(at, i)
  BY <1>1, <1>2 DEF WireInv
<1>5. at[0] \in Nat /\ at[1] \in Nat /\ at[0] <= at[1] /\ wire[1].bytes = Slice(at[0], at[1])
      /\ Len(wire[1].bytes) = at[1] - at[0]
  <2>1. MessageInv(at, 1) /\ 1 - 1 = 0 /\ 1 \in 0..N /\ 0 \in 0..N
    BY <1>3, <1>4
  <2>2. at[0] \in Nat /\ at[1] \in Nat /\ at[0] <= at[1] /\ wire[1].bytes = Slice(at[0], at[1])
    BY <1>3, <1>4, <2>1 DEF MessageInv
  <2> QED BY <2>2, SliceType
<1>6. file' = Slice(0, at[1]) /\ Len(file') = at[1]
  <2>1. file = Slice(0, at[0])
    BY <1>4 DEF Inv, ClientInv
  <2>2. Slice(0, at[0]) \o Slice(at[0], at[1]) = Slice(0, at[1])
    BY <1>5, SliceJoins
  <2>3. Len(Slice(0, at[1])) = at[1]
    BY <1>5, SliceFromStart
  <2> QED BY <1>5, <2>1, <2>2, <2>3
<1>7. PICK new : new = [i \in 0..(N - 1) |-> at[i + 1]]
  OBVIOUS
<1>8. new \in [0..(N - 1) -> 0..total] /\ \A i \in 0..(N - 1) : new[i] = at[i + 1]
  BY <1>3, <1>4, <1>7
<1>9. ASSUME NEW i \in 1..(N - 1) PROVE MessageInv(new, i)' /\ StreamInv(new, i)'
  <2>0. i \in 1..N
    BY <1>3
  <2>1. /\ i + 1 \in 1..N /\ (i + 1) - 1 = i /\ i \in 0..(N - 1) /\ i - 1 \in 0..(N - 1)
        /\ (i - 1) + 1 = i
    BY <1>3
  <2>2. MessageInv(at, i + 1) /\ StreamInv(at, i + 1)
    BY <1>4, <2>1
  <2>3. new[i] = at[i + 1] /\ new[i - 1] = at[i] /\ wire'[i] = wire[i + 1]
    BY <1>3, <1>8, <2>1
  <2>4. IsLast(i + 1, {"stopped"}) => IsLast(i, {"stopped"})'
    BY <1>2, <1>3 DEF IsLast
  <2>5. IsLast(i + 1, {"complete"}) => IsLast(i, {"complete"})'
    BY <1>2, <1>3 DEF IsLast
  <2>6. MessageInv(new, i)'
    BY <2>1, <2>2, <2>3, <2>4, <2>5 DEF MessageInv, PercentFits
  <2>7. ZippedBefore(i + 1) <=> wire[1].zipped \/ ZippedBefore(i)'
    BY <1>2, <2>0, ZippedTail
  <2>8. Protocol = "q2pro" => (inflating' <=> inflating \/ wire[1].zipped)
    BY <1>2, <1>3
  <2>9. StreamInv(new, i)'
    BY <2>1, <2>2, <2>3, <2>7, <2>8 DEF StreamInv
  <2> QED BY <2>6, <2>9
<1>10. WireInv(new)'
  <2>1. new[0] = Len(file)'
    BY <1>3, <1>6, <1>8
  <2>2. new[N - 1] = at[N] /\ (N - 1) + 1 = N
    BY <1>3, <1>8
  <2>3. at[N] <= transferred /\ (phase # "overrun" => at[N] = transferred)
    BY <1>1, <1>2 DEF WireInv
  <2> QED BY <1>3, <1>8, <1>9, <2>1, <2>2, <2>3 DEF WireInv
<1>11. (\E a : WireInv(a))'
  BY <1>10, Zenon
<1>12. Len(file') = Len(file) + Len(wire[1].bytes) /\ Len(file') \in Nat
  BY <1>4, <1>5, <1>6
<1> QED BY <1>3, <1>6, <1>11, <1>12

-----------------------------------------------------------------------------
(* The client                                                              *)

\* What the first message on the wire says, by the invariant.
FirstFacts(m, end) ==
  /\ m \in DownloadMessage /\ Len(m.bytes) \in 0..MaxInt16
  /\ Len(file) \in Nat /\ end \in 0..total
  /\ ~m.zipped /\ m.size # -1 => m.size = Len(m.bytes)
  /\ m.size \in -1..MaxInt16
  /\ m.size = -1 => /\ ~m.zipped /\ m.bytes = <<>> /\ Len(wire) = 1
                    /\ phase \in {"stopped", "idle"}
  /\ m.size # -1 /\ end = total => /\ Len(wire) = 1 /\ phase \in {"complete", "idle"}
                                   /\ PercentFits(total) => m.percent = 100
  /\ m.size # -1 /\ m.percent = 100 => end = total
  /\ Len(wire) = 1 /\ phase # "overrun" /\ cphase # "idle" => end = transferred
  /\ m.zipped => Protocol \in {"r1q2", "q2pro"}
  /\ m.zipped /\ Protocol = "q2pro" => /\ m.starts <=> ~inflating
                                       /\ m.starts => Len(file) = 0
                                       /\ m.ends => end = total
  /\ ~m.zipped /\ Protocol = "q2pro" /\ inflating => end = Len(file)
  /\ m.bytes # <<>> => m.bytes[1] = Len(file) + 1

LEMMA FirstMessage ==
  ASSUME Inv, wire # <<>>, NEW m, m = wire[1], NEW end, end = Len(file) + Len(m.bytes)
  PROVE  FirstFacts(m, end)
<1>1. PICK at : WireInv(at)
  BY DEF Inv
<1>2. PICK N : N = Len(wire)
  OBVIOUS
<1>3. /\ N \in Nat \ {0} /\ m \in DownloadMessage /\ total \in Nat /\ MaxInt16 \in Nat
      /\ transferred \in 0..total
  BY <1>2, HeadFacts, DownloadAssumption DEF Inv, CountersOK
<1>4. /\ 1 \in 1..N /\ 1 - 1 = 0 /\ 0 \in 0..N /\ 1 \in 0..N
      /\ at[0] \in 0..total /\ at[1] \in 0..total /\ at[0] = Len(file)
      /\ MessageInv(at, 1) /\ StreamInv(at, 1)
  BY <1>1, <1>2, <1>3 DEF WireInv
<1>5. at[0] <= at[1] /\ at[1] - at[0] <= MaxInt16 /\ m.bytes = Slice(at[0], at[1])
  BY <1>4 DEF MessageInv
<1>6. /\ Len(m.bytes) = at[1] - at[0] /\ end = at[1]
      /\ \A i \in 1..(at[1] - at[0]) : m.bytes[i] = at[0] + i
  <2>0. PICK a, b : a = at[0] /\ b = at[1]
    OBVIOUS
  <2>1. a \in Nat /\ b \in Nat /\ a <= b /\ m.bytes = Slice(a, b)
    BY <1>3, <1>4, <1>5, <2>0
  <2>2. Len(Slice(a, b)) = b - a /\ \A i \in 1..(b - a) : Slice(a, b)[i] = a + i
    BY <2>1, SliceType
  <2>3. Len(m.bytes) = b - a /\ end = b
    BY <1>4, <2>0, <2>1, <2>2
  <2>4. \A i \in 1..(b - a) : m.bytes[i] = a + i
    BY <2>1, <2>2
  <2> QED BY <2>0, <2>3, <2>4
<1>7. Len(m.bytes) \in 0..MaxInt16 /\ end \in 0..total
  BY <1>3, <1>4, <1>5, <1>6
<1>8. m.bytes # <<>> => m.bytes[1] = Len(file) + 1
  <2>1. m.bytes \in Seq(Nat)
    BY <1>3 DEF DownloadMessage
  <2>2. m.bytes # <<>> => Len(m.bytes) > 0
    BY <2>1
  <2> QED BY <1>3, <1>4, <1>6, <2>2
<1>9. m.size = -1 => m.bytes = <<>>
  BY <1>4, <1>5, <1>6, SliceEmpty DEF MessageInv
<1>10. ~ZippedBefore(1)
  BY DEF ZippedBefore
<1>11. N = 1 /\ phase # "overrun" /\ cphase # "idle" => end = transferred
  <2>1. phase # "overrun" /\ cphase # "idle" => at[N] = transferred
    BY <1>1, <1>2 DEF WireInv
  <2> QED BY <1>6, <2>1
<1>12. /\ m.zipped => /\ Protocol \in {"r1q2", "q2pro"}
                      /\ Protocol = "q2pro" => /\ m.starts <=> ~inflating
                                               /\ m.starts => Len(file) = 0
                                               /\ m.ends => end = total
       /\ ~m.zipped /\ Protocol = "q2pro" /\ inflating => end = Len(file)
  BY <1>4, <1>6, <1>10 DEF StreamInv
<1>13. m.size = -1 => ~m.zipped /\ N = 1 /\ phase \in {"stopped", "idle"}
  BY <1>2, <1>4 DEF MessageInv, IsLast
<1>14. m.size # -1 /\ end = total => /\ N = 1 /\ phase \in {"complete", "idle"}
                                     /\ PercentFits(total) => m.percent = 100
  BY <1>2, <1>4, <1>6 DEF MessageInv, IsLast
<1>15. /\ ~m.zipped /\ m.size # -1 => m.size = Len(m.bytes)
       /\ m.size \in -1..MaxInt16
       /\ m.size # -1 /\ m.percent = 100 => end = total
  BY <1>4, <1>6 DEF MessageInv
<1> QED
  BY <1>2, <1>3, <1>4, <1>7, <1>8, <1>9, <1>11, <1>12, <1>13, <1>14, <1>15 DEF FirstFacts

\* What reading a message does to the client's state.
LEMMA ReadingResult ==
  ASSUME Inv, ClientNext, NEW m, m = wire[1], NEW end, end = Len(file) + Len(m.bytes)
  PROVE  /\ wire # <<>> /\ cphase = "receiving" /\ wire' = Tail(wire)
         /\ file' = file \o m.bytes
         /\ inflating' \in BOOLEAN /\ zat' \in Nat
         /\ IF inflating' THEN Protocol = "q2pro" /\ zat' = end ELSE zat' = 0
         /\ IF m.size = -1
              THEN cphase' = "aborted" /\ ~inflating'
              ELSE /\ cphase' = IF m.percent = 100 THEN "complete" ELSE "receiving"
                   /\ cphase' = "complete" => ~inflating'
                   /\ Protocol = "q2pro" /\ end # total =>
                        (inflating' <=> inflating \/ m.zipped)
<1>1. wire # <<>> /\ cphase = "receiving" /\ wire' = Tail(wire) /\ Head(wire) = m
      /\ (ReadDownload(m) \/ R1q2ReadZdownload(m) \/ Q2proReadZdownload(m))
  BY HeadFacts DEF ClientNext
<1>2. /\ m \in DownloadMessage /\ Len(m.bytes) \in 0..MaxInt16 /\ Len(file) \in Nat
      /\ m.size \in -1..MaxInt16 /\ MaxInt16 \in Nat /\ total \in Nat
      /\ m.size = -1 => ~m.zipped /\ m.bytes = <<>>
      /\ m.size # -1 /\ m.percent = 100 => end = total
      /\ m.zipped /\ Protocol = "q2pro" => /\ m.starts <=> ~inflating
                                           /\ m.starts => Len(file) = 0
                                           /\ m.ends => end = total
      /\ ~m.zipped /\ Protocol = "q2pro" /\ inflating => end = Len(file)
      /\ m.bytes # <<>> => m.bytes[1] = Len(file) + 1
  <2>1. FirstFacts(m, end)
    BY <1>1, FirstMessage
  <2>2. MaxInt16 \in Nat /\ total \in Nat
    BY DownloadAssumption DEF Inv, CountersOK
  <2> QED BY <2>1, <2>2 DEF FirstFacts
<1>3. /\ file \in Seq(Nat) /\ m.bytes \in Seq(Nat) /\ inflating \in BOOLEAN /\ zat \in Nat
      /\ IF inflating THEN Protocol = "q2pro" /\ zat = Len(file) ELSE zat = 0
      /\ m.zipped \in BOOLEAN /\ m.starts \in BOOLEAN
  <2>1. file = Slice(0, Len(file))
    BY DEF Inv, ClientInv
  <2>2. file \in Seq(Nat)
    BY <1>2, <2>1, SliceType
  <2> QED BY <1>2, <2>2 DEF Inv, ClientInv, CountersOK, DownloadMessage
<1>4. (file \o m.bytes = file /\ end = Len(file)) \/ m.size # -1
  BY <1>2, <1>3, ConcatEmptySeq
<1>5. CASE ReadDownload(m)
  <2>1. CASE m.size = -1
    <3>1. /\ cphase' = "aborted" /\ file' = file /\ inflating' = FALSE /\ zat' = 0
      BY <1>5, <2>1 DEF ReadDownload, Store, DownloadReset
    <3>2. file' = file \o m.bytes
      BY <1>2, <1>3, <2>1, <3>1, ConcatEmptySeq
    <3> QED BY <1>1, <2>1, <3>1, <3>2
  <2>2. CASE m.size # -1
    <3>1. /\ ~m.zipped /\ file' = file \o m.bytes
          /\ cphase' = IF m.percent = 100 THEN "complete" ELSE "receiving"
          /\ IF cphase' = "receiving" THEN UNCHANGED <<inflating, zat>>
                                     ELSE inflating' = FALSE /\ zat' = 0
      BY <1>2, <1>5, <2>2 DEF ReadDownload, Store, DownloadReset
    <3>2. cphase' = "complete" => ~inflating' /\ zat' = 0
      BY <3>1
    <3>3. cphase' # "complete" => UNCHANGED <<inflating, zat>>
      BY <3>1
    <3>4. inflating' \in BOOLEAN /\ zat' \in Nat
          /\ IF inflating' THEN Protocol = "q2pro" /\ zat' = end ELSE zat' = 0
      <4>1. CASE cphase' = "complete"
        <5>1. inflating' = FALSE /\ zat' = 0
          BY <3>1, <4>1
        <5> QED BY <5>1
      <4>2. CASE cphase' # "complete"
        <5>1. inflating' = inflating /\ zat' = zat
          BY <3>3, <4>2
        <5> QED BY <1>2, <1>3, <3>1, <5>1
      <4> QED BY <4>1, <4>2
    <3>5. Protocol = "q2pro" /\ end # total => (inflating' <=> inflating \/ m.zipped)
      BY <1>2, <2>2, <3>1, <3>3
    <3> QED BY <1>1, <1>2, <1>3, <2>2, <3>1, <3>2, <3>3, <3>4, <3>5
  <2> QED BY <2>1, <2>2
<1>6. CASE R1q2ReadZdownload(m)
  <2>1. /\ UncompressedLen(m) = Len(m.bytes) /\ ToInt16(Len(m.bytes)) = Len(m.bytes)
    BY <1>2, FitsInt16 DEF UncompressedLen
  <2>2. SubSeq(m.bytes, 1, Len(m.bytes)) = m.bytes
    BY <1>3
  <2>3. m.zipped /\ Protocol = "r1q2" /\ UNCHANGED <<inflating, zat>>
        /\ Store(m.bytes, Len(m.bytes), m.percent)
    BY <1>6, <2>1, <2>2, Zenon DEF R1q2ReadZdownload
  <2>4. /\ m.size # -1 /\ file' = file \o m.bytes
        /\ cphase' = IF m.percent = 100 THEN "complete" ELSE "receiving"
    BY <1>2, <2>3 DEF Store
  <2> QED BY <1>1, <1>2, <1>3, <2>3, <2>4
<1>7. CASE Q2proReadZdownload(m)
  <2>1. ToInt16(Len(m.bytes)) = Len(m.bytes)
    BY <1>2, FitsInt16
  <2>2. m.zipped /\ Protocol = "q2pro" /\ m.size # -1
    BY <1>2, <1>7 DEF Q2proReadZdownload
  <2>3. Inflates(m)
    BY <1>2, <1>3, <2>2 DEF Inflates
  <2>4. /\ Store(m.bytes, Len(m.bytes), m.percent)
        /\ IF m.ends \/ cphase' # "receiving"
             THEN inflating' = FALSE /\ zat' = 0
             ELSE inflating' = TRUE /\ zat' = zat + Len(m.bytes)
    BY <1>7, <2>1, <2>3, Zenon DEF Q2proReadZdownload, DownloadReset
  <2>5. /\ file' = file \o m.bytes
        /\ cphase' = IF m.percent = 100 THEN "complete" ELSE "receiving"
    BY <1>2, <2>4 DEF Store
  <2>6. zat = Len(file)
    BY <1>2, <1>3, <2>2
  <2>7. m.ends => end = total
    BY <1>2, <2>2
  <2>8. zat + Len(m.bytes) = end /\ zat + Len(m.bytes) \in Nat
    BY <1>2, <1>3, <2>6
  <2>9. inflating' \in BOOLEAN /\ zat' \in Nat
        /\ IF inflating' THEN Protocol = "q2pro" /\ zat' = end ELSE zat' = 0
    <3>1. CASE m.ends \/ cphase' # "receiving"
      <4>1. inflating' = FALSE /\ zat' = 0
        BY <2>4, <3>1
      <4> QED BY <4>1
    <3>2. CASE ~(m.ends \/ cphase' # "receiving")
      <4>1. inflating' = TRUE /\ zat' = end
        BY <2>4, <2>8, <3>2
      <4> QED BY <2>2, <2>8, <4>1
    <3> QED BY <3>1, <3>2
  <2>10. cphase' = "complete" => ~inflating'
    BY <2>4
  <2>11. end # total => inflating'
    BY <1>2, <2>2, <2>4, <2>5, <2>7
  <2> QED BY <1>1, <2>2, <2>5, <2>9, <2>10, <2>11
<1> QED BY <1>1, <1>5, <1>6, <1>7

LEMMA ClientKeeps ==
  ASSUME Inv, Client PROVE Inv'
<1>1. PICK m : m = wire[1]
  OBVIOUS
<1>2. PICK end : end = Len(file) + Len(m.bytes)
  OBVIOUS
<1>3. ClientNext /\ UNCHANGED <<phase, total, transferred, compress, valid, zio, zmax, data,
                               remaining, downloads>>
  BY DEF Client
<1>4. /\ wire # <<>> /\ cphase = "receiving" /\ wire' = Tail(wire)
      /\ file' = file \o m.bytes
      /\ inflating' \in BOOLEAN /\ zat' \in Nat
      /\ IF inflating' THEN Protocol = "q2pro" /\ zat' = end ELSE zat' = 0
      /\ IF m.size = -1
           THEN cphase' = "aborted" /\ ~inflating'
           ELSE /\ cphase' = IF m.percent = 100 THEN "complete" ELSE "receiving"
                /\ cphase' = "complete" => ~inflating'
                /\ Protocol = "q2pro" /\ end # total =>
                     (inflating' <=> inflating \/ m.zipped)
  BY <1>1, <1>2, <1>3, ReadingResult
<1>5. /\ m.size = -1 => Len(wire) = 1 /\ phase \in {"stopped", "idle"}
      /\ m.size # -1 /\ end = total => /\ Len(wire) = 1 /\ phase \in {"complete", "idle"}
                                       /\ PercentFits(total) => m.percent = 100
      /\ m.size # -1 /\ m.percent = 100 => end = total
      /\ Len(wire) = 1 /\ phase # "overrun" => end = transferred
  <2>1. FirstFacts(m, end)
    BY <1>1, <1>2, <1>4, FirstMessage
  <2> QED BY <1>4, <2>1 DEF FirstFacts
<1>0. Len(wire) \in Nat
  BY <1>4, HeadFacts
<1>6. Len(wire) > 1 /\ Protocol = "q2pro" => (inflating' <=> inflating \/ wire[1].zipped)
  <2> SUFFICES ASSUME Len(wire) > 1, Protocol = "q2pro"
               PROVE  inflating' <=> inflating \/ m.zipped
    BY <1>1
  <2>1. Len(wire) # 1
    BY <1>0
  <2>2. m.size # -1 /\ end # total
    BY <1>5, <2>1
  <2> QED BY <1>4, <2>2
<1>7. /\ wire' \in Seq(DownloadMessage)
      /\ (\E at : WireInv(at))'
      /\ file' = Slice(0, Len(file'))
      /\ Len(file') = end
  <2>1. file' = file \o wire[1].bytes
    BY <1>1, <1>4
  <2> QED BY <1>1, <1>2, <1>3, <1>4, <1>6, <2>1, TailKeeps
<1>8. Len(wire') = Len(wire) - 1 /\ Len(wire) \in Nat \ {0}
  BY <1>4, HeadFacts
<1>9. CountersOK'
  BY <1>3, <1>4 DEF Inv, CountersOK, ClientPhases
<1>10. ClientInv'
  <2>1. cphase' # "receiving" => wire' = <<>> /\ phase \in {"complete", "stopped", "idle"}
    <3>1. cphase' # "receiving" => Len(wire') = 0 /\ phase \in {"complete", "stopped", "idle"}
      BY <1>4, <1>5, <1>8
    <3> QED BY <1>7, <3>1, EmptySeq
  <2>2. cphase' = "complete" => Len(file') = total /\ ~inflating'
    BY <1>4, <1>5, <1>7
  <2>3. cphase' \in {"aborted", "complete", "receiving"} /\ (cphase' # "receiving" => ~inflating')
    BY <1>4
  <2> QED BY <1>3, <1>4, <1>7, <2>1, <2>2, <2>3 DEF ClientInv, AlwaysInflates
<1>11. ServerInv'
  <2>1. ASSUME phase = "active", Protocol = "q2pro"
        PROVE  ServerBegan' <=> inflating' \/ ZippedBefore(Len(wire) + 1)'
    <3>1. inflating' <=> inflating \/ m.zipped
      BY <1>4, <1>5, <2>1
    <3>2. PICK n : n = Len(wire)
      OBVIOUS
    <3>5. Len(wire') + 1 = n /\ n \in 1..Len(wire)
      BY <1>8, <3>2
    <3>6. ZippedBefore(n + 1) <=> wire[1].zipped \/ ZippedBefore(n)'
      BY <1>4, <3>5, ZippedTail
    <3>7. ZippedBefore(n)' <=> ZippedBefore(Len(wire) + 1)'
      BY <3>5 DEF ZippedBefore
    <3>3. ZippedBefore(Len(wire) + 1) <=> wire[1].zipped \/ ZippedBefore(Len(wire) + 1)'
      BY <3>2, <3>6, <3>7
    <3>4. ServerBegan' = ServerBegan
      BY <1>3 DEF ServerBegan
    <3> QED BY <1>1, <2>1, <3>1, <3>3, <3>4 DEF Inv, ServerInv
  <2>2. ASSUME phase = "complete", PercentFits(total) PROVE CompleteIsReported'
    <3>1. ASSUME wire' = <<>> PROVE cphase' = "complete"
      <4>1. Len(wire) = 1
        BY <1>8, <3>1
      <4>2. end = total /\ m.size # -1
        BY <1>5, <2>2, <4>1 DEF Inv, ServerInv
      <4> QED BY <1>4, <1>5, <2>2, <4>2
    <3> QED BY <3>1 DEF CompleteIsReported
  <2>3. ServerInv
    BY DEF Inv
  <2>4. ServerBegan' = ServerBegan /\ (PercentFits(total)' <=> PercentFits(total))
    BY <1>3 DEF ServerBegan, PercentFits
  <2>5. phase' = "active" =>
          /\ transferred' = data'
          /\ data' = total' => total' = 0
          /\ Protocol = "q2pro" =>
               /\ ServerBegan' <=> inflating' \/ ZippedBefore(Len(wire) + 1)'
               /\ compress' # "none" /\ ~ServerBegan' => data' = 0
    BY <1>3, <2>1, <2>3, <2>4 DEF ServerInv
  <2>6. phase' = "complete" /\ PercentFits(total)' => CompleteIsReported'
    BY <1>3, <2>2, <2>4
  <2>7. /\ (total \in TotalSizes \cup {0})'
        /\ (compress = "raw" => Protocol = "q2pro")'
        /\ (compress = "deflate" => EnableDeflate /\ Protocol # "vanilla")'
        /\ (zmax = 0 \/ \E room \in PacketRooms :
              room > ZDOWNLOAD_SIZE /\ zmax = MaxCompressed(room))'
    BY <1>3, <2>3 DEF ServerInv
  <2>8. /\ (phase \in {"idle", "active", "complete"} => valid \in BOOLEAN)'
        /\ (phase = "complete" => transferred = total)'
    BY <1>3, <2>3 DEF ServerInv
  <2> QED BY <2>5, <2>6, <2>7, <2>8 DEF ServerInv
<1> QED BY <1>7, <1>9, <1>10, <1>11 DEF Inv

-----------------------------------------------------------------------------
(* The server's arithmetic                                                 *)

\* 100 percent is never said too early, and is said at the end.
LEMMA PercentTells ==
  ASSUME total \in Nat \ {0}, NEW sent \in 0..total, NEW p, p = Least(Percent(sent), 100)
  PROVE  /\ p \in 0..100
         /\ p = 100 => sent = total
         /\ sent = total /\ PercentFits(total) => p = 100
<1>1. PICK a : a = (100 * sent) % SizeModulus
  OBVIOUS
<1>2. a \in Nat /\ a <= 100 * sent /\ (100 * sent < SizeModulus => a = 100 * sent)
  BY <1>1, Modulus, DownloadAssumption
<1>3. PICK q : q = a \div total
  OBVIOUS
<1>4. q \in Nat /\ (100 <= q => 100 * total <= a) /\ (100 * total <= a => 100 <= q)
  BY <1>2, <1>3, Quotient
<1>5. p = IF q < 100 THEN q ELSE 100
  BY <1>1, <1>3 DEF Percent, Least
<1>6. p \in 0..100 /\ (p = 100 => 100 <= q) /\ (100 <= q => p = 100)
  BY <1>4, <1>5
<1>7. p = 100 => sent = total
  BY <1>2, <1>4, <1>6
<1>8. sent = total /\ PercentFits(total) => p = 100
  BY <1>2, <1>4, <1>6 DEF PercentFits
<1> QED BY <1>6, <1>7, <1>8

LEMMA Deflated ==
  ASSUME NEW max \in Nat, remaining \in Nat, NEW d \in Deflations(max)
  PROVE  d.consumed \in 0..remaining /\ d.size \in 0..Monus(max, OUTPUT_MARGIN)
<1>1. PICK k \in Ratios :
        LET n == Least(k * Monus(max, OUTPUT_MARGIN), remaining)
        IN  d = [consumed |-> n, size |-> (n + k - 1) \div k]
  BY DEF Deflations
<1>2. PICK M : M = Monus(max, OUTPUT_MARGIN)
  OBVIOUS
<1>3. M \in Nat /\ k \in Nat \ {0}
  BY <1>2, DownloadAssumption DEF Monus, OUTPUT_MARGIN
<1>4. PICK n : n = Least(k * M, remaining)
  OBVIOUS
<1>5. n \in 0..remaining /\ n <= k * M
  BY <1>3, <1>4 DEF Least
<1>6. d.consumed = n /\ d.size = (n + k - 1) \div k
  BY <1>1, <1>2, <1>4
<1>7. n + k - 1 \in Nat /\ n + k - 1 < (M + 1) * k
  BY <1>3, <1>5
<1>8. (n + k - 1) \div k \in 0..M
  BY <1>3, <1>7, Quotient
<1> QED BY <1>2, <1>5, <1>6, <1>8

LEMMA MaxCompressedBounds ==
  ASSUME NEW room \in PacketRooms, room > ZDOWNLOAD_SIZE
  PROVE  /\ MaxCompressed(room) \in 0..MaxInt16 /\ MaxCompressed(room) <= room - ZDOWNLOAD_SIZE
         /\ room \in Nat /\ ZDOWNLOAD_SIZE \in {4, 6}
BY DownloadAssumption DEF MaxCompressed, Least, ZDOWNLOAD_SIZE

LEMMA MarginShrinks ==
  ASSUME NEW max \in Nat PROVE Monus(max, OUTPUT_MARGIN) \in 0..max
BY DEF Monus, OUTPUT_MARGIN

-----------------------------------------------------------------------------
(* The server                                                              *)

\* Nothing is sent, and the last message stays the last.
LEMMA StayKeeps ==
  ASSUME Inv, UNCHANGED <<wire, total, file, inflating, cphase>>,
         transferred <= transferred',
         phase # "overrun" /\ phase' # "overrun" => transferred' = transferred,
         phase = "overrun" => phase' = "overrun",
         phase \in {"complete", "idle"} => phase' \in {"complete", "idle"},
         phase \in {"stopped", "idle"} => phase' \in {"stopped", "idle"}
  PROVE  wire' \in Seq(DownloadMessage) /\ (\E at : WireInv(at))'
<1>1. PICK at : WireInv(at)
  BY DEF Inv
<1>2. PICK N : N = Len(wire)
  OBVIOUS
<1>3. /\ wire \in Seq(DownloadMessage) /\ N \in Nat /\ total \in Nat /\ transferred \in 0..total
      /\ at \in [0..N -> 0..total] /\ at[0] = Len(file) /\ N \in 0..N /\ at[N] \in 0..total
      /\ at[N] <= transferred /\ (phase # "overrun" /\ cphase # "idle" => at[N] = transferred)
  BY <1>1, <1>2 DEF WireInv, Inv, CountersOK
<1>4. ASSUME NEW i \in 1..N PROVE MessageInv(at, i)' /\ StreamInv(at, i)'
  <2>1. MessageInv(at, i) /\ StreamInv(at, i)
    BY <1>1, <1>2 DEF WireInv
  <2>2. (IsLast(i, {"stopped"}) => IsLast(i, {"stopped"})')
        /\ (IsLast(i, {"complete"}) => IsLast(i, {"complete"})')
    BY DEF IsLast
  <2>3. MessageInv(at, i)'
    BY <2>1, <2>2 DEF MessageInv, PercentFits
  <2>4. ZippedBefore(i)' <=> ZippedBefore(i)
    BY DEF ZippedBefore
  <2>5. wire' = wire /\ total' = total /\ (inflating' <=> inflating)
    OBVIOUS
  <2>6. StreamInv(at, i)'
    BY <2>1, <2>4, <2>5 DEF StreamInv
  <2> QED BY <2>3, <2>6
<1>5. WireInv(at)'
  <2>1. Len(wire') = N /\ total' = total /\ Len(file') = Len(file) /\ cphase' = cphase
    BY <1>2
  <2>2. at[N] <= transferred'
    BY <1>3
  <2>3. phase' # "overrun" /\ cphase # "idle" => at[N] = transferred'
    BY <1>3
  <2>4. \A i \in 1..N : MessageInv(at, i)' /\ StreamInv(at, i)'
    BY <1>4
  <2> QED BY <1>3, <2>1, <2>2, <2>3, <2>4 DEF WireInv
<1>6. (\E a : WireInv(a))'
  BY <1>5, Zenon
<1> QED BY <1>3, <1>6

\* What a call of _data knows before it sends a message.
LEMMA CallFacts ==
  ASSUME Inv, ~MayRetry, MayCall
  PROVE  /\ phase = "active" /\ cphase = "receiving" /\ wire \in Seq(DownloadMessage)
         /\ data \in Nat /\ remaining \in Nat /\ total = data + remaining /\ transferred = data
         /\ valid \in BOOLEAN
BY DEF Inv, MayCall, ClientInv, ServerInv, CountersOK, ClientPhases

\* n bytes are taken from the file and a message holds them.
Sent(n, zipped, size, starts, ends) ==
  /\ n \in 0..remaining /\ Consume(n)
  /\ zipped \in BOOLEAN /\ starts \in BOOLEAN /\ ends \in BOOLEAN
  /\ size \in 0..MaxInt16 /\ (~zipped => size = n)
  /\ \E room \in PacketRooms :
       CompleteStruct(remaining - n, room, zipped, Chunk(n), size, starts, ends)
  /\ zipped => Protocol \in {"r1q2", "q2pro"}
  /\ zipped /\ Protocol = "q2pro" =>
       /\ starts <=> ~ServerBegan
       /\ ends => n = remaining
  /\ zipped => compress # "none"
  /\ ~zipped /\ Protocol = "q2pro" /\ compress # "none" => n = 0
  /\ UNCHANGED <<total, compress, downloads, file, cphase, inflating, zat>>

LEMMA SentKeepsWire ==
  ASSUME Inv, ~MayRetry, MayCall, remaining > 0, ShortMessages',
         NEW n, NEW zipped, NEW size, NEW starts, NEW ends,
         Sent(n, zipped, size, starts, ends)
  PROVE  /\ wire' \in Seq(DownloadMessage) /\ (\E at : WireInv(at))'
         /\ transferred' = transferred + n /\ transferred' \in 0..total
         /\ \/ phase' = "overrun" /\ UNCHANGED wire
            \/ \E m \in DownloadMessage :
                 /\ wire' = Append(wire, m) /\ m.zipped = zipped
                 /\ phase' = IF n = remaining THEN "complete" ELSE "active"
                 /\ n = remaining /\ PercentFits(total) => m.percent = 100
                 /\ m.size # -1
<1>1. /\ phase = "active" /\ cphase = "receiving" /\ wire \in Seq(DownloadMessage)
      /\ data \in Nat /\ remaining \in Nat /\ total = data + remaining /\ transferred = data
  BY CallFacts
<1>2. /\ n \in 0..remaining /\ n \in Nat /\ total - (remaining - n) = transferred + n
      /\ transferred + n \in 0..total /\ total \in Nat \ {0} /\ MaxInt16 \in Nat
  BY <1>1, DownloadAssumption DEF Sent
<1>3. PICK p : p = Least(Percent(transferred + n), 100)
  OBVIOUS
<1>4. /\ p \in 0..100
      /\ p = 100 => transferred + n = total
      /\ transferred + n = total /\ PercentFits(total) => p = 100
  BY <1>2, <1>3, PercentTells
<1>5. PICK m : m = Message(zipped, Chunk(n), size, p, starts, ends)
  OBVIOUS
<1>6. Chunk(n) = Slice(transferred, transferred + n) /\ Chunk(n) \in Seq(Nat) /\ Len(Chunk(n)) = n
  <2>1. PICK d : d = transferred
    OBVIOUS
  <2>2. d \in Nat /\ (d + n) - d = n /\ \A i \in 1..n : d + i \in Nat
    BY <1>1, <1>2, <2>1
  <2>3. Chunk(n) = [i \in 1..n |-> d + i] /\ Slice(d, d + n) = [i \in 1..n |-> d + i]
    BY <1>1, <2>1, <2>2 DEF Chunk, Slice
  <2> QED BY <1>2, <2>1, <2>2, <2>3
<1>7. m \in DownloadMessage /\ m.zipped = zipped /\ m.bytes = Chunk(n) /\ m.size = size
      /\ m.percent = p /\ m.starts = starts /\ m.ends = ends
  BY <1>2, <1>4, <1>5, <1>6 DEF Message, DownloadMessage, Sent
<1>8. /\ transferred' = transferred + n
      /\ \/ phase' = "overrun" /\ UNCHANGED wire
         \/ /\ phase' = IF transferred + n = total THEN "complete" ELSE "active"
            /\ wire' = Append(wire, m)
  <2>1. PICK room \in PacketRooms :
          CompleteStruct(remaining - n, room, zipped, Chunk(n), size, starts, ends)
    BY DEF Sent
  <2> QED BY <1>2, <1>3, <1>5, <2>1 DEF CompleteStruct
<1>9. CASE phase' = "overrun" /\ UNCHANGED wire
  <2>1. transferred <= transferred' /\ UNCHANGED <<wire, total, file, inflating, cphase>>
    BY <1>1, <1>2, <1>8, <1>9 DEF Sent
  <2> QED BY <1>1, <1>2, <1>8, <1>9, <2>1, StayKeeps
<1>10. CASE /\ phase' = IF transferred + n = total THEN "complete" ELSE "active"
            /\ wire' = Append(wire, m)
  <2>1. n <= MaxInt16
    <3>1. wire' \in Seq(DownloadMessage) /\ Len(wire') = Len(wire) + 1
          /\ wire'[Len(wire) + 1] = m /\ Len(wire) \in Nat
      BY <1>1, <1>7, <1>10
    <3>2. Len(wire) + 1 \in 1..Len(wire')
      BY <3>1
    <3>3. Len(m.bytes) <= MaxInt16
      BY <3>1, <3>2 DEF ShortMessages
    <3> QED BY <1>6, <1>7, <3>3
  <2>2. m.size \in 0..MaxInt16 /\ m.size # -1 /\ m.size \in -1..MaxInt16
        /\ (~m.zipped /\ m.size # -1 => m.size = n)
    BY <1>2, <1>7 DEF Sent
  <2>3. m.zipped => Protocol \in {"r1q2", "q2pro"}
    BY <1>7 DEF Sent
  <2>4. Protocol = "q2pro" =>
          /\ ServerBegan <=> inflating \/ ZippedBefore(Len(wire) + 1)
          /\ compress # "none" /\ ~ServerBegan => data = 0
    BY <1>1 DEF Inv, ServerInv
  <2>5. m.zipped /\ Protocol = "q2pro" =>
           /\ m.starts <=> ~(inflating \/ ZippedBefore(Len(wire) + 1))
           /\ m.starts => transferred = 0
           /\ m.ends => transferred' = total
    BY <1>1, <1>7, <1>8, <2>4 DEF Sent
  <2>6. ~m.zipped /\ Protocol = "q2pro" /\ (inflating \/ ZippedBefore(Len(wire) + 1)) => n = 0
    BY <1>7, <2>4 DEF Sent, ServerBegan
  <2>7. wire' \in Seq(DownloadMessage) /\ (\E at : WireInv(at))'
    <3>1. UNCHANGED <<total, file, cphase, inflating>>
      BY DEF Sent
    <3>2. phase' # "overrun" /\ (transferred' = total => phase' = "complete")
      BY <1>8, <1>10
    <3>3. transferred + n <= total /\ m.bytes = Slice(transferred, transferred + n)
      BY <1>2, <1>6, <1>7
    <3> QED BY <1>1, <1>2, <1>4, <1>7, <1>8, <1>10, <2>1, <2>2, <2>3, <2>5, <2>6, <3>1, <3>2,
               <3>3, AppendKeeps
  <2>8. transferred + n = total <=> n = remaining
    BY <1>1, <1>2
  <2> QED BY <1>2, <1>4, <1>7, <1>8, <1>10, <2>2, <2>7, <2>8
<1> QED BY <1>8, <1>9, <1>10

\* The stream has begun with what has been sent, or with this message.
LEMMA ZippedAppend ==
  ASSUME wire \in Seq(DownloadMessage), NEW m \in DownloadMessage, wire' = Append(wire, m)
  PROVE  ZippedBefore(Len(wire) + 1)' <=> ZippedBefore(Len(wire) + 1) \/ m.zipped
<1>1. PICK N : N = Len(wire)
  OBVIOUS
<1>2. /\ N \in Nat /\ Len(wire') = N + 1 /\ wire'[N + 1] = m
      /\ \A i \in 1..N : wire'[i] = wire[i]
  BY <1>1
<1>3. /\ \A j \in 1..((N + 2) - 1) : j \in 1..N \/ j = N + 1
      /\ \A j \in 1..N : j \in 1..((N + 2) - 1) /\ j \in 1..((N + 1) - 1)
      /\ \A j \in 1..((N + 1) - 1) : j \in 1..N
      /\ N + 1 \in 1..((N + 2) - 1)
  BY <1>2
<1>4. ZippedBefore(Len(wire) + 1)' <=> \E j \in 1..((N + 2) - 1) : wire'[j].zipped
  <2>1. Len(wire') + 1 = N + 2
    BY <1>2
  <2> QED BY <2>1 DEF ZippedBefore
<1>5. ZippedBefore(Len(wire) + 1) <=> \E j \in 1..((N + 1) - 1) : wire[j].zipped
  BY <1>1 DEF ZippedBefore
<1> QED BY <1>2, <1>3, <1>4, <1>5

LEMMA SentKeeps ==
  ASSUME Inv, ~MayRetry, MayCall, remaining > 0, ShortMessages',
         NEW n, NEW zipped, NEW size, NEW starts, NEW ends,
         Sent(n, zipped, size, starts, ends),
         valid' \in BOOLEAN, zio' \in {"none", "open", "broken"},
         zmax' \in Nat,
         \/ zmax' = zmax
         \/ \E room \in PacketRooms : room > ZDOWNLOAD_SIZE /\ zmax' = MaxCompressed(room),
         phase' = "active" /\ Protocol = "q2pro" => (ServerBegan' <=> ServerBegan \/ zipped)
  PROVE  Inv'
<1>1. /\ phase = "active" /\ cphase = "receiving" /\ wire \in Seq(DownloadMessage)
      /\ data \in Nat /\ remaining \in Nat /\ total = data + remaining /\ transferred = data
  BY CallFacts
<1>2. /\ wire' \in Seq(DownloadMessage) /\ (\E at : WireInv(at))'
      /\ transferred' = transferred + n /\ transferred' \in 0..total
      /\ \/ phase' = "overrun" /\ UNCHANGED wire
         \/ \E m \in DownloadMessage :
              /\ wire' = Append(wire, m) /\ m.zipped = zipped
              /\ phase' = IF n = remaining THEN "complete" ELSE "active"
              /\ n = remaining /\ PercentFits(total) => m.percent = 100
              /\ m.size # -1
  BY SentKeepsWire
<1>3. /\ n \in 0..remaining /\ data' = data + n /\ remaining' = remaining - n
      /\ UNCHANGED <<total, compress, downloads, file, cphase, inflating, zat>>
  BY DEF Sent, Consume
<1>4. /\ data' \in 0..total' /\ remaining' = total' - data' /\ data' = transferred'
      /\ (n = remaining <=> data' = total')
  BY <1>1, <1>2, <1>3
<1>5. CountersOK'
  BY <1>1, <1>2, <1>3, <1>4 DEF Inv, CountersOK, Phases
<1>6. ClientInv'
  BY <1>1, <1>3 DEF Inv, ClientInv, AlwaysInflates
<1>7. ServerInv'
  <2>1. ServerInv
    BY DEF Inv
  <2>2. /\ (total \in TotalSizes \cup {0})'
        /\ (compress = "raw" => Protocol = "q2pro")'
        /\ (compress = "deflate" => EnableDeflate /\ Protocol # "vanilla")'
        /\ (zmax = 0 \/ \E room \in PacketRooms :
              room > ZDOWNLOAD_SIZE /\ zmax = MaxCompressed(room))'
    BY <1>3, <2>1 DEF ServerInv
  <2>3. ASSUME phase' = "active"
        PROVE  /\ (transferred = data)' /\ (data = total => total = 0)'
               /\ Protocol = "q2pro" =>
                    /\ ServerBegan' <=> inflating' \/ ZippedBefore(Len(wire) + 1)'
                    /\ compress' # "none" /\ ~ServerBegan' => data' = 0
    <3>1. n # remaining
      BY <1>2, <2>3
    <3>2. ASSUME Protocol = "q2pro"
          PROVE  ServerBegan' <=> inflating' \/ ZippedBefore(Len(wire) + 1)'
      <4>1. PICK m \in DownloadMessage : wire' = Append(wire, m) /\ m.zipped = zipped
        BY <1>2, <2>3
      <4>2. ZippedBefore(Len(wire) + 1)' <=> ZippedBefore(Len(wire) + 1) \/ zipped
        BY <1>1, <4>1, ZippedAppend
      <4>3. ServerBegan <=> inflating \/ ZippedBefore(Len(wire) + 1)
        BY <1>1, <2>1, <3>2 DEF ServerInv
      <4> QED BY <1>3, <2>3, <3>2, <4>2, <4>3
    <3>3. ASSUME Protocol = "q2pro", compress' # "none", ~ServerBegan'
          PROVE  data' = 0
      <4>1. ~ServerBegan /\ ~zipped /\ compress # "none"
        BY <1>3, <2>3, <3>3
      <4>2. n = 0
        BY <3>3, <4>1 DEF Sent
      <4>3. data = 0
        BY <1>1, <2>1, <3>3, <4>1 DEF ServerInv
      <4> QED BY <1>3, <4>2, <4>3
    <3> QED BY <1>4, <3>1, <3>2, <3>3
  <2>4. ASSUME phase' = "complete"
        PROVE  (transferred = total)' /\ CompleteIsReported'
    <3>1. n = remaining
      BY <1>2, <2>4
    <3>2. wire' # <<>>
      BY <1>1, <1>2, <2>4
    <3> QED BY <1>4, <3>1, <3>2 DEF CompleteIsReported
  <2> QED BY <2>2, <2>3, <2>4 DEF ServerInv
<1> QED BY <1>2, <1>5, <1>6, <1>7 DEF Inv

-----------------------------------------------------------------------------
(* Each call of the library                                                *)

LEMMA PlainKeeps ==
  ASSUME Inv, ~MayRetry, ShortMessages', UNCHANGED clientVars, PlainData PROVE Inv'
<1>1. MayCall /\ remaining > 0 /\ UNCHANGED <<total, compress, valid, zio, zmax, downloads>>
      /\ UNCHANGED <<cphase, file, inflating, zat>>
  BY DEF PlainData, clientVars
<1>2. /\ data \in Nat /\ remaining \in Nat /\ MaxInt16 \in Nat /\ valid \in BOOLEAN
      /\ zmax \in Nat /\ zio \in {"none", "open", "broken"}
  BY <1>1, CallFacts, DownloadAssumption DEF Inv, CountersOK
<1>3. PICK room \in PacketRooms :
        /\ room >= DOWNLOAD_SIZE
        /\ compress = "none" \/ room <= ZDOWNLOAD_SIZE
        /\ LET n == Least(Least(room - DOWNLOAD_SIZE, remaining), MaxInt16) IN
             /\ Consume(n)
             /\ CompleteStruct(remaining - n, room, FALSE, Chunk(n), n, FALSE, FALSE)
  BY DEF PlainData
<1>4. PICK n : n = Least(Least(room - DOWNLOAD_SIZE, remaining), MaxInt16)
  OBVIOUS
<1>5. /\ n \in 0..remaining /\ n \in 0..MaxInt16
      /\ Protocol = "q2pro" /\ compress # "none" => n = 0
  <2>1. room \in Nat
    BY DownloadAssumption
  <2> QED BY <1>2, <1>3, <1>4, <2>1 DEF Least, DOWNLOAD_SIZE, ZDOWNLOAD_SIZE
<1>6. Sent(n, FALSE, n, FALSE, FALSE)
  BY <1>1, <1>3, <1>4, <1>5 DEF Sent
<1>7. Protocol = "q2pro" => (ServerBegan' <=> ServerBegan \/ FALSE)
  <2>1. data' = data + n
    BY <1>3, <1>4 DEF Consume
  <2> QED BY <1>1, <1>2, <1>5, <2>1 DEF ServerBegan
<1> QED BY <1>1, <1>2, <1>6, <1>7, SentKeeps

LEMMA RawKeeps ==
  ASSUME Inv, ~MayRetry, ShortMessages', UNCHANGED clientVars, RawData PROVE Inv'
<1>1. MayCall /\ remaining > 0 /\ UNCHANGED <<total, compress, valid, zio, zmax, downloads>>
      /\ UNCHANGED <<cphase, file, inflating, zat>> /\ compress = "raw"
  BY DEF RawData, clientVars
<1>2. /\ data \in Nat /\ remaining \in Nat /\ MaxInt16 \in Nat \ {0} /\ valid \in BOOLEAN
      /\ zmax \in Nat /\ zio \in {"none", "open", "broken"} /\ Protocol = "q2pro"
  BY <1>1, CallFacts, DownloadAssumption DEF Inv, CountersOK, ServerInv
<1>3. PICK room \in PacketRooms :
        /\ room > ZDOWNLOAD_SIZE
        /\ LET n == Least(Least(room - ZDOWNLOAD_SIZE, remaining), MaxInt16) IN
             /\ Consume(n)
             /\ CompleteStruct(remaining - n, room, TRUE, Chunk(n), n, data = 0, n = remaining)
  BY DEF RawData
<1>4. PICK n : n = Least(Least(room - ZDOWNLOAD_SIZE, remaining), MaxInt16)
  OBVIOUS
<1>5. n \in 0..remaining /\ n \in 0..MaxInt16 /\ n > 0
  <2>1. room \in Nat
    BY DownloadAssumption
  <2> QED BY <1>1, <1>2, <1>3, <1>4, <2>1 DEF Least, ZDOWNLOAD_SIZE
<1>6. (data = 0) <=> ~ServerBegan
  BY <1>1, <1>2 DEF ServerBegan
<1>7. Sent(n, TRUE, n, data = 0, n = remaining)
  BY <1>1, <1>2, <1>3, <1>4, <1>5, <1>6 DEF Sent
<1>8. ServerBegan' <=> ServerBegan \/ TRUE
  <2>1. data' = data + n
    BY <1>3, <1>4 DEF Consume
  <2> QED BY <1>1, <1>2, <1>5, <2>1 DEF ServerBegan
<1> QED BY <1>1, <1>2, <1>7, <1>8, SentKeeps

LEMMA R1q2Keeps ==
  ASSUME Inv, ~MayRetry, ShortMessages', UNCHANGED clientVars, R1q2Data PROVE Inv'
<1>1. /\ MayCall /\ remaining > 0 /\ UNCHANGED <<total, compress, downloads>>
      /\ UNCHANGED <<cphase, file, inflating, zat>> /\ compress = "deflate"
      /\ Protocol = "r1q2" /\ valid' = FALSE /\ zio' = "none"
  BY DEF R1q2Data, clientVars
<1>2. remaining \in Nat /\ MaxInt16 \in Nat
  BY <1>1, CallFacts, DownloadAssumption
<1>3. PICK room \in PacketRooms :
        /\ room > ZDOWNLOAD_SIZE
        /\ \E d \in Deflations(MaxCompressed(room)) :
             /\ Consume(d.consumed)
             /\ CompleteStruct(remaining - d.consumed, room, TRUE, Chunk(d.consumed),
                               d.size, TRUE, TRUE)
        /\ zmax' = MaxCompressed(room)
  BY DEF R1q2Data
<1>4. PICK d \in Deflations(MaxCompressed(room)) :
        /\ Consume(d.consumed)
        /\ CompleteStruct(remaining - d.consumed, room, TRUE, Chunk(d.consumed),
                          d.size, TRUE, TRUE)
  BY <1>3
<1>5. MaxCompressed(room) \in 0..MaxInt16
  BY <1>3, MaxCompressedBounds
<1>6. d.consumed \in 0..remaining /\ d.size \in 0..MaxInt16
  <2>1. PICK max : max = MaxCompressed(room)
    OBVIOUS
  <2>2. max \in Nat /\ d \in Deflations(max) /\ max <= MaxInt16
    BY <1>2, <1>5, <2>1
  <2>3. d.consumed \in 0..remaining /\ d.size \in 0..Monus(max, OUTPUT_MARGIN)
    BY <1>2, <2>2, Deflated
  <2> QED BY <1>2, <2>2, <2>3, MarginShrinks
<1>7. Sent(d.consumed, TRUE, d.size, TRUE, TRUE)
  BY <1>1, <1>4, <1>6 DEF Sent
<1>8. zmax' \in Nat
  BY <1>2, <1>3, <1>5
<1> QED BY <1>1, <1>3, <1>7, <1>8, SentKeeps

LEMMA Q2proKeeps ==
  ASSUME Inv, ~MayRetry, ShortMessages', UNCHANGED clientVars, Q2proData PROVE Inv'
<1>1. /\ MayCall /\ remaining > 0 /\ UNCHANGED <<total, compress, downloads>>
      /\ UNCHANGED <<cphase, file, inflating, zat>> /\ compress = "deflate"
      /\ Protocol = "q2pro"
  BY DEF Q2proData, clientVars
<1>2. remaining \in Nat /\ MaxInt16 \in Nat /\ valid \in BOOLEAN /\ phase = "active"
  BY <1>1, CallFacts, DownloadAssumption
<1>3. PICK room \in PacketRooms :
        /\ room > ZDOWNLOAD_SIZE
        /\ zmax' = IF valid THEN zmax ELSE MaxCompressed(room)
        /\ \E d \in Deflations(zmax') :
             LET finished == d.consumed = remaining IN
               /\ Consume(d.consumed)
               /\ CompleteStruct(remaining - d.consumed, room, TRUE,
                                 Chunk(d.consumed), d.size, ~valid, finished)
               /\ valid' = ~finished
               /\ zio' = IF finished THEN "none" ELSE "open"
  BY DEF Q2proData
<1>4. PICK d \in Deflations(zmax') :
        /\ Consume(d.consumed)
        /\ CompleteStruct(remaining - d.consumed, room, TRUE,
                          Chunk(d.consumed), d.size, ~valid, d.consumed = remaining)
        /\ valid' = ~(d.consumed = remaining)
        /\ zio' = IF d.consumed = remaining THEN "none" ELSE "open"
  BY <1>3
<1>5. /\ zmax' \in 0..MaxInt16
      /\ \/ zmax' = zmax
         \/ \E r \in PacketRooms : r > ZDOWNLOAD_SIZE /\ zmax' = MaxCompressed(r)
  <2>1. MaxCompressed(room) \in 0..MaxInt16
    BY <1>3, MaxCompressedBounds
  <2>2. zmax \in 0..MaxInt16
    BY <1>2, MaxCompressedBounds DEF Inv, ServerInv
  <2>3. zmax' = zmax \/ zmax' = MaxCompressed(room)
    BY <1>2, <1>3
  <2> QED BY <1>3, <2>1, <2>2, <2>3
<1>6. d.consumed \in 0..remaining /\ d.size \in 0..MaxInt16
  <2>1. PICK max : max = zmax'
    OBVIOUS
  <2>2. max \in Nat /\ d \in Deflations(max) /\ max <= MaxInt16
    BY <1>2, <1>4, <1>5, <2>1
  <2>3. d.consumed \in 0..remaining /\ d.size \in 0..Monus(max, OUTPUT_MARGIN)
    BY <1>2, <2>2, Deflated
  <2> QED BY <1>2, <2>2, <2>3, MarginShrinks
<1>7. ServerBegan <=> valid
  BY <1>1 DEF ServerBegan
<1>8. Sent(d.consumed, TRUE, d.size, ~valid, d.consumed = remaining)
  BY <1>1, <1>2, <1>4, <1>6, <1>7 DEF Sent
<1>9. phase' = "active" => (ServerBegan' <=> ServerBegan \/ TRUE)
  <2>1. phase' = "active" => valid'
    <3>1. transferred = data /\ total = data + remaining /\ data \in Nat
      BY <1>1, CallFacts
    <3>2. phase' = "active" => total - (remaining - d.consumed) # total
      BY <1>4 DEF CompleteStruct
    <3>3. d.consumed = remaining => total - (remaining - d.consumed) = total
      BY <1>2, <3>1
    <3>4. d.consumed # remaining => valid' = TRUE
      BY <1>4
    <3> QED BY <3>2, <3>3, <3>4
  <2> QED BY <1>1, <2>1 DEF ServerBegan
<1>10. valid' \in BOOLEAN /\ zio' \in {"none", "open", "broken"} /\ zmax' \in Nat
  BY <1>2, <1>4, <1>5
<1> QED BY <1>1, <1>5, <1>8, <1>9, <1>10, SentKeeps

LEMMA FailKeeps ==
  ASSUME Inv, ~MayRetry, UNCHANGED clientVars, DataFails PROVE Inv'
<1>1. /\ MayCall /\ phase' = "failed"
      /\ UNCHANGED <<total, transferred, compress, wire, downloads>>
      /\ UNCHANGED <<cphase, file, inflating, zat>>
  BY DEF DataFails, DeflateBeginFails, DeflateFails, clientVars
<1>2. /\ data \in Nat /\ remaining \in Nat /\ MaxInt16 \in Nat /\ valid \in BOOLEAN
      /\ phase = "active" /\ cphase = "receiving" /\ total = data + remaining /\ total \in Nat
      /\ transferred \in 0..total
  BY <1>1, CallFacts, DownloadAssumption DEF Inv, CountersOK
<1>3. wire' \in Seq(DownloadMessage) /\ (\E at : WireInv(at))'
  <2>1. transferred <= transferred' /\ UNCHANGED <<wire, total, file, inflating, cphase>>
    BY <1>1, <1>2
  <2> QED BY <1>1, <1>2, <2>1, StayKeeps
<1>4. /\ valid' \in BOOLEAN /\ zio' \in {"none", "open", "broken"} /\ zmax' \in Nat
      /\ data' \in 0..total /\ remaining' = total - data'
      /\ \/ zmax' = zmax
         \/ \E r \in PacketRooms : r > ZDOWNLOAD_SIZE /\ zmax' = MaxCompressed(r)
  <2>1. CASE DeflateBeginFails
    BY <1>2, <2>1 DEF DeflateBeginFails, Inv, CountersOK
  <2>2. CASE DeflateFails
    <3>1. PICK room \in PacketRooms :
            /\ room > ZDOWNLOAD_SIZE
            /\ zmax' = IF valid /\ Protocol = "q2pro" THEN zmax ELSE MaxCompressed(room)
            /\ \E n \in {0} \cup {d.consumed : d \in Deflations(zmax')} : Consume(n)
      BY <2>2 DEF DeflateFails
    <3>2. MaxCompressed(room) \in 0..MaxInt16 /\ zmax \in Nat
      BY <3>1, MaxCompressedBounds DEF Inv, CountersOK
    <3>3. zmax' = zmax \/ zmax' = MaxCompressed(room)
      BY <3>1
    <3>4. zmax' \in Nat
      BY <1>2, <3>2, <3>3
    <3>5. PICK n \in {0} \cup {d.consumed : d \in Deflations(zmax')} : Consume(n)
      BY <3>1
    <3>6. n \in 0..remaining
      <4>1. CASE n = 0
        BY <1>2, <4>1
      <4>2. CASE n # 0
        <5>1. PICK max : max = zmax'
          OBVIOUS
        <5>2. PICK d \in Deflations(max) : n = d.consumed
          BY <3>5, <4>2, <5>1
        <5> QED BY <1>2, <3>4, <5>1, <5>2, Deflated
      <4> QED BY <4>1, <4>2
    <3>7. data' = data + n /\ remaining' = remaining - n /\ valid' = TRUE /\ zio' = "broken"
      BY <2>2, <3>5 DEF DeflateFails, Consume
    <3>8. data' \in 0..total /\ remaining' = total - data'
      BY <1>2, <3>6, <3>7
    <3> QED BY <3>1, <3>3, <3>4, <3>7, <3>8
  <2> QED BY <2>1, <2>2 DEF DataFails
<1>5. CountersOK'
  BY <1>1, <1>4 DEF Inv, CountersOK, Phases
<1>6. ServerInv'
  <2>1. ServerInv
    BY DEF Inv
  <2> QED BY <1>1, <1>4, <2>1 DEF ServerInv
<1>7. ClientInv'
  BY <1>1, <1>2 DEF Inv, ClientInv, AlwaysInflates
<1> QED BY <1>3, <1>5, <1>6, <1>7 DEF Inv

LEMMA FinishKeeps ==
  ASSUME Inv, UNCHANGED clientVars, DownloadFinish PROVE Inv'
<1>1. PICK m : m = Message(FALSE, <<>>, 0, 100, FALSE, FALSE)
  OBVIOUS
<1>2. /\ phase = "active" /\ total = 0 /\ wire' = Append(wire, m) /\ phase' = "complete"
      /\ UNCHANGED <<total, transferred, compress, valid, zio, zmax, data, remaining, downloads>>
      /\ UNCHANGED <<cphase, file, inflating, zat>>
  BY <1>1 DEF DownloadFinish, clientVars
<1>3. cphase = "receiving" /\ transferred = 0 /\ MaxInt16 \in Nat /\ wire \in Seq(DownloadMessage)
  BY <1>2, DownloadAssumption DEF Inv, ClientInv, CountersOK
<1>4. m \in DownloadMessage /\ m.zipped = FALSE /\ m.bytes = <<>> /\ m.size = 0 /\ m.percent = 100
  BY <1>1 DEF Message, DownloadMessage
<1>5. wire' \in Seq(DownloadMessage) /\ (\E at : WireInv(at))'
  <2>1. transferred + 0 = transferred /\ m.bytes = Slice(transferred, transferred + 0)
    BY <1>3, <1>4, SliceEmpty
  <2>2. 0 \in Nat /\ 0 <= MaxInt16 /\ transferred + 0 <= total /\ transferred' = transferred + 0
    BY <1>2, <1>3
  <2>3. m.size \in -1..MaxInt16 /\ m.size # -1 /\ transferred' = total /\ phase' # "overrun"
    BY <1>2, <1>3, <1>4
  <2> QED BY <1>2, <1>3, <1>4, <2>1, <2>2, <2>3, AppendKeeps
<1>6. CountersOK'
  BY <1>2 DEF Inv, CountersOK, Phases
<1>7. ServerInv'
  <2>1. ServerInv
    BY DEF Inv
  <2>2. wire' # <<>>
    BY <1>2, <1>3
  <2> QED BY <1>2, <1>3, <2>1, <2>2 DEF ServerInv, CompleteIsReported
<1>8. ClientInv'
  BY <1>2, <1>3 DEF Inv, ClientInv, AlwaysInflates
<1> QED BY <1>5, <1>6, <1>7, <1>8 DEF Inv

LEMMA AbortKeeps ==
  ASSUME Inv, UNCHANGED clientVars, DownloadAbort PROVE Inv'
<1>1. PICK p : p = IF total = 0 THEN 0 ELSE Percent(transferred)
  OBVIOUS
<1>2. PICK m : m = AbortMessage(p)
  OBVIOUS
<1>3. /\ phase \in {"active", "failed"} /\ wire' = Append(wire, m) /\ phase' = "stopped"
      /\ UNCHANGED <<total, transferred, compress, valid, zio, zmax, data, remaining, downloads>>
      /\ UNCHANGED <<cphase, file, inflating, zat>>
  BY <1>1, <1>2 DEF DownloadAbort, clientVars
<1>4. cphase = "receiving" /\ transferred \in 0..total /\ total \in Nat /\ MaxInt16 \in Nat
      /\ wire \in Seq(DownloadMessage)
  BY <1>3, DownloadAssumption DEF Inv, ClientInv, CountersOK
<1>5. p \in 0..100
  <2>1. CASE total = 0
    BY <1>1, <2>1
  <2>2. CASE total # 0
    <3>1. PICK a : a = (100 * transferred) % SizeModulus
      OBVIOUS
    <3>2. a \in Nat /\ a <= 100 * transferred
      BY <1>4, <3>1, Modulus, DownloadAssumption
    <3>3. a < (100 + 1) * total
      BY <1>4, <2>2, <3>2
    <3>4. a \div total \in 0..100
      BY <1>4, <2>2, <3>2, <3>3, Quotient
    <3> QED BY <1>1, <2>2, <3>1, <3>4 DEF Percent
  <2> QED BY <2>1, <2>2
<1>6. m \in DownloadMessage /\ m.zipped = FALSE /\ m.bytes = <<>> /\ m.size = -1
  BY <1>2, <1>5 DEF AbortMessage, Message, DownloadMessage
<1>7. wire' \in Seq(DownloadMessage) /\ (\E at : WireInv(at))'
  <2>1. transferred + 0 = transferred /\ m.bytes = Slice(transferred, transferred + 0)
    BY <1>4, <1>6, SliceEmpty
  <2>2. 0 \in Nat /\ 0 <= MaxInt16 /\ transferred + 0 <= total /\ transferred' = transferred + 0
    BY <1>3, <1>4
  <2>3. m.size \in -1..MaxInt16 /\ phase' # "overrun"
    BY <1>3, <1>4, <1>6
  <2> QED BY <1>3, <1>4, <1>6, <2>1, <2>2, <2>3, AppendKeeps
<1>8. CountersOK'
  BY <1>3 DEF Inv, CountersOK, Phases
<1>9. ServerInv'
  <2>1. ServerInv
    BY DEF Inv
  <2> QED BY <1>3, <2>1 DEF ServerInv
<1>10. ClientInv'
  BY <1>3, <1>4 DEF Inv, ClientInv, AlwaysInflates
<1> QED BY <1>7, <1>8, <1>9, <1>10 DEF Inv

LEMMA EndKeeps ==
  ASSUME Inv, UNCHANGED clientVars, DownloadEnd PROVE Inv'
<1>1. /\ phase \in {"complete", "stopped"} /\ phase' = "idle"
      /\ valid' = FALSE /\ zio' = IF valid THEN "none" ELSE zio
      /\ UNCHANGED <<total, transferred, compress, zmax, data, remaining, wire, downloads>>
      /\ UNCHANGED <<cphase, file, inflating, zat>>
  BY DEF DownloadEnd, EndDeflate, clientVars
<1>2. wire' \in Seq(DownloadMessage) /\ (\E at : WireInv(at))'
  <2>1. transferred <= transferred' /\ UNCHANGED <<wire, total, file, inflating, cphase>>
    BY <1>1 DEF Inv, CountersOK
  <2> QED BY <1>1, <2>1, StayKeeps
<1>3. CountersOK'
  BY <1>1 DEF Inv, CountersOK, Phases
<1>4. ServerInv'
  <2>1. ServerInv
    BY DEF Inv
  <2> QED BY <1>1, <2>1 DEF ServerInv
<1>5. ClientInv'
  BY <1>1 DEF Inv, ClientInv, AlwaysInflates
<1> QED BY <1>2, <1>3, <1>4, <1>5 DEF Inv

-----------------------------------------------------------------------------
(* The beginning and the end of a download                                 *)

\* Nothing, or an abort message, is on its way to a client with no data.
LEMMA FreshWire ==
  ASSUME file' = <<>>, total' \in Nat, transferred' \in Nat, cphase' # "idle" => transferred' = 0,
         wire' = <<>> \/ (phase' = "stopped" /\ \E w \in Seq(DownloadMessage) :
                            w = <<>> /\ wire' = Append(w, AbortMessage(0)))
  PROVE  wire' \in Seq(DownloadMessage) /\ (\E at : WireInv(at))'
<1>1. MaxInt16 \in Nat
  BY DownloadAssumption
<1>2. PICK m : m = AbortMessage(0)
  OBVIOUS
<1>3. m \in DownloadMessage /\ m.zipped = FALSE /\ m.bytes = <<>> /\ m.size = -1
  BY <1>2 DEF AbortMessage, Message, DownloadMessage
<1>4. CASE wire' = <<>>
  <2>1. PICK at : at = [i \in 0..0 |-> 0]
    OBVIOUS
  <2>2. Len(wire') = 0 /\ Len(file') = 0 /\ wire' \in Seq(DownloadMessage)
    BY <1>4
  <2>3. at \in [0..Len(wire') -> 0..total'] /\ at[0] = 0
    BY <2>1, <2>2
  <2>4. WireInv(at)'
    BY <2>2, <2>3 DEF WireInv
  <2>5. (\E a : WireInv(a))'
    BY <2>4, Zenon
  <2> QED BY <2>2, <2>5
<1>5. CASE phase' = "stopped" /\ \E w \in Seq(DownloadMessage) :
                                  w = <<>> /\ wire' = Append(w, AbortMessage(0))
  <2>1. PICK at : at = [i \in 0..1 |-> 0]
    OBVIOUS
  <2>2. Len(wire') = 1 /\ Len(file') = 0 /\ wire' \in Seq(DownloadMessage) /\ wire'[1] = m
    BY <1>2, <1>3, <1>5
  <2>3. at \in [0..Len(wire') -> 0..total'] /\ at[0] = 0 /\ at[1] = 0
    BY <2>1, <2>2
  <2>4. Slice(0, 0) = <<>>
    BY SliceEmpty
  <2>5. MessageInv(at, 1)'
    BY <1>1, <1>3, <1>5, <2>2, <2>3, <2>4 DEF MessageInv, IsLast
  <2>6. StreamInv(at, 1)'
    BY <1>3, <2>2, <2>3 DEF StreamInv
  <2>7. WireInv(at)'
    BY <2>2, <2>3, <2>5, <2>6 DEF WireInv
  <2>8. (\E a : WireInv(a))'
    BY <2>7, Zenon
  <2> QED BY <2>2, <2>8
<1> QED BY <1>4, <1>5

LEMMA RequestKeeps ==
  ASSUME Inv, Request PROVE Inv'
<1>1. /\ phase = "idle" /\ downloads < MaxDownloads /\ downloads' = downloads + 1
      /\ wire = <<>> /\ cphase # "receiving" /\ cphase' = "receiving" /\ file' = <<>>
      /\ valid' = FALSE /\ UNCHANGED <<zio, zmax, inflating, zat>>
  BY DEF Request, DownloadBegin
<1>2. PICK size \in TotalSizes, mode \in CompressModes :
        /\ total' = size
        /\ data' = 0 /\ remaining' = size
        /\ transferred' = 0
        /\ IF size > 0 /\ mode = "raw" /\ ~RawSupported
             THEN /\ phase' = "stopped"
                  /\ compress' = "none"
                  /\ wire' = Append(wire, AbortMessage(0))
             ELSE /\ phase' = "active"
                  /\ compress' = CompressionOf(mode, size)
                  /\ UNCHANGED wire
  BY DEF Request, DownloadBegin
<1>3. ~inflating /\ zat = 0 /\ size \in Nat /\ MaxDownloads \in Nat
  BY <1>1, DownloadAssumption DEF Inv, ClientInv
<1>4. wire' \in Seq(DownloadMessage) /\ (\E at : WireInv(at))'
  <2>1. wire' = <<>> \/ (phase' = "stopped" /\ \E w \in Seq(DownloadMessage) :
                            w = <<>> /\ wire' = Append(w, AbortMessage(0)))
    BY <1>1, <1>2 DEF Inv
  <2> QED BY <1>1, <1>2, <1>3, <2>1, FreshWire
<1>5. /\ compress' \in {"none", "deflate", "raw"} /\ phase' \in {"stopped", "active"}
      /\ compress' = "raw" => Protocol = "q2pro"
      /\ compress' = "deflate" => EnableDeflate /\ Protocol # "vanilla"
      /\ phase' = "active" => wire' = <<>>
  BY <1>1, <1>2, DownloadAssumption DEF CompressionOf
<1>6. CountersOK'
  <2>1. downloads' \in 0..MaxDownloads /\ zmax' \in Nat /\ zio' \in {"none", "open", "broken"}
    BY <1>1, <1>3 DEF Inv, CountersOK
  <2>2. /\ total' \in Nat /\ transferred' \in 0..total' /\ data' \in 0..total'
        /\ remaining' = total' - data'
    BY <1>2, <1>3
  <2>3. phase' \in Phases /\ cphase' \in ClientPhases /\ inflating' = FALSE /\ zat' = 0
        /\ valid' = FALSE
    <3>1. inflating = FALSE
      BY <1>3 DEF Inv, CountersOK
    <3> QED BY <1>1, <1>3, <1>5, <3>1 DEF Phases, ClientPhases
  <2> QED BY <1>5, <2>1, <2>2, <2>3 DEF CountersOK
<1>7. ServerInv'
  <2>1. (zmax = 0 \/ \E room \in PacketRooms :
              room > ZDOWNLOAD_SIZE /\ zmax = MaxCompressed(room))'
    BY <1>1 DEF Inv, ServerInv
  <2>2. phase' = "active" => ~ZippedBefore(Len(wire) + 1)'
    BY <1>5 DEF ZippedBefore
  <2>3. ~ServerBegan'
    BY <1>1, <1>2 DEF ServerBegan
  <2> QED BY <1>1, <1>2, <1>3, <1>5, <2>1, <2>2, <2>3 DEF ServerInv
<1>8. ClientInv'
  <2>1. Len(file') = 0 /\ file' = Slice(0, 0)
    BY <1>1, SliceEmpty
  <2> QED BY <1>1, <1>3, <2>1 DEF ClientInv, AlwaysInflates
<1> QED BY <1>4, <1>6, <1>7, <1>8 DEF Inv

LEMMA DropKeeps ==
  ASSUME Inv, Drop PROVE Inv'
<1>1. /\ phase' = "idle" /\ valid' = FALSE /\ zio' = IF valid THEN "none" ELSE zio
      /\ wire' = <<>> /\ cphase' = "idle" /\ file' = <<>> /\ inflating' = FALSE /\ zat' = 0
      /\ UNCHANGED <<total, transferred, compress, zmax, data, remaining, downloads>>
  BY DEF Drop, EndDeflate, DownloadReset
<1>2. wire' \in Seq(DownloadMessage) /\ (\E at : WireInv(at))'
  <2>1. total' \in Nat /\ transferred' \in Nat
    BY <1>1 DEF Inv, CountersOK
  <2> QED BY <1>1, <2>1, FreshWire
<1>3. CountersOK'
  BY <1>1 DEF Inv, CountersOK, Phases, ClientPhases
<1>4. ServerInv'
  <2>1. ServerInv
    BY DEF Inv
  <2> QED BY <1>1, <2>1 DEF ServerInv
<1>5. ClientInv'
  <2>1. Len(file') = 0 /\ file' = Slice(0, 0)
    BY <1>1, SliceEmpty
  <2> QED BY <1>1, <2>1 DEF ClientInv, AlwaysInflates
<1> QED BY <1>2, <1>3, <1>4, <1>5 DEF Inv

LEMMA StutterKeeps ==
  ASSUME Inv, UNCHANGED vars PROVE Inv'
<1>1. UNCHANGED serverVars /\ UNCHANGED clientVars
  BY DEF vars
<1>2. /\ UNCHANGED <<phase, total, transferred, compress, valid, zio, zmax, data, remaining>>
      /\ UNCHANGED <<wire, downloads, cphase, file, inflating, zat>>
  BY <1>1 DEF serverVars, clientVars
<1>3. wire' \in Seq(DownloadMessage) /\ (\E at : WireInv(at))'
  <2>1. transferred <= transferred' /\ UNCHANGED <<wire, total, file, inflating, cphase>>
    BY <1>2 DEF Inv, CountersOK
  <2> QED BY <1>2, <2>1, StayKeeps
<1>4. CountersOK' /\ ClientInv'
  BY <1>2 DEF Inv, CountersOK, ClientInv, AlwaysInflates
<1>5. ServerInv'
  <2>1. ServerInv
    BY DEF Inv
  <2>2. ZippedBefore(Len(wire) + 1)' <=> ZippedBefore(Len(wire) + 1)
    BY <1>2 DEF ZippedBefore
  <2>3. (ServerBegan' <=> ServerBegan) /\ (CompleteIsReported' <=> CompleteIsReported)
        /\ (PercentFits(total)' <=> PercentFits(total))
    BY <1>2 DEF ServerBegan, CompleteIsReported, PercentFits
  <2> QED BY <1>2, <2>1, <2>2, <2>3 DEF ServerInv
<1> QED BY <1>3, <1>4, <1>5 DEF Inv

LEMMA InitInv == Init => Inv
<1> SUFFICES ASSUME Init PROVE Inv
  OBVIOUS
<1>1. /\ phase = "idle" /\ total = 0 /\ transferred = 0 /\ compress = "none" /\ valid = FALSE
      /\ zio = "none" /\ zmax = 0 /\ data = 0 /\ remaining = 0 /\ wire = <<>> /\ downloads = 0
      /\ cphase = "idle" /\ file = <<>> /\ inflating = FALSE /\ zat = 0
  BY DEF Init, ServerInit, ClientInit
<1>2. \E at : WireInv(at)
  <2>1. PICK at : at = [i \in 0..0 |-> 0]
    OBVIOUS
  <2>2. at \in [0..Len(wire) -> 0..total] /\ at[0] = 0 /\ Len(wire) = 0 /\ Len(file) = 0
    BY <1>1, <2>1
  <2> QED BY <1>1, <2>2 DEF WireInv
<1>3. CountersOK
  <2>1. MaxDownloads \in Nat
    BY DownloadAssumption
  <2>2. /\ total \in Nat /\ transferred \in 0..total /\ data \in 0..total
        /\ remaining = total - data /\ zmax \in Nat /\ zat \in Nat /\ downloads \in 0..MaxDownloads
    BY <1>1, <2>1
  <2>3. phase \in Phases /\ cphase \in ClientPhases /\ zio \in {"none", "open", "broken"}
        /\ compress \in {"none", "deflate", "raw"}
    BY <1>1 DEF Phases, ClientPhases
  <2>4. valid \in BOOLEAN /\ inflating \in BOOLEAN
    BY <1>1
  <2> QED BY <2>2, <2>3, <2>4 DEF CountersOK
<1>4. ServerInv
  BY <1>1 DEF ServerInv
<1>5. ClientInv
  <2>1. Len(file) = 0 /\ file = Slice(0, 0)
    BY <1>1, SliceEmpty
  <2> QED BY <1>1, <2>1 DEF ClientInv, AlwaysInflates
<1> QED BY <1>1, <1>2, <1>3, <1>4, <1>5 DEF Inv

LEMMA StepKeeps ==
  ASSUME ~MayRetry, Inv, ShortMessages', [Next]_vars PROVE Inv'
<1>1. CASE Request
  BY <1>1, RequestKeeps
<1>2. CASE Drop
  BY <1>2, DropKeeps
<1>3. CASE Server
  <2>1. ServerNext /\ UNCHANGED clientVars
    BY <1>3 DEF Server
  <2>2. CASE DataCall
    BY <2>1, <2>2, PlainKeeps, RawKeeps, R1q2Keeps, Q2proKeeps DEF DataCall
  <2>3. CASE DataFails
    BY <2>1, <2>3, FailKeeps
  <2>4. CASE DownloadFinish \/ DownloadAbort \/ DownloadEnd
    BY <2>1, <2>4, FinishKeeps, AbortKeeps, EndKeeps
  <2> QED BY <2>1, <2>2, <2>3, <2>4 DEF ServerNext
<1>4. CASE Client
  BY <1>4, ClientKeeps
<1>5. CASE UNCHANGED vars
  BY <1>5, StutterKeeps
<1> QED BY <1>1, <1>2, <1>3, <1>4, <1>5 DEF Next

-----------------------------------------------------------------------------
(* What follows from the invariant                                         *)

LEMMA FileFollows == Inv => FileIntact
<1> SUFFICES ASSUME Inv, NEW i \in Bytes PROVE file[i] = i
  BY DEF FileIntact
<1>1. Len(file) \in 0..total /\ total \in Nat
  BY DEF Inv, WireInv, CountersOK
<1>2. PICK n : n = Len(file)
  OBVIOUS
<1>3. file = Slice(0, n) /\ n \in Nat /\ i \in 1..n
  BY <1>1, <1>2 DEF Inv, ClientInv, Bytes
<1>4. Slice(0, n)[i] = 0 + i
  <2>1. n - 0 = n /\ 0 <= n /\ i \in 1..(n - 0) /\ 0 + i = i
    BY <1>3
  <2> QED BY <1>3, <2>1, SliceType
<1> QED BY <1>3, <1>4

\* InFlight adds up the messages: the positions are where they end.
LEMMA InFlightExact ==
  ASSUME Inv, NEW at, WireInv(at)
  PROVE  \A i \in 0..Len(wire) : InFlight[i] = at[i] - at[0]
<1>1. PICK N : N = Len(wire)
  OBVIOUS
<1>2. N \in Nat /\ total \in Nat /\ at \in [0..N -> 0..total]
  BY <1>1 DEF Inv, CountersOK, WireInv
<1>3. ASSUME NEW i \in 1..N PROVE Len(wire[i].bytes) = at[i] - at[i - 1]
  <2>1. PICK a, b : a = at[i - 1] /\ b = at[i]
    OBVIOUS
  <2>2. MessageInv(at, i) /\ i - 1 \in 0..N /\ i \in 0..N
    BY <1>1, <1>2 DEF WireInv
  <2>3. a \in Nat /\ b \in Nat /\ a <= b /\ wire[i].bytes = Slice(a, b)
    BY <1>2, <2>1, <2>2 DEF MessageInv
  <2>4. Len(Slice(a, b)) = b - a
    BY <2>3, SliceType
  <2> QED BY <2>1, <2>3, <2>4
<1>4. PICK g : g = [i \in 0..N |-> at[i] - at[0]]
  OBVIOUS
<1>5. g = [i \in 0..N |-> IF i = 0 THEN 0 ELSE g[i - 1] + Len(wire[i].bytes)]
  <2>1. ASSUME NEW i \in 0..N
        PROVE  at[i] - at[0] = IF i = 0 THEN 0 ELSE g[i - 1] + Len(wire[i].bytes)
    <3>1. CASE i = 0
      BY <1>2, <3>1
    <3>2. CASE i # 0
      <4>1. i \in 1..N /\ i - 1 \in 0..N /\ 0 \in 0..N
        BY <1>2, <3>2
      <4>2. at[i] \in Int /\ at[i - 1] \in Int /\ at[0] \in Int
        BY <1>2, <4>1
      <4>3. g[i - 1] = at[i - 1] - at[0]
        BY <1>4, <4>1
      <4> QED BY <1>3, <3>2, <4>1, <4>2, <4>3
    <3> QED BY <3>1, <3>2
  <2> QED BY <1>4, <2>1
<1>6. InFlight = [i \in 0..N |-> IF i = 0 THEN 0 ELSE InFlight[i - 1] + Len(wire[i].bytes)]
  BY <1>1, <1>5 DEF InFlight
<1>7. g = InFlight
  <2> SUFFICES ASSUME g # InFlight PROVE FALSE
    OBVIOUS
  <2>1. PICK S : S = {i \in 0..N : g[i] # InFlight[i]}
    OBVIOUS
  <2>2. S \in SUBSET Nat /\ S # {}
    <3>1. g = [i \in 0..N |-> g[i]]
      BY <1>4
    <3>2. InFlight = [i \in 0..N |-> InFlight[i]]
      BY <1>6
    <3>3. (\A i \in 0..N : g[i] = InFlight[i]) => g = InFlight
      <4> SUFFICES ASSUME \A i \in 0..N : g[i] = InFlight[i]
                   PROVE  g = [i \in 0..N |-> InFlight[i]]
        BY <3>2
      <4> QED BY <3>1
    <3>4. PICK i \in 0..N : g[i] # InFlight[i]
      BY <3>3
    <3>5. i \in S /\ S \subseteq 0..N /\ 0..N \subseteq Nat
      BY <1>2, <2>1, <3>4
    <3> QED BY <3>5
  <2>3. PICK i \in S : \A j \in S : i <= j
    BY <2>2, LeastElement
  <2>4. i \in 0..N /\ g[i] # InFlight[i]
    BY <2>1
  <2>5. i # 0
    BY <1>2, <1>5, <1>6, <2>4
  <2>6. i - 1 \in 0..N /\ ~(i - 1 \in S)
    BY <1>2, <2>3, <2>4, <2>5
  <2>7. g[i - 1] = InFlight[i - 1]
    BY <2>1, <2>6
  <2> QED BY <1>5, <1>6, <2>4, <2>5, <2>7
<1> QED BY <1>1, <1>4, <1>7

LEMMA PositionsExact ==
  ASSUME Inv PROVE WireInv(Positions) /\ ProgressIsExact
<1>1. PICK at : WireInv(at)
  BY DEF Inv
<1>2. PICK N : N = Len(wire)
  OBVIOUS
<1>3. /\ N \in Nat /\ total \in Nat /\ at \in [0..N -> 0..total] /\ at[0] = Len(file)
      /\ phase # "overrun" /\ cphase # "idle" => at[N] = transferred
      /\ 0 \in 0..N /\ N \in 0..N
  BY <1>1, <1>2 DEF Inv, CountersOK, WireInv
<1>4. \A i \in 0..N : InFlight[i] = at[i] - at[0]
  BY <1>1, <1>2, InFlightExact
<1>5. \A i \in 0..N : Len(file) + InFlight[i] = at[i]
  <2> SUFFICES ASSUME NEW i \in 0..N PROVE Len(file) + InFlight[i] = at[i]
    OBVIOUS
  <2>1. at[i] \in Int /\ at[0] \in Int
    BY <1>3
  <2> QED BY <1>3, <1>4, <2>1
<1>6. Positions = at
  BY <1>2, <1>3, <1>5 DEF Positions
<1>7. ProgressIsExact
  BY <1>2, <1>3, <1>5 DEF ProgressIsExact
<1> QED BY <1>1, <1>6, <1>7

LEMMA ReportFollows ==
  ASSUME Inv, \A n \in TotalSizes : PercentFits(n) PROVE CompleteIsReported
<1>1. PercentFits(total) \/ total \notin TotalSizes
  OBVIOUS
<1>2. PercentFits(0)
  BY DownloadAssumption DEF PercentFits
<1>3. total \in TotalSizes \cup {0} /\ (phase = "complete" /\ PercentFits(total) => CompleteIsReported)
  BY DEF Inv, ServerInv
<1>4. PercentFits(total)
  BY <1>1, <1>2, <1>3
<1>5. phase = "complete" => CompleteIsReported
  BY <1>3, <1>4
<1> QED BY <1>5 DEF CompleteIsReported

\* Each message fits its packet.
LEMMA DataFits ==
  ASSUME SteadyRooms, ~MayRetry, Inv, DataCall PROVE phase' # "overrun"
<1>1. MayCall /\ remaining > 0
  BY DEF DataCall, PlainData, RawData, R1q2Data, Q2proData
<1>2. remaining \in Nat /\ MaxInt16 \in Nat /\ valid \in BOOLEAN
  BY <1>1, CallFacts, DownloadAssumption
<1>3. CASE PlainData
  <2>1. PICK room \in PacketRooms :
          /\ room >= DOWNLOAD_SIZE
          /\ LET n == Least(Least(room - DOWNLOAD_SIZE, remaining), MaxInt16) IN
               CompleteStruct(remaining - n, room, FALSE, Chunk(n), n, FALSE, FALSE)
    BY <1>3 DEF PlainData
  <2>2. PICK n : n = Least(Least(room - DOWNLOAD_SIZE, remaining), MaxInt16)
    OBVIOUS
  <2>3. n + DOWNLOAD_SIZE <= room
    <3>1. room \in Nat
      BY DownloadAssumption
    <3> QED BY <1>2, <2>1, <2>2, <3>1 DEF Least, DOWNLOAD_SIZE
  <2>4. ~(n + DOWNLOAD_SIZE > room)
    BY <1>2, <2>1, <2>2, <2>3, DownloadAssumption DEF DOWNLOAD_SIZE, Least
  <2> QED BY <2>1, <2>2, <2>4 DEF CompleteStruct
<1>4. CASE RawData
  <2>1. PICK room \in PacketRooms :
          /\ room > ZDOWNLOAD_SIZE
          /\ LET n == Least(Least(room - ZDOWNLOAD_SIZE, remaining), MaxInt16) IN
               CompleteStruct(remaining - n, room, TRUE, Chunk(n), n, data = 0, n = remaining)
    BY <1>4 DEF RawData
  <2>2. PICK n : n = Least(Least(room - ZDOWNLOAD_SIZE, remaining), MaxInt16)
    OBVIOUS
  <2>3. ~(n + ZDOWNLOAD_SIZE > room)
    <3>1. room \in Nat
      BY DownloadAssumption
    <3> QED BY <1>2, <2>1, <2>2, <3>1 DEF Least, ZDOWNLOAD_SIZE
  <2> QED BY <2>1, <2>2, <2>3 DEF CompleteStruct
<1>5. CASE R1q2Data
  <2>1. PICK room \in PacketRooms :
          /\ room > ZDOWNLOAD_SIZE
          /\ \E d \in Deflations(MaxCompressed(room)) :
               CompleteStruct(remaining - d.consumed, room, TRUE, Chunk(d.consumed),
                              d.size, TRUE, TRUE)
    BY <1>5 DEF R1q2Data
  <2>2. PICK max : max = MaxCompressed(room)
    OBVIOUS
  <2>3. PICK d \in Deflations(max) :
          CompleteStruct(remaining - d.consumed, room, TRUE, Chunk(d.consumed),
                         d.size, TRUE, TRUE)
    BY <2>1, <2>2
  <2>4. max \in Nat /\ max <= room - ZDOWNLOAD_SIZE /\ room \in Nat /\ ZDOWNLOAD_SIZE \in {4, 6}
    BY <1>2, <2>1, <2>2, MaxCompressedBounds
  <2>5. d.size \in 0..Monus(max, OUTPUT_MARGIN) /\ Monus(max, OUTPUT_MARGIN) \in 0..max
    BY <1>2, <2>4, Deflated, MarginShrinks
  <2>6. ~(d.size + ZDOWNLOAD_SIZE > room)
    BY <2>4, <2>5
  <2> QED BY <2>3, <2>6 DEF CompleteStruct
<1>6. CASE Q2proData
  <2>1. PICK room \in PacketRooms :
          /\ room > ZDOWNLOAD_SIZE
          /\ zmax' = IF valid THEN zmax ELSE MaxCompressed(room)
          /\ \E d \in Deflations(zmax') :
               CompleteStruct(remaining - d.consumed, room, TRUE, Chunk(d.consumed),
                              d.size, ~valid, d.consumed = remaining)
    BY <1>6 DEF Q2proData
  <2>2. PICK max : max = zmax'
    OBVIOUS
  <2>3. PICK d \in Deflations(max) :
          CompleteStruct(remaining - d.consumed, room, TRUE, Chunk(d.consumed),
                         d.size, ~valid, d.consumed = remaining)
    BY <2>1, <2>2
  <2>4. room \in Nat /\ ZDOWNLOAD_SIZE \in {4, 6}
    BY <2>1, MaxCompressedBounds
  <2>5. max \in Nat /\ Monus(max, OUTPUT_MARGIN) <= room - ZDOWNLOAD_SIZE
    <3>1. CASE max = 0
      BY <2>1, <2>4, <3>1 DEF Monus, OUTPUT_MARGIN
    <3>2. CASE max # 0
      <4>1. PICK r \in PacketRooms : r > ZDOWNLOAD_SIZE /\ max = MaxCompressed(r)
        BY <1>2, <2>1, <2>2, <3>2 DEF Inv, ServerInv
      <4>2. max \in Nat /\ max <= r - ZDOWNLOAD_SIZE /\ r \in Nat
        BY <1>2, <4>1, MaxCompressedBounds
      <4>3. Monus(max, OUTPUT_MARGIN) <= Monus(r - ZDOWNLOAD_SIZE, OUTPUT_MARGIN)
        BY <2>4, <4>2 DEF Monus, OUTPUT_MARGIN
      <4>4. Protocol = "q2pro" /\ EnableDeflate
        BY <1>6 DEF Q2proData, Inv, ServerInv
      <4>5. Monus(r - ZDOWNLOAD_SIZE, OUTPUT_MARGIN) <= room - ZDOWNLOAD_SIZE
        BY <2>1, <4>1, <4>4 DEF SteadyRooms
      <4>6. Monus(r - ZDOWNLOAD_SIZE, OUTPUT_MARGIN) \in Int /\ Monus(max, OUTPUT_MARGIN) \in Int
        BY <2>4, <4>2 DEF Monus, OUTPUT_MARGIN
      <4> QED BY <2>4, <4>2, <4>3, <4>5, <4>6
    <3> QED BY <3>1, <3>2
  <2>6. d.size \in 0..Monus(max, OUTPUT_MARGIN) /\ Monus(max, OUTPUT_MARGIN) \in 0..max
    BY <1>2, <2>5, Deflated, MarginShrinks
  <2>7. ~(d.size + ZDOWNLOAD_SIZE > room)
    BY <2>4, <2>5, <2>6
  <2> QED BY <2>3, <2>7 DEF CompleteStruct
<1> QED BY <1>3, <1>4, <1>5, <1>6 DEF DataCall

LEMMA FitKeeps ==
  ASSUME SteadyRooms, ~MayRetry, Inv, FitsPacket, [Next]_vars PROVE FitsPacket'
<1>1. CASE Request
  BY <1>1 DEF Request, DownloadBegin, FitsPacket
<1>2. CASE Drop
  BY <1>2 DEF Drop, FitsPacket
<1>3. CASE Server
  <2>1. CASE DataCall
    BY <2>1, DataFits DEF FitsPacket
  <2>2. CASE ~DataCall
    BY <1>3, <2>2 DEF Server, ServerNext, DataFails, DeflateBeginFails, DeflateFails,
                     DownloadFinish, DownloadAbort, DownloadEnd, FitsPacket
  <2> QED BY <2>1, <2>2
<1>4. CASE Client
  BY <1>4 DEF Client, FitsPacket
<1>5. CASE UNCHANGED vars
  BY <1>5 DEF vars, serverVars, FitsPacket
<1> QED BY <1>1, <1>2, <1>3, <1>4, <1>5 DEF Next

-----------------------------------------------------------------------------
(* Each step is one of FileTransfer's, or none.                            *)

LEMMA ClientTransfers ==
  ASSUME Inv, \A n \in TotalSizes : PercentFits(n), Client
  PROVE  Transfer!Receive \/ Transfer!Stop
<1>1. PICK m : m = wire[1]
  OBVIOUS
<1>2. PICK end : end = Len(file) + Len(m.bytes)
  OBVIOUS
<1>3. ClientNext /\ UNCHANGED <<phase, total, transferred>>
  BY DEF Client
<1>4. /\ wire # <<>> /\ cphase = "receiving" /\ wire' = Tail(wire)
      /\ file' = file \o m.bytes
      /\ IF m.size = -1
           THEN cphase' = "aborted" /\ ~inflating'
           ELSE /\ cphase' = IF m.percent = 100 THEN "complete" ELSE "receiving"
                /\ cphase' = "complete" => ~inflating'
                /\ Protocol = "q2pro" /\ end # total =>
                     (inflating' <=> inflating \/ m.zipped)
  BY <1>1, <1>2, <1>3, ReadingResult
<1>5. FirstFacts(m, end)
  BY <1>1, <1>2, <1>4, FirstMessage
<1>6. file \in Seq(Nat) /\ file = Slice(0, Len(file)) /\ Len(file) \in Nat /\ m.bytes \in Seq(Nat)
  <2>1. file = Slice(0, Len(file)) /\ Len(file) \in Nat
    BY <1>5 DEF Inv, ClientInv, FirstFacts
  <2>2. Slice(0, Len(file)) \in Seq(Nat)
    BY <2>1, SliceType
  <2> QED BY <1>5, <2>1, <2>2 DEF FirstFacts, DownloadMessage
<1>7. Status = "receiving" /\ total' = total
  BY <1>3, <1>4 DEF Status
<1>8. CASE m.size = -1
  <2>1. file' = file
    BY <1>4, <1>5, <1>6, <1>8, ConcatEmptySeq DEF FirstFacts
  <2>2. Status' = "stopped"
    BY <1>4, <1>8 DEF Status
  <2> QED BY <1>7, <2>1, <2>2 DEF Transfer!Stop
<1>9. CASE m.size # -1
  <2>1. PercentFits(total)
    <3>1. PercentFits(0)
      BY DownloadAssumption DEF PercentFits
    <3> QED BY <3>1 DEF Inv, ServerInv
  <2>2. m.percent = 100 <=> end = total
    BY <1>5, <1>9, <2>1 DEF FirstFacts
  <2>3. end \in Len(file)..total
    BY <1>2, <1>5 DEF FirstFacts
  <2>4. file' = Transfer!Beginning(end)
    <3>1. end \in Nat /\ end <= total /\ end - 0 = end
      BY <1>5, <2>3 DEF FirstFacts
    <3>2. file' = Slice(0, end)
      <4>1. Inv'
        BY ClientKeeps
      <4>2. file' = Slice(0, Len(file'))
        BY <4>1 DEF Inv, ClientInv
      <4>3. Len(file') = end
        BY <1>2, <1>4, <1>6
      <4> QED BY <4>2, <4>3
    <3> QED BY <3>1, <3>2 DEF Slice, Transfer!Beginning
  <2>5. Status' = IF end = total THEN "complete" ELSE "receiving"
    BY <1>4, <1>9, <2>2 DEF Status
  <2> QED BY <1>7, <2>3, <2>4, <2>5 DEF Transfer!Receive
<1> QED BY <1>8, <1>9

LEMMA StepTransfers ==
  ASSUME Inv, \A n \in TotalSizes : PercentFits(n), [Next]_vars
  PROVE  [Transfer!Next]_(Transfer!vars)
<1>1. CASE Request
  <2>1. Status # "receiving" /\ Status' = "receiving" /\ total' \in TotalSizes /\ file' = <<>>
    BY <1>1 DEF Request, DownloadBegin, Status
  <2> QED BY <2>1 DEF Transfer!Next, Transfer!Start
<1>2. CASE Drop
  <2>1. cphase # "error" /\ cphase \in {"receiving", "error"}
    BY <1>2 DEF Drop, Inv, ClientInv, AlwaysInflates
  <2>2. Status = "receiving" /\ Status' = "idle" /\ file' = <<>> /\ total' = total
    BY <1>2, <2>1 DEF Drop, Status
  <2> QED BY <2>2 DEF Transfer!Next, Transfer!Forget
<1>3. CASE Server
  <2>1. UNCHANGED clientVars /\ total' = total
    BY <1>3 DEF Server, ServerNext, DataCall, DataFails, PlainData, RawData, R1q2Data, Q2proData,
               DeflateBeginFails, DeflateFails, DownloadFinish, DownloadAbort, DownloadEnd
  <2>2. UNCHANGED <<cphase, file, total>>
    BY <2>1 DEF clientVars
  <2> QED BY <2>2 DEF Transfer!vars, Status
<1>4. CASE Client
  BY <1>4, ClientTransfers DEF Transfer!Next
<1>5. CASE UNCHANGED vars
  <2>1. UNCHANGED <<cphase, file, total>>
    BY <1>5 DEF vars, serverVars, clientVars
  <2> QED BY <2>1 DEF Transfer!vars, Status
<1> QED BY <1>1, <1>2, <1>3, <1>4, <1>5 DEF Next

-----------------------------------------------------------------------------
(* The deflate stream, which nothing else depends on                       *)

\* Unless it is called again after an error, only the stream of Q2PRO is there between
\* two calls that succeed.
DeflateInv ==
  /\ valid \in BOOLEAN
  /\ DeflateTracked
  /\ ~(MayRetry /\ Protocol = "r1q2") => DeflateIoValid
  /\ zio \in (IF Protocol = "q2pro" THEN {"none", "open", "broken"} ELSE {"none", "broken"})
  /\ compress = "deflate" => Protocol # "vanilla"
  /\ ~MayRetry /\ Protocol # "q2pro" /\ phase = "active" => ~valid

LEMMA InitDeflate == Init => DeflateInv
BY DEF Init, ServerInit, DeflateInv, DeflateTracked, DeflateIoValid

LEMMA BeginDeflate ==
  ASSUME DeflateInv, DownloadBegin PROVE DeflateInv'
<1>1. phase = "idle" /\ valid' = FALSE /\ zio' = zio
  BY DEF DownloadBegin
<1>2. ~valid /\ zio = "none"
  BY <1>1, Zenon DEF DeflateInv, DeflateTracked
<1>3. compress' = "deflate" => Protocol # "vanilla"
  BY DEF DownloadBegin, CompressionOf
<1> QED BY <1>1, <1>2, <1>3, Zenon DEF DeflateInv, DeflateTracked, DeflateIoValid

\* Plain and raw messages leave the stream alone.
LEMMA UndeflatedDeflate ==
  ASSUME DeflateInv, phase # "idle", UNCHANGED <<valid, zio, compress>>, phase' # "idle",
         phase' = "active" => MayRetry \/ phase = "active"
  PROVE  DeflateInv'
BY Zenon DEF DeflateInv, DeflateTracked, DeflateIoValid

LEMMA ServerDeflate ==
  ASSUME DeflateInv, ServerNext PROVE DeflateInv'
<1> USE DownloadAssumption DEF MayCall
<1>1. CASE PlainData
  <2>1. /\ phase \in {"active", "failed"} /\ (MayRetry \/ phase = "active")
        /\ UNCHANGED <<valid, zio, compress>>
    BY <1>1 DEF PlainData
  <2>2. phase' \in {"overrun", "complete", "active"} BY <1>1 DEF PlainData, CompleteStruct
  <2> QED BY <2>1, <2>2, UndeflatedDeflate
<1>2. CASE RawData
  <2>1. /\ phase \in {"active", "failed"} /\ (MayRetry \/ phase = "active")
        /\ UNCHANGED <<valid, zio, compress>>
    BY <1>2 DEF RawData
  <2>2. phase' \in {"overrun", "complete", "active"} BY <1>2 DEF RawData, CompleteStruct
  <2> QED BY <2>1, <2>2, UndeflatedDeflate
<1>3. CASE R1q2Data
  <2>1. ~valid' /\ zio' = "none" /\ valid' \in BOOLEAN /\ compress' = compress
    BY <1>3 DEF R1q2Data
  <2> QED BY <2>1, Zenon DEF DeflateInv, DeflateTracked, DeflateIoValid
<1>4. CASE Q2proData
  <2>1. Protocol = "q2pro" /\ compress' = compress BY <1>4 DEF Q2proData
  <2>2. phase' \in {"overrun", "complete", "active"} BY <1>4 DEF Q2proData, CompleteStruct
  <2>3. PICK finished \in BOOLEAN :
          /\ valid' = ~finished
          /\ zio' = IF finished THEN "none" ELSE "open"
    BY <1>4, Zenon DEF Q2proData
  <2> QED BY <2>1, <2>2, <2>3 DEF DeflateInv, DeflateTracked, DeflateIoValid
<1>5. CASE DeflateBeginFails
  <2>1. /\ MayRetry \/ phase = "active"
        /\ phase' = "failed" /\ zio' = "none" /\ valid' = valid /\ compress' = compress
        /\ Protocol = "q2pro" => ~valid
        /\ compress = "deflate"
    BY <1>5 DEF DeflateBeginFails
  <2>2. ~valid \/ (MayRetry /\ Protocol = "r1q2")
    BY <2>1 DEF DeflateInv
  <2> QED BY <2>1, <2>2, Zenon DEF DeflateInv, DeflateTracked, DeflateIoValid
<1>6. CASE DeflateFails
  BY <1>6 DEF DeflateFails, DeflateInv, DeflateTracked, DeflateIoValid
<1>7. CASE DownloadFinish
  <2>1. phase = "active" /\ phase' = "complete" /\ UNCHANGED <<valid, zio, compress>>
    BY <1>7 DEF DownloadFinish
  <2> QED BY <2>1, UndeflatedDeflate
<1>8. CASE DownloadAbort
  <2>1. phase # "idle" /\ phase' = "stopped" /\ UNCHANGED <<valid, zio, compress>>
    BY <1>8 DEF DownloadAbort
  <2> QED BY <2>1, UndeflatedDeflate
<1>9. CASE DownloadEnd
  <2>1. valid' = FALSE /\ (zio' = IF valid THEN "none" ELSE zio) /\ compress' = compress
    BY <1>9 DEF DownloadEnd, EndDeflate
  <2> QED BY <2>1, Zenon DEF DeflateInv, DeflateTracked, DeflateIoValid
<1> QED
  BY <1>1, <1>2, <1>3, <1>4, <1>5, <1>6, <1>7, <1>8, <1>9, Zenon
  DEF ServerNext, DataCall, DataFails

LEMMA StepDeflate ==
  ASSUME DeflateInv, [Next]_vars PROVE DeflateInv'
<1>1. CASE Request BY <1>1, BeginDeflate DEF Request
<1>2. CASE Drop
  <2>1. valid' = FALSE /\ (zio' = IF valid THEN "none" ELSE zio) /\ compress' = compress
    BY <1>2 DEF Drop, EndDeflate
  <2> QED BY <2>1, Zenon DEF DeflateInv, DeflateTracked, DeflateIoValid
<1>3. CASE Server BY <1>3, ServerDeflate DEF Server
<1>4. CASE Client
  BY <1>4, Zenon DEF Client, DeflateInv, DeflateTracked, DeflateIoValid
<1>5. CASE UNCHANGED vars
  BY <1>5, Zenon DEF vars, serverVars, DeflateInv, DeflateTracked, DeflateIoValid
<1> QED BY <1>1, <1>2, <1>3, <1>4, <1>5 DEF Next

\* A stream is lost to deflate_io_valid in DeflateBeginFails only.
LEMMA ServerEndsOnce ==
  ASSUME DeflateInv, ServerNext, DeflateIoValid, ~DeflateIoValid'
  PROVE  Protocol = "r1q2" /\ zio = "broken" /\ phase' = "failed"
<1>1. valid' /\ zio' = "none" BY DEF DeflateIoValid
<1>2. ~UNCHANGED <<valid, zio>> BY Zenon DEF DeflateIoValid
<1>3. CASE PlainData BY <1>2, <1>3 DEF PlainData
<1>4. CASE RawData BY <1>2, <1>4 DEF RawData
<1>5. CASE R1q2Data BY <1>1, <1>5 DEF R1q2Data
<1>6. CASE Q2proData
  <2>1. PICK finished \in BOOLEAN :
          /\ valid' = ~finished
          /\ zio' = IF finished THEN "none" ELSE "open"
    BY <1>6, Zenon DEF Q2proData
  <2> QED BY <1>1, <2>1
<1>7. CASE DeflateBeginFails
  <2>1. /\ phase' = "failed" /\ valid' = valid
        /\ Protocol = "q2pro" => ~valid
        /\ compress = "deflate"
    BY <1>7 DEF DeflateBeginFails
  <2>2. zio # "none" BY <1>1, <2>1 DEF DeflateIoValid
  <2>3. Protocol = "r1q2"
    BY <1>1, <2>1, DownloadAssumption DEF DownloadAssumption, DeflateInv
  <2> QED BY <2>1, <2>2, <2>3 DEF DeflateInv
<1>8. CASE DeflateFails BY <1>1, <1>8 DEF DeflateFails
<1>9. CASE DownloadFinish BY <1>2, <1>9 DEF DownloadFinish
<1>10. CASE DownloadAbort BY <1>2, <1>10 DEF DownloadAbort
<1>11. CASE DownloadEnd BY <1>1, <1>11 DEF DownloadEnd, EndDeflate
<1> QED
  BY <1>3, <1>4, <1>5, <1>6, <1>7, <1>8, <1>9, <1>10, <1>11, Zenon
  DEF ServerNext, DataCall, DataFails

LEMMA StepEndsOnce ==
  ASSUME DeflateInv, [Next]_vars, DeflateIoValid, ~DeflateIoValid'
  PROVE  Protocol = "r1q2" /\ zio = "broken" /\ phase' = "failed"
<1>1. valid' /\ ~UNCHANGED <<valid, zio>> BY Zenon DEF DeflateIoValid
<1>2. CASE Request BY <1>1, <1>2 DEF Request, DownloadBegin
<1>3. CASE Drop BY <1>1, <1>3 DEF Drop, EndDeflate
<1>4. CASE Server BY <1>4, ServerEndsOnce DEF Server
<1>5. CASE Client BY <1>1, <1>5 DEF Client
<1>6. CASE UNCHANGED vars BY <1>1, <1>6 DEF vars, serverVars
<1> QED BY <1>2, <1>3, <1>4, <1>5, <1>6 DEF Next

-----------------------------------------------------------------------------
(* Theorems                                                                *)

(***************************************************************************)
(* Whatever fails and whatever the application calls next, no deflate      *)
(* stream is leaked and none outlives its download.                        *)
(***************************************************************************)
THEOREM StreamTracked == Spec => []DeflateTracked
<1>1. Init => DeflateInv BY InitDeflate
<1>2. DeflateInv /\ [Next]_vars => DeflateInv' BY StepDeflate
<1>3. DeflateInv => DeflateTracked BY DEF DeflateInv
<1> QED BY <1>1, <1>2, <1>3, PTL DEF Spec

(***************************************************************************)
(* No stream is ended twice, for every protocol and whatever fails, except *)
(* where R1Q2's q2proto_server_download_data is called again after an      *)
(* error and q2protoio_deflate_begin fails in that call.                   *)
(***************************************************************************)
THEOREM EndsOnce == Spec => EndedOnce
<1>1. Init => DeflateInv BY InitDeflate
<1>2. DeflateInv /\ [Next]_vars => DeflateInv' BY StepDeflate
<1>3. DeflateInv /\ [Next]_vars =>
        [DeflateIoValid /\ ~DeflateIoValid' =>
           Protocol = "r1q2" /\ zio = "broken" /\ phase' = "failed"]_vars
  BY StepEndsOnce
<1> QED BY <1>1, <1>2, <1>3, PTL DEF Spec, EndedOnce

\* The inductive invariant, from which the others follow.
LEMMA InvAlways ==
  ASSUME ~MayRetry PROVE Spec /\ []ShortMessages => []Inv
<1>1. Init => Inv BY InitInv
<1>2. Inv /\ ShortMessages' /\ [Next]_vars => Inv' BY StepKeeps
<1> QED BY <1>1, <1>2, PTL DEF Spec

(***************************************************************************)
(* The messages on their way continue what the client has stored and       *)
(* inflated up to where the server stands, in every state, if the          *)
(* application does not go on after an error and no message holds more of  *)
(* the file than a reader can count.                                       *)
(***************************************************************************)
THEOREM DownloadInvariantHolds ==
  ASSUME ~MayRetry PROVE Spec /\ []ShortMessages => []IInv
<1>1. Inv => IInv BY TypeFollows, PositionsExact DEF IInv, Inv
<1> QED BY <1>1, InvAlways, PTL

(***************************************************************************)
(* Everything the library and the two applications keep, and every message *)
(* on its way, has its type.                                               *)
(***************************************************************************)
THEOREM DownloadTypes ==
  ASSUME ~MayRetry PROVE Spec /\ []ShortMessages => []TypeOK
<1>1. Inv => TypeOK BY TypeFollows
<1> QED BY <1>1, InvAlways, PTL

(***************************************************************************)
(* The stored file is the beginning of the one asked for: the data and     *)
(* remaining of q2proto_server_download_data and the inflate streams of    *)
(* the readers never disagree about what comes next.                       *)
(***************************************************************************)
THEOREM FileStaysIntact ==
  ASSUME ~MayRetry PROVE Spec /\ []ShortMessages => []FileIntact
<1>1. Inv => FileIntact BY FileFollows
<1> QED BY <1>1, InvAlways, PTL

(***************************************************************************)
(* A client that was told 100 percent has all of the file, whatever the    *)
(* overflow of the percentage does.                                        *)
(***************************************************************************)
THEOREM CompletionIsWhole ==
  ASSUME ~MayRetry PROVE Spec /\ []ShortMessages => []CompleteIsWhole
<1>1. Inv => CompleteIsWhole BY DEF Inv, ClientInv, CompleteIsWhole
<1> QED BY <1>1, InvAlways, PTL

(***************************************************************************)
(* A client that has read everything of a download the server has          *)
(* completed was told so, if no file is so large that its percentage       *)
(* overflows a size_t.                                                     *)
(***************************************************************************)
THEOREM CompletionIsReported ==
  ASSUME ~MayRetry, \A n \in TotalSizes : PercentFits(n) PROVE Spec /\ []ShortMessages => []CompleteIsReported
<1>1. Inv => CompleteIsReported BY ReportFollows
<1> QED BY <1>1, InvAlways, PTL

(***************************************************************************)
(* A client that stops reading leaves no message of the download behind.   *)
(***************************************************************************)
THEOREM BothAreOver ==
  ASSUME ~MayRetry PROVE Spec /\ []ShortMessages => []OverForBoth
<1>1. Inv => OverForBoth BY DEF Inv, ClientInv, OverForBoth
<1> QED BY <1>1, InvAlways, PTL

(***************************************************************************)
(* No zdownload message finds the inflate stream of the context in another *)
(* place than where the server was when it deflated the message.           *)
(***************************************************************************)
THEOREM EverythingInflates ==
  ASSUME ~MayRetry PROVE Spec /\ []ShortMessages => []AlwaysInflates
<1>1. Inv => AlwaysInflates BY DEF Inv, ClientInv
<1> QED BY <1>1, InvAlways, PTL

(***************************************************************************)
(* What is stored and what is on its way make up the amount transferred.   *)
(***************************************************************************)
THEOREM ProgressStaysExact ==
  ASSUME ~MayRetry PROVE Spec /\ []ShortMessages => []ProgressIsExact
<1>1. Inv => ProgressIsExact BY PositionsExact
<1> QED BY <1>1, InvAlways, PTL

(***************************************************************************)
(* Every message fits its packet, if the packets of a Q2PRO download,      *)
(* whose stream keeps the size limit of its first packet, leave room for   *)
(* that much.                                                              *)
(***************************************************************************)
THEOREM MessagesFit ==
  ASSUME ~MayRetry, SteadyRooms PROVE Spec /\ []ShortMessages => []FitsPacket
<1>1. Init => FitsPacket BY DEF Init, ServerInit, FitsPacket
<1>2. Inv /\ FitsPacket /\ [Next]_vars => FitsPacket' BY FitKeeps
<1> QED BY <1>1, <1>2, InvAlways, PTL DEF Spec

(***************************************************************************)
(* A download is a transfer of the file from its beginning, complete when  *)
(* the whole of it has arrived and not before.                             *)
(***************************************************************************)
THEOREM DownloadTransfers ==
  ASSUME ~MayRetry, \A n \in TotalSizes : PercentFits(n)
  PROVE  Spec /\ []ShortMessages => TransferSpec
<1>1. Init => Transfer!Init
  BY DEF Init, ServerInit, ClientInit, Transfer!Init, Status
<1>2. Inv /\ [Next]_vars => [Transfer!Next]_(Transfer!vars)
  BY StepTransfers
<1> QED BY <1>1, <1>2, InvAlways, PTL DEF Spec, TransferSpec, Transfer!Spec
=============================================================================
