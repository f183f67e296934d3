----------------------------- MODULE PipeProofs -----------------------------
(***************************************************************************)
(* Proofs about the pipe (fs/pipe/pipe_state.c, pipe_inode.c), for any set *)
(* of processes, any size of the ring and any modulus of the positions: no *)
(* sleeper misses the call that should wake it, and the ring is a byte     *)
(* stream as long as its positions address it without a seam.              *)
(***************************************************************************)
EXTENDS Pipe, TLAPS

USE SMTT(30)

-----------------------------------------------------------------------------
(* Division with remainder, as the positions of type off_t and the indices *)
(* of the ring use it.                                                     *)

(* Quotient and remainder of a division by a positive number.              *)
LEMMA DivMod ==
  ASSUME NEW x \in Int, NEW n \in Nat \ {0}
  PROVE  /\ x % n \in 0..n - 1
         /\ x \div n \in Int
         /\ x = n * (x \div n) + (x % n)
BY Z3

(* The only multiple of n strictly between -n and n is 0.                  *)
LEMMA ProductGap ==
  ASSUME NEW n \in Nat \ {0}, NEW d \in Int, n * d < n, -n < n * d
  PROVE  d = 0
<1>1. CASE d >= 1
  BY <1>1, Z3
<1>2. CASE d <= -1
  BY <1>2, Z3
<1> QED BY <1>1, <1>2

(* A remainder in the range of the remainders is the remainder.            *)
LEMMA ModUnique ==
  ASSUME NEW n \in Nat \ {0}, NEW x \in Int, NEW q \in Int, NEW r \in 0..n-1,
         x = n * q + r
  PROVE  x % n = r
<1>1. /\ x % n \in 0..n - 1
      /\ x \div n \in Int
      /\ x = n * (x \div n) + (x % n)
  BY DivMod
<1> DEFINE p == x \div n
           s == x % n
<1>2. p \in Int /\ s \in 0..n-1 /\ x = n * p + s
  BY <1>1
<1> HIDE DEF p, s
<1>3. n * (p - q) = r - s
  BY <1>2, Z3
<1>4. p - q = 0
  <2>1. n * (p - q) < n /\ -n < n * (p - q) /\ p - q \in Int
    BY <1>2, <1>3
  <2> QED BY <2>1, ProductGap
<1> QED
  BY <1>2, <1>3, <1>4 DEF s

(* A position that has not wrapped is its own remainder.                   *)
LEMMA ModSmall ==
  ASSUME NEW n \in Nat \ {0}, NEW x \in 0..n - 1
  PROVE  x % n = x
<1>1. x \in Int /\ x = n * 0 + x
  OBVIOUS
<1> QED BY <1>1, ModUnique

(* A remainder may be taken before or after an addition.                   *)
LEMMA ModShift ==
  ASSUME NEW n \in Nat \ {0}, NEW x \in Int, NEW y \in Int
  PROVE  /\ ((x % n) + y) % n = (x + y) % n
         /\ (y - (x % n)) % n = (y - x) % n
<1> DEFINE q == x \div n
           r == x % n
<1>1. q \in Int /\ r \in 0..n - 1 /\ x = n * q + r
  BY DivMod
<1> HIDE DEF q, r
<1>2. (r + y) % n = (x + y) % n
  <2> DEFINE p == (r + y) \div n
             s == (r + y) % n
  <2>0. r + y \in Int
    BY <1>1
  <2>1. p \in Int /\ s \in 0..n - 1 /\ r + y = n * p + s
    BY <2>0, DivMod, Zenon
  <2> HIDE DEF p, s
  <2>2. x + y = n * (q + p) + s /\ x + y \in Int /\ q + p \in Int
    BY <1>1, <2>1, Z3
  <2>3. (x + y) % n = s
    BY <2>1, <2>2, ModUnique, Zenon
  <2> QED BY <2>3 DEF s
<1>3. (y - r) % n = (y - x) % n
  <2> DEFINE p == (y - r) \div n
             s == (y - r) % n
  <2>0. y - r \in Int
    BY <1>1
  <2>1. p \in Int /\ s \in 0..n - 1 /\ y - r = n * p + s
    BY <2>0, DivMod, Zenon
  <2> HIDE DEF p, s
  <2>2. y - x = n * (p - q) + s /\ y - x \in Int /\ p - q \in Int
    BY <1>1, <2>1, Z3
  <2>3. (y - x) % n = s
    BY <2>1, <2>2, ModUnique, Zenon
  <2> QED BY <2>3 DEF s
<1> QED BY <1>2, <1>3 DEF r

(* Two numbers less than n apart have different remainders.                *)
LEMMA ModApart ==
  ASSUME NEW n \in Nat \ {0}, NEW x \in Int, NEW y \in Int,
         x # y, x < y + n, y < x + n
  PROVE  x % n # y % n
<1> SUFFICES ASSUME x % n = y % n PROVE FALSE
  OBVIOUS
<1>1. PICK q \in Int, p \in Int, r \in 0..n - 1 : x = n * q + r /\ y = n * p + r
  <2>1. /\ x \div n \in Int /\ x = n * (x \div n) + (x % n)
        /\ y \div n \in Int /\ y = n * (y \div n) + (x % n)
        /\ x % n \in 0..n - 1
    BY DivMod
  <2> QED BY <2>1, Zenon
<1>2. n * (q - p) = x - y /\ q - p \in Int
  BY <1>1, Z3
<1>3. q - p = 0
  BY <1>2, ProductGap
<1> QED BY <1>1, <1>2, <1>3

(* If n divides w, the remainder by n survives the remainder by w.         *)
LEMMA ModNested ==
  ASSUME NEW n \in Nat \ {0}, NEW w \in Nat \ {0}, w % n = 0, NEW x \in Int
  PROVE  (x % w) % n = x % n
<1>1. PICK m \in Int : w = n * m
  <2>1. w = n * (w \div n) + (w % n) /\ w \div n \in Int
    BY DivMod
  <2> QED BY <2>1
<1>2. PICK q \in Int : x % w \in Int /\ x = w * q + (x % w)
  <2>1. x \div w \in Int /\ x % w \in Int /\ x = w * (x \div w) + (x % w)
    BY DivMod
  <2> QED BY <2>1, Zenon
<1> DEFINE r == x % w
           p == r \div n
           s == r % n
<1>3. p \in Int /\ s \in 0..n - 1 /\ r = n * p + s
  BY <1>2, DivMod, Zenon
<1>4. x = w * q + r
  BY <1>2
<1> HIDE DEF r, p, s
<1>5. m * q \in Int /\ w * q = n * (m * q)
  BY <1>1, Z3
<1>6. PICK k \in Int : k = m * q
  BY <1>5
<1>7. x = n * (k + p) + s /\ k + p \in Int
  BY <1>3, <1>4, <1>5, <1>6, Z3
<1>8. x % n = s
  BY <1>3, <1>7, ModUnique
<1> QED BY <1>8 DEF r, s

-----------------------------------------------------------------------------
\* The byte of the ring that the position x addresses.
Slot(x) == (x % Wrap) % PIPE_BUFSIZE

(* p_wpos - p_rpos in the arithmetic of off_t: it is 0 exactly when the    *)
(* positions are the same, and the plain difference while neither wrapped. *)
LEMMA SizeOf ==
  ASSUME NEW r \in 0..Wrap - 1, NEW w \in 0..Wrap - 1
  PROVE  /\ (w - r) % Wrap \in 0..Wrap - 1
         /\ (w - r) % Wrap = 0 <=> r = w
         /\ r <= w => (w - r) % Wrap = w - r
<1>0. Wrap \in Nat \ {0} /\ w - r \in Int /\ 0 \in 0..Wrap - 1
  BY PipeAssumption
<1>1. (w - r) % Wrap \in 0..Wrap - 1
  BY <1>0, DivMod
<1>2. 0 % Wrap = 0
  BY <1>0, ModSmall
<1>3. ASSUME r # w PROVE (w - r) % Wrap # 0 % Wrap
  <2>1. 0 \in Int /\ w - r # 0 /\ w - r < 0 + Wrap /\ 0 < (w - r) + Wrap
    BY <1>0, <1>3
  <2> QED BY <1>0, <2>1, ModApart
<1>4. ASSUME r <= w PROVE (w - r) % Wrap = w - r
  <2>1. w - r \in 0..Wrap - 1
    BY <1>0, <1>4
  <2> QED BY <1>0, <2>1, ModSmall
<1> QED BY <1>1, <1>2, <1>3, <1>4

(* Reading m bytes makes the distance of the positions smaller by m.       *)
LEMMA SizeRead ==
  ASSUME NEW r \in 0..Wrap - 1, NEW w \in 0..Wrap - 1,
         NEW m \in 0..((w - r) % Wrap)
  PROVE  /\ (r + m) % Wrap \in 0..Wrap - 1
         /\ (w - ((r + m) % Wrap)) % Wrap = ((w - r) % Wrap) - m
<1>0. Wrap \in Nat \ {0} /\ w - r \in Int
  BY PipeAssumption
<1> DEFINE z == (w - r) % Wrap
<1>1. z \in 0..Wrap - 1
  BY <1>0, DivMod
<1>2. m \in 0..z
  OBVIOUS
<1>3. ((z + (-m)) % Wrap) = ((w - r) + (-m)) % Wrap
  <2>1. -m \in Int
    BY <1>1, <1>2
  <2> QED BY <1>0, <2>1, ModShift, Zenon
<1> HIDE DEF z
<1>4. r + m \in Int /\ m \in Int
  BY <1>1, <1>2
<1>5. (w - ((r + m) % Wrap)) % Wrap = (w - (r + m)) % Wrap
  <2>1. PICK x \in Int : x = r + m
    BY <1>4
  <2>2. w \in Int
    BY <1>0
  <2>3. (w - (x % Wrap)) % Wrap = (w - x) % Wrap
    BY <1>0, <2>2, ModShift, Zenon
  <2> QED BY <2>1, <2>3
<1>6. w - (r + m) = (w - r) + (-m) /\ z + (-m) = z - m /\ z - m \in 0..Wrap - 1
  BY <1>0, <1>1, <1>2, <1>4
<1>7. (z - m) % Wrap = z - m
  BY <1>0, <1>6, ModSmall
<1>8. (r + m) % Wrap \in 0..Wrap - 1
  BY <1>0, <1>4, DivMod
<1> QED BY <1>3, <1>5, <1>6, <1>7, <1>8 DEF z

(* Writing k bytes makes it larger by k.                                   *)
LEMMA SizeWrite ==
  ASSUME NEW r \in 0..Wrap - 1, NEW w \in 0..Wrap - 1,
         NEW k \in Nat, ((w - r) % Wrap) + k < Wrap
  PROVE  /\ (w + k) % Wrap \in 0..Wrap - 1
         /\ (((w + k) % Wrap) - r) % Wrap = ((w - r) % Wrap) + k
<1>0. Wrap \in Nat \ {0} /\ w - r \in Int /\ w + k \in Int /\ -r \in Int
  BY PipeAssumption
<1> DEFINE z == (w - r) % Wrap
           v == (w + k) % Wrap
<1>1. z \in 0..Wrap - 1 /\ v \in 0..Wrap - 1
  BY <1>0, DivMod
<1>2. z + k < Wrap
  OBVIOUS
<1>3. (z + k) % Wrap = ((w - r) + k) % Wrap
  <2>1. PICK x \in Int : x = w - r
    BY <1>0
  <2>2. k \in Int
    OBVIOUS
  <2>3. ((x % Wrap) + k) % Wrap = (x + k) % Wrap
    BY <1>0, <2>2, ModShift, Zenon
  <2> QED BY <2>1, <2>3
<1>4. (v + (-r)) % Wrap = ((w + k) + (-r)) % Wrap
  BY <1>0, ModShift, Zenon
<1> HIDE DEF z, v
<1>5. (w - r) + k = (w + k) + (-r) /\ v + (-r) = v - r /\ z + k \in 0..Wrap - 1
  BY <1>0, <1>1, <1>2
<1>6. (z + k) % Wrap = z + k
  BY <1>0, <1>5, ModSmall
<1> QED BY <1>1, <1>3, <1>4, <1>5, <1>6 DEF z, v

(* After a read of m bytes, the i-th byte of the ring is the one that was  *)
(* the (m + i)-th.                                                         *)
LEMMA SlotRead ==
  ASSUME NEW r \in Int, NEW m \in Int, NEW i \in Int
  PROVE  (((r + m) % Wrap) + i - 1) % Wrap = (r + (m + i) - 1) % Wrap
<1>0. Wrap \in Nat \ {0}
  BY PipeAssumption
<1> DEFINE v == (r + m) % Wrap
<1>1. (v + (i - 1)) % Wrap = ((r + m) + (i - 1)) % Wrap
  <2>1. PICK x \in Int, y \in Int : x = r + m /\ y = i - 1
    OBVIOUS
  <2>2. ((x % Wrap) + y) % Wrap = (x + y) % Wrap
    BY <1>0, ModShift, Zenon
  <2> QED BY <2>1, <2>2
<1>2. v \in Int
  BY <1>0, DivMod
<1> HIDE DEF v
<1>3. v + (i - 1) = v + i - 1 /\ (r + m) + (i - 1) = r + (m + i) - 1
  BY <1>2
<1> QED BY <1>1, <1>3 DEF v

(* The k-th byte that is written follows the bytes that are in the ring,   *)
(* counted from the read position.                                         *)
LEMMA SlotWrite ==
  ASSUME NEW r \in Int, NEW w \in Int, NEW k \in Int
  PROVE  (w + k - 1) % Wrap = (r + (((w - r) % Wrap) + k) - 1) % Wrap
<1>0. Wrap \in Nat \ {0}
  BY PipeAssumption
<1> DEFINE z == (w - r) % Wrap
<1>1. (z + (r + k - 1)) % Wrap = ((w - r) + (r + k - 1)) % Wrap
  <2>1. PICK x \in Int, y \in Int : x = w - r /\ y = r + k - 1
    OBVIOUS
  <2>2. ((x % Wrap) + y) % Wrap = (x + y) % Wrap
    BY <1>0, ModShift, Zenon
  <2> QED BY <2>1, <2>2
<1>2. z \in Int
  BY <1>0, DivMod
<1> HIDE DEF z
<1>3. z + (r + k - 1) = r + (z + k) - 1 /\ (w - r) + (r + k - 1) = w + k - 1
  BY <1>2
<1> QED BY <1>1, <1>3 DEF z

(* Positions within one length of the ring address different bytes, if     *)
(* they do not wrap or the ring's size divides the modulus.                *)
LEMMA SlotsApart ==
  ASSUME NEW r \in 0..Wrap - 1, NEW i \in 0..PIPE_BUFSIZE - 1,
         NEW j \in 0..PIPE_BUFSIZE - 1, i # j,
         (r + i < Wrap /\ r + j < Wrap) \/ Wrap % PIPE_BUFSIZE = 0
  PROVE  Slot(r + i) # Slot(r + j)
<1>0. Wrap \in Nat \ {0} /\ PIPE_BUFSIZE \in Nat \ {0} /\ r + i \in Int /\ r + j \in Int
  BY PipeAssumption
<1>1. (r + i) % PIPE_BUFSIZE # (r + j) % PIPE_BUFSIZE
  <2>1. r + i # r + j /\ r + i < (r + j) + PIPE_BUFSIZE /\ r + j < (r + i) + PIPE_BUFSIZE
    BY <1>0
  <2> QED BY <1>0, <2>1, ModApart, Zenon
<1>2. CASE r + i < Wrap /\ r + j < Wrap
  <2>1. r + i \in 0..Wrap - 1 /\ r + j \in 0..Wrap - 1
    BY <1>0, <1>2
  <2>2. (r + i) % Wrap = r + i /\ (r + j) % Wrap = r + j
    BY <1>0, <2>1, ModSmall
  <2> QED BY <1>1, <2>2 DEF Slot
<1>3. CASE Wrap % PIPE_BUFSIZE = 0
  BY <1>0, <1>1, <1>3, ModNested, Zenon DEF Slot
<1> QED BY <1>2, <1>3

-----------------------------------------------------------------------------
(* The positions address the ring without a seam: either fewer bytes than  *)
(* the modulus are ever written (the case of the code: 2^32 bytes, and a   *)
(* ring that is no power of two), or the size of the ring divides it.      *)
RingFits == MaxPos < Wrap \/ Wrap % PIPE_BUFSIZE = 0

\* The types; what the bytes of the ring are is a matter of RingFits.
Typed ==
  /\ RingFits => buf \in [0..PIPE_BUFSIZE - 1 -> Byte]
  /\ op \in [Proc -> {"none", "read", "write"}]
  /\ left \in [Proc -> 0..MaxLen]
  /\ asleep \subseteq Proc

Positions ==
  /\ p_rpos \in 0..Wrap - 1 /\ p_wpos \in 0..Wrap - 1
  /\ Size <= PIPE_BUFSIZE

\* While no position can wrap, the reader is behind the writer.
Straight == MaxPos < Wrap => p_rpos <= p_wpos /\ p_wpos <= MaxPos

\* A process sleeps in a read or in a write.
InCall == \A p \in asleep : op[p] # "none"

\* The inductive invariant.
IInv == Typed /\ Positions /\ Straight /\ InCall /\ SleepersMustSleep

(* A new pipe: nobody sleeps and the ring is empty.                        *)
LEMMA Initially == Init => IInv
<1> SUFFICES ASSUME Init PROVE IInv
  OBVIOUS
<1>1. /\ p_rpos = 0 /\ p_wpos = 0 /\ asleep = {}
      /\ buf \in {[i \in 0..PIPE_BUFSIZE - 1 |-> b] : b \in Byte}
      /\ op = [p \in Proc |-> "none"] /\ left = [p \in Proc |-> 0]
  BY DEF Init, Boot
<1>2. Typed
  BY <1>1, PipeAssumption DEF Typed
<1>3. 0 \in 0..Wrap - 1 /\ (0 - 0) % Wrap = 0
  <2>1. 0 \in 0..Wrap - 1
    BY PipeAssumption
  <2> QED BY <2>1, SizeOf
<1>4. Positions /\ Straight
  BY <1>1, <1>3, PipeAssumption DEF Positions, Straight, Size
<1> QED
  BY <1>1, <1>2, <1>4 DEF IInv, InCall, SleepersMustSleep

(* What the positions say of the number of bytes in the ring.              *)
LEMMA SizeFacts ==
  ASSUME Positions
  PROVE  /\ Size \in 0..PIPE_BUFSIZE /\ Room \in 0..PIPE_BUFSIZE
         /\ Size = 0 <=> is_empty
         /\ p_rpos <= p_wpos => Size = p_wpos - p_rpos
  BY SizeOf, PipeAssumption DEF Positions, Size, Room, is_empty

(* A round of pipe_state_read.  A round that takes bytes leaves nobody     *)
(* asleep: no reader slept, for the ring was not empty, and it wakes every *)
(* writer.                                                                 *)
LEMMA Reads ==
  ASSUME IInv, NEW p \in Proc, NEW n \in 0..MaxLen, p \notin asleep, ReadRound(p, n)
  PROVE  IInv'
<1> USE DEF IInv
<1>0. UNCHANGED <<p_wpos, buf, isclosed>>
  BY DEF ReadRound
<1>1. CASE is_empty /\ isclosed /\ Return(p) /\ UNCHANGED <<p_rpos, asleep>>
  <2>1. asleep = {}
    BY <1>1 DEF SleepersMustSleep
  <2> QED
    BY <1>0, <1>1, <2>1, PipeAssumption
    DEF Typed, Positions, Size, Straight, InCall, SleepersMustSleep, Return
<1>2. CASE /\ is_empty /\ ~isclosed
           /\ pipe_state_wait(p, "read", n)
           /\ reader_queue' = reader_queue \cup {p}
           /\ UNCHANGED <<p_rpos, writer_queue>>
  <2>1. Typed' /\ InCall'
    BY <1>0, <1>2 DEF Typed, InCall, pipe_state_wait
  <2>2. Positions' /\ Straight' /\ is_empty' = is_empty /\ Room' = Room
    BY <1>0, <1>2 DEF Positions, Size, Straight, is_empty, Room
  <2>3. SleepersMustSleep'
    BY <1>0, <1>2, <2>2 DEF Typed, SleepersMustSleep, pipe_state_wait
  <2> QED BY <2>1, <2>2, <2>3
<1>3. CASE /\ ~is_empty
           /\ p_rpos' = (p_rpos + Smaller(n, Size)) % Wrap
           /\ pipe_state_wakeup(writer_queue)
           /\ Return(p)
  <2>1. Size \in 1..PIPE_BUFSIZE
    BY <1>3, SizeFacts, PipeAssumption
  <2>2. Smaller(n, Size) \in 0..Size
    BY <2>1, PipeAssumption DEF Smaller
  <2>3. p_rpos' \in 0..Wrap - 1 /\ Size' = Size - Smaller(n, Size)
    BY <1>0, <1>3, <2>2, SizeRead DEF Positions, Size
  <2>4. Positions'
    BY <1>0, <2>1, <2>2, <2>3, PipeAssumption DEF Positions
  <2>5. Straight'
    <3> SUFFICES ASSUME MaxPos < Wrap PROVE p_rpos' <= p_wpos /\ p_wpos <= MaxPos
      BY <1>0 DEF Straight
    <3>1. Size = p_wpos - p_rpos /\ p_wpos <= MaxPos
      BY SizeFacts DEF Straight
    <3>2. p_rpos + Smaller(n, Size) \in 0..Wrap - 1 /\ p_rpos + Smaller(n, Size) <= p_wpos
      BY <2>2, <3>1, PipeAssumption DEF Positions
    <3>3. p_rpos' = p_rpos + Smaller(n, Size)
      BY <1>3, <3>2, ModSmall, PipeAssumption
    <3> QED BY <3>1, <3>2, <3>3
  <2>6. asleep' = {}
    BY <1>3, <2>1, PipeAssumption DEF SleepersMustSleep, InCall, Typed, pipe_state_wakeup
  <2> QED
    BY <1>0, <1>3, <2>4, <2>5, <2>6, PipeAssumption
    DEF Typed, InCall, SleepersMustSleep, Return
<1> QED BY <1>1, <1>2, <1>3 DEF ReadRound

(* What appending does to a sequence.                                      *)
LEMMA AppendFacts ==
  ASSUME NEW S, NEW a \in Seq(S), NEW b \in Seq(S)
  PROVE  /\ a \o b \in Seq(S) /\ Len(a \o b) = Len(a) + Len(b)
         /\ SubSeq(a \o b, 1, Len(a)) = a
  OBVIOUS

(* Sequences with the same elements are equal.                             *)
LEMMA SameElements ==
  ASSUME NEW S, NEW a \in Seq(S), NEW b \in Seq(S), NEW n, Len(a) = n, Len(b) = n,
         \A i \in 1..n : a[i] = b[i]
  PROVE  a = b
  OBVIOUS

(* Every position addresses a byte of the ring.                            *)
LEMMA SlotRange ==
  ASSUME NEW i \in Int
  PROVE  Slot(i) \in 0..PIPE_BUFSIZE - 1
<1>0. Wrap \in Nat \ {0} /\ PIPE_BUFSIZE \in Nat \ {0}
  BY PipeAssumption
<1>1. i % Wrap \in Int
  BY <1>0, DivMod
<1> QED BY <1>0, <1>1, DivMod DEF Slot

(* The bytes in the ring, as a sequence.                                   *)
LEMMA ContentsOf ==
  ASSUME Positions, buf \in [0..PIPE_BUFSIZE - 1 -> Byte]
  PROVE  /\ Contents = [i \in 1..Size |-> buf[Slot(p_rpos + i - 1)]]
         /\ Contents \in Seq(Byte) /\ Len(Contents) = Size
<1>0. Size \in Nat
  BY SizeFacts
<1>1. Contents = [i \in 1..Size |-> buf[Slot(p_rpos + i - 1)]]
  BY DEF Contents, Slot
<1>2. ASSUME NEW i \in 1..Size PROVE buf[Slot(p_rpos + i - 1)] \in Byte
  <2>1. p_rpos + i - 1 \in Int
    BY <1>0 DEF Positions
  <2>2. Slot(p_rpos + i - 1) \in 0..PIPE_BUFSIZE - 1
    BY <2>1, SlotRange
  <2> QED BY <2>2
<1> QED BY <1>0, <1>1, <1>2

(* The copy loop of pipe_state_write appends its bytes to those in the     *)
(* ring: it overwrites none that is still to be read.                      *)
LEMMA StoreAppends ==
  ASSUME Positions, Straight, RingFits, buf \in [0..PIPE_BUFSIZE - 1 -> Byte],
         NEW s \in Seq(Byte), Len(s) <= Room, p_wpos + Len(s) <= MaxPos,
         Store(s), p_rpos' = p_rpos, Size' = Size + Len(s)
  PROVE  /\ buf' \in [0..PIPE_BUFSIZE - 1 -> Byte]
         /\ Contents' = Contents \o s
<1> DEFINE at(i) == {k \in 1..Len(s) : ((p_wpos + k - 1) % Wrap) % PIPE_BUFSIZE = i}
           Late(i) == CHOOSE k \in at(i) : \A j \in at(i) : j <= k
<1>1. buf' = [i \in DOMAIN buf |-> IF at(i) = {} THEN buf[i] ELSE s[Late(i)]]
  BY DEF Store
<1>2. /\ Size \in 0..PIPE_BUFSIZE /\ Size + Len(s) <= PIPE_BUFSIZE /\ Len(s) \in Nat
      /\ PIPE_BUFSIZE \in Nat \ {0} /\ Wrap \in Nat \ {0}
      /\ p_rpos \in 0..Wrap - 1 /\ p_wpos \in 0..Wrap - 1
  BY SizeFacts, PipeAssumption DEF Room, Positions
<1>3. ASSUME NEW i \in 1..Size + Len(s), NEW j \in 1..Size + Len(s), i # j
      PROVE  Slot(p_rpos + i - 1) # Slot(p_rpos + j - 1)
  <2>1. PICK a \in 0..PIPE_BUFSIZE - 1, b \in 0..PIPE_BUFSIZE - 1 :
          a = i - 1 /\ b = j - 1 /\ a # b
    BY <1>2, <1>3
  <2>2. CASE MaxPos < Wrap
    <3>1. p_rpos + a < Wrap /\ p_rpos + b < Wrap
      BY <1>2, <2>1, <2>2, SizeFacts, PipeAssumption DEF Straight
    <3>2. Slot(p_rpos + a) # Slot(p_rpos + b)
      BY <1>2, <2>1, <3>1, SlotsApart, Zenon
    <3> QED BY <1>2, <2>1, <3>2
  <2>3. CASE Wrap % PIPE_BUFSIZE = 0
    <3>2. Slot(p_rpos + a) # Slot(p_rpos + b)
      BY <1>2, <2>1, <2>3, SlotsApart
    <3> QED BY <1>2, <2>1, <3>2
  <2> QED BY <2>2, <2>3 DEF RingFits
<1>4. ASSUME NEW k \in 1..Len(s)
      PROVE  /\ Size + k \in 1..Size + Len(s)
             /\ Slot(p_wpos + k - 1) = Slot(p_rpos + (Size + k) - 1)
  <2>1. p_rpos \in Int /\ p_wpos \in Int /\ k \in Int
    BY <1>2
  <2>2. (p_wpos + k - 1) % Wrap = (p_rpos + (((p_wpos - p_rpos) % Wrap) + k) - 1) % Wrap
    BY <2>1, SlotWrite
  <2>3. Size + k \in 1..Size + Len(s)
    BY <1>2
  <2> QED BY <2>2, <2>3 DEF Slot, Size
<1>5. ASSUME NEW i \in Int
      PROVE  Slot(i) \in 0..PIPE_BUFSIZE - 1
  BY SlotRange, Zenon
<1>6. ASSUME NEW i, NEW k \in at(i)
      PROVE  at(i) # {} /\ Late(i) = k
  <2>1. k \in 1..Len(s) /\ Slot(p_wpos + k - 1) = i
    BY DEF Slot
  <2>2. ASSUME NEW j \in at(i) PROVE j = k
    <3>1. j \in 1..Len(s) /\ Slot(p_wpos + j - 1) = i
      BY DEF Slot
    <3>2. Slot(p_rpos + (Size + j) - 1) = Slot(p_rpos + (Size + k) - 1)
      BY <1>4, <2>1, <3>1
    <3>3. Size + j = Size + k
      BY <1>3, <1>4, <2>1, <3>1, <3>2
    <3> QED BY <1>2, <2>1, <3>1, <3>3
  <2>3. at(i) = {k}
    BY <2>2
  <2>4. k <= k
    BY <1>2, <2>1
  <2> HIDE DEF at
  <2> QED BY <2>3, <2>4
<1>7. buf' \in [0..PIPE_BUFSIZE - 1 -> Byte]
  <2> SUFFICES ASSUME NEW i \in 0..PIPE_BUFSIZE - 1, at(i) # {}
               PROVE  s[Late(i)] \in Byte
    BY <1>1, Zenon
  <2>1. PICK k \in at(i) : k \in 1..Len(s)
    OBVIOUS
  <2>2. s[k] \in Byte
    BY <2>1
  <2> HIDE DEF at, Late
  <2>3. Late(i) = k
    BY <1>6
  <2> QED BY <2>2, <2>3
<1>8. ASSUME NEW i \in 1..Size
      PROVE  buf'[Slot(p_rpos + i - 1)] = buf[Slot(p_rpos + i - 1)]
  <2>0. p_rpos + i - 1 \in Int
    BY <1>2
  <2>1. PICK x \in 0..PIPE_BUFSIZE - 1 : x = Slot(p_rpos + i - 1)
    BY <1>5, <2>0, Zenon
  <2>2. ASSUME NEW k \in at(x) PROVE FALSE
    <3>1. k \in 1..Len(s) /\ Slot(p_wpos + k - 1) = x
      BY DEF Slot
    <3>2. i # Size + k /\ i \in 1..Size + Len(s)
      BY <1>2, <3>1
    <3> QED BY <1>3, <1>4, <2>1, <3>1, <3>2
  <2>3. at(x) = {}
    BY <2>2
  <2> QED BY <1>1, <2>1, <2>3
<1>9. ASSUME NEW k \in 1..Len(s)
      PROVE  buf'[Slot(p_rpos + (Size + k) - 1)] = s[k]
  <2>0. p_wpos + k - 1 \in Int
    BY <1>2
  <2>1. PICK x \in 0..PIPE_BUFSIZE - 1 : x = Slot(p_wpos + k - 1)
    BY <1>5, <2>0, Zenon
  <2>2. k \in at(x)
    BY <2>1 DEF Slot
  <2> HIDE DEF at, Late
  <2>3. at(x) # {} /\ Late(x) = k
    BY <1>6, <2>2
  <2>4. buf'[x] = s[k]
    BY <1>1, <2>3
  <2> QED BY <1>4, <2>1, <2>4
<1> HIDE DEF at, Late
<1>10. Contents' = [i \in 1..Size + Len(s) |-> buf'[Slot(p_rpos + i - 1)]]
  BY DEF Contents, Slot
<1>11. Contents = [i \in 1..Size |-> buf[Slot(p_rpos + i - 1)]]
  BY ContentsOf
<1>12. Contents \in Seq(Byte) /\ Len(Contents) = Size
  BY ContentsOf
<1>13. Contents' \in Seq(Byte) /\ Len(Contents') = Size + Len(s)
  <2>1. ASSUME NEW i \in 1..Size + Len(s) PROVE buf'[Slot(p_rpos + i - 1)] \in Byte
    <3>1. p_rpos + i - 1 \in Int
      BY <1>2
    <3>2. Slot(p_rpos + i - 1) \in 0..PIPE_BUFSIZE - 1
      BY <1>5, <3>1
    <3> QED BY <1>7, <3>2
  <2> QED BY <1>2, <1>10, <2>1
<1>14. ASSUME NEW i \in 1..Size + Len(s)
       PROVE  Contents'[i] = (Contents \o s)[i]
  <2>1. CASE i \in 1..Size
    <3>1. Contents'[i] = Contents[i]
      BY <1>8, <1>10, <1>11, <2>1
    <3>2. (Contents \o s)[i] = Contents[i]
      BY <1>12, <2>1
    <3> QED BY <3>1, <3>2
  <2>2. CASE i \notin 1..Size
    <3>1. PICK k \in 1..Len(s) : i = Size + k
      <4>1. i - Size \in 1..Len(s) /\ i = Size + (i - Size)
        BY <1>2, <2>2
      <4> QED BY <4>1
    <3>2. Contents'[i] = s[k]
      BY <1>9, <1>10, <3>1
    <3>3. (Contents \o s)[i] = s[k]
      BY <1>2, <1>12, <2>2, <3>1
    <3> QED BY <3>2, <3>3
  <2> QED BY <2>1, <2>2, Zenon
<1>15. Contents \o s \in Seq(Byte) /\ Len(Contents \o s) = Size + Len(s)
  BY <1>12, AppendFacts
<1>16. Contents' = Contents \o s
  BY <1>13, <1>14, <1>15, SameElements
<1> QED BY <1>7, <1>16

(* What a round of pipe_state_write does to the ring: it never overfills   *)
(* it, and it is full if bytes are left over.                              *)
LEMMA Stores ==
  ASSUME IInv, NEW n \in 0..MaxLen, p_wpos + Stored(n) <= MaxPos,
         NEW s \in [1..Stored(n) -> Byte], Store(s), p_rpos' = p_rpos
  PROVE  /\ Positions' /\ Straight'
         /\ Stored(n) \in 0..n /\ Size' = Size + Stored(n)
         /\ Room = 0 => Stored(n) = 0
         /\ Stored(n) < n => Room' = 0
         /\ RingFits => /\ buf' \in [0..PIPE_BUFSIZE - 1 -> Byte]
                        /\ s \in Seq(Byte) /\ Contents' = Contents \o s
<1> USE DEF IInv
<1>1. Size \in 0..PIPE_BUFSIZE /\ Room = PIPE_BUFSIZE - Size
  BY SizeFacts DEF Room
<1>2. /\ Stored(n) \in 0..n /\ Stored(n) <= Room
      /\ Room = 0 => Stored(n) = 0
      /\ Stored(n) < n => Stored(n) = Room
  BY <1>1, PipeAssumption DEF Stored, Smaller
<1>3. s \in Seq(Byte) /\ Len(s) = Stored(n)
  BY <1>2
<1>4. p_wpos' = (p_wpos + Stored(n)) % Wrap
  BY <1>3 DEF Store
<1>5. p_wpos' \in 0..Wrap - 1 /\ Size' = Size + Stored(n)
  <2>1. Stored(n) \in Nat /\ Size + Stored(n) < Wrap
    BY <1>1, <1>2, PipeAssumption
  <2> QED BY <1>4, <2>1, SizeWrite DEF Positions, Size
<1>6. Positions'
  BY <1>1, <1>2, <1>5, PipeAssumption DEF Positions
<1>7. Straight'
  <2> SUFFICES ASSUME MaxPos < Wrap PROVE p_rpos <= p_wpos' /\ p_wpos' <= MaxPos
    BY DEF Straight
  <2>1. p_wpos + Stored(n) \in 0..Wrap - 1
    BY <1>2, PipeAssumption DEF Positions
  <2>2. p_wpos' = p_wpos + Stored(n)
    BY <1>4, <2>1, ModSmall, PipeAssumption
  <2> QED BY <1>2, <2>2, PipeAssumption DEF Straight, Positions
<1>8. Stored(n) < n => Room' = 0
  BY <1>1, <1>2, <1>5, PipeAssumption DEF Room
<1>9. ASSUME RingFits
      PROVE  buf' \in [0..PIPE_BUFSIZE - 1 -> Byte] /\ Contents' = Contents \o s
  BY <1>2, <1>3, <1>5, <1>9, StoreAppends DEF Typed
<1> QED BY <1>2, <1>3, <1>5, <1>6, <1>7, <1>8, <1>9

(* A round of pipe_state_write: it wakes the readers, and a writer that    *)
(* sleeps slept on a full ring, to which nothing is added.                 *)
LEMMA Writes ==
  ASSUME IInv, NEW p \in Proc, NEW n \in 0..MaxLen, p \notin asleep, WriteRound(p, n)
  PROVE  IInv'
<1> USE DEF IInv
<1>0. UNCHANGED <<p_rpos, isclosed>>
  BY DEF WriteRound
<1>1. CASE isclosed /\ Return(p) /\ UNCHANGED <<p_wpos, buf, asleep>>
  <2>1. asleep = {}
    BY <1>1 DEF SleepersMustSleep
  <2> QED
    BY <1>0, <1>1, <2>1, PipeAssumption
    DEF Typed, Positions, Size, Straight, InCall, SleepersMustSleep, Return
<1>2. CASE /\ ~isclosed
           /\ p_wpos + Stored(n) <= MaxPos
           /\ \E s \in [1..Stored(n) -> Byte] : Store(s)
           /\ \/ /\ Stored(n) = n
                 /\ pipe_state_wakeup(reader_queue)
                 /\ writer_queue' = writer_queue \ {p}
                 /\ Return(p)
              \/ /\ Stored(n) < n
                 /\ op' = [op EXCEPT ![p] = "write"]
                 /\ left' = [left EXCEPT ![p] = n - Stored(n)]
                 /\ asleep' = (asleep \ reader_queue) \cup {p}
                 /\ writer_queue' = writer_queue \cup {p}
  <2>1. PICK s \in [1..Stored(n) -> Byte] : Store(s)
    BY <1>2
  <2>2. /\ Positions' /\ Straight'
        /\ Stored(n) \in 0..n /\ Size' = Size + Stored(n)
        /\ Room = 0 => Stored(n) = 0
        /\ Stored(n) < n => Room' = 0
        /\ RingFits => buf' \in [0..PIPE_BUFSIZE - 1 -> Byte]
    BY <1>0, <1>2, <2>1, Stores
  <2>3. Size \in 0..PIPE_BUFSIZE /\ Room = PIPE_BUFSIZE - Size
    BY SizeFacts DEF Room
  <2>4. \A q \in asleep \ reader_queue :
          op[q] = "write" /\ Room = 0 /\ q \in writer_queue /\ q # p
    BY DEF Typed, InCall, SleepersMustSleep
  <2>5. Room = 0 => Room' = 0
    BY <2>2, <2>3 DEF Room
  <2>6. CASE /\ Stored(n) = n
             /\ pipe_state_wakeup(reader_queue)
             /\ writer_queue' = writer_queue \ {p}
             /\ Return(p)
    <3>1. Typed'
      BY <2>2, <2>6, PipeAssumption DEF Typed, Return, pipe_state_wakeup
    <3>2. InCall' /\ SleepersMustSleep'
      BY <1>0, <1>2, <2>4, <2>5, <2>6
      DEF Typed, InCall, SleepersMustSleep, Return, pipe_state_wakeup
    <3> QED BY <2>2, <3>1, <3>2
  <2>7. CASE /\ Stored(n) < n
             /\ op' = [op EXCEPT ![p] = "write"]
             /\ left' = [left EXCEPT ![p] = n - Stored(n)]
             /\ asleep' = (asleep \ reader_queue) \cup {p}
             /\ writer_queue' = writer_queue \cup {p}
    <3>1. Typed'
      BY <2>2, <2>7, PipeAssumption DEF Typed
    <3>2. InCall' /\ SleepersMustSleep'
      BY <1>0, <1>2, <2>2, <2>4, <2>5, <2>7 DEF Typed, InCall, SleepersMustSleep
    <3> QED BY <2>2, <3>1, <3>2
  <2> QED BY <1>2, <2>6, <2>7
<1> QED BY <1>1, <1>2 DEF WriteRound

(* Every step of the pipe keeps the invariant.                             *)
LEMMA Steps == IInv /\ [Next]_vars => IInv'
<1> SUFFICES ASSUME IInv, [Next]_vars PROVE IInv'
  OBVIOUS
<1>0. CASE UNCHANGED vars
  BY <1>0 DEF vars, IInv, Typed, Positions, Size, Straight, InCall, SleepersMustSleep,
              Room, is_empty
<1>1. ASSUME NEW p \in Proc, NEW n \in 1..MaxLen, pipe_state_read(p, n) PROVE IInv'
  BY <1>1, Reads, PipeAssumption DEF pipe_state_read, IInv, InCall
<1>2. ASSUME NEW p \in Proc, NEW n \in 1..MaxLen, pipe_state_write(p, n) PROVE IInv'
  BY <1>2, Writes, PipeAssumption DEF pipe_state_write, IInv, InCall
<1>3. ASSUME NEW p \in Proc, try_again(p) PROVE IInv'
  <2>1. left[p] \in 0..MaxLen /\ p \notin asleep
    BY <1>3 DEF IInv, Typed, try_again, Awake
  <2> QED BY <1>3, <2>1, Reads, Writes DEF try_again
<1>4. ASSUME NEW p \in Proc, give_up(p) PROVE IInv'
  <2>1. /\ p \notin asleep /\ Return(p)
        /\ reader_queue' = reader_queue \ {p} /\ writer_queue' = writer_queue \ {p}
        /\ UNCHANGED <<p_rpos, p_wpos, buf, isclosed, asleep>>
    BY <1>4 DEF give_up, Awake
  <2>2. Typed' /\ InCall'
    BY <2>1, PipeAssumption DEF IInv, Typed, InCall, Return
  <2>3. Positions' /\ Straight' /\ is_empty' = is_empty /\ Room' = Room
    BY <2>1 DEF IInv, Positions, Size, Straight, is_empty, Room
  <2>4. SleepersMustSleep'
    BY <2>1, <2>3 DEF IInv, Typed, SleepersMustSleep, Return
  <2> QED BY <2>2, <2>3, <2>4 DEF IInv
<1>5. ASSUME NEW p \in Proc, Interrupt(p) PROVE IInv'
  BY <1>5 DEF Interrupt, procVars, IInv, Typed, Positions, Size, Straight, InCall,
              SleepersMustSleep, Room, is_empty
<1>6. ASSUME NEW p \in Proc, NEW e \in {"r", "w"}, OpenEnd(p, e) PROVE IInv'
  BY <1>6 DEF OpenEnd, procVars, IInv, Typed, Positions, Size, Straight, InCall,
              SleepersMustSleep, Room, is_empty
<1>7. ASSUME NEW p \in Proc, NEW e \in {"r", "w"}, CloseEnd(p, e) PROVE IInv'
  <2>0. UNCHANGED <<p_rpos, p_wpos, buf, op, left>>
    BY <1>7 DEF CloseEnd, procVars
  <2>1. Positions' /\ Straight' /\ is_empty' = is_empty /\ Room' = Room
    BY <2>0 DEF IInv, Positions, Size, Straight, is_empty, Room
  <2>2. CASE files[e] = {p}
    <3>1. asleep' = asleep \ (reader_queue \cup writer_queue)
      BY <1>7, <2>2 DEF CloseEnd, pipe_state_wakeup, CloseWakes
    <3>2. asleep' = {}
      BY <3>1 DEF IInv, Typed, InCall, SleepersMustSleep
    <3> QED BY <2>0, <2>1, <3>2 DEF IInv, Typed, InCall, SleepersMustSleep
  <2>3. CASE UNCHANGED <<isclosed, asleep, reader_queue, writer_queue>>
    BY <2>0, <2>1, <2>3 DEF IInv, Typed, InCall, SleepersMustSleep
  <2> QED BY <1>7, <2>2, <2>3 DEF CloseEnd
<1> QED
  BY <1>0, <1>1, <1>2, <1>3, <1>4, <1>5, <1>6, <1>7 DEF Next, Resume

(* The inductive invariant holds throughout.                               *)
LEMMA Invariance == Spec => []IInv
  BY Initially, Steps, PTL DEF Spec

(* pipe_state_read and pipe_state_write lose no wakeup: a reader sleeps    *)
(* only while the pipe is empty and open, a writer only while it is full   *)
(* and open, and each is in the queue that will wake it.  The positions    *)
(* may wrap.                                                               *)
THEOREM PipeWakeupsKept == Spec => []SleepersMustSleep
<1>1. IInv => SleepersMustSleep
  BY DEF IInv
<1> QED BY <1>1, Invariance, PTL

(* The bytes in the ring change only with the positions and the buffer.    *)
LEMMA SameBytes ==
  ASSUME UNCHANGED <<p_rpos, p_wpos, buf>>
  PROVE  Contents' = Contents
  BY DEF Contents, Size

(* A round of pipe_state_read takes bytes from the front, or none.         *)
LEMMA ReadTakes ==
  ASSUME IInv, RingFits, NEW p \in Proc, NEW n \in 0..MaxLen, ReadRound(p, n)
  PROVE  [B!Next]_<<Contents, isclosed>>
<1> USE DEF IInv
<1>0. UNCHANGED <<p_wpos, buf, isclosed>>
  BY DEF ReadRound
<1>1. CASE UNCHANGED p_rpos
  BY <1>0, <1>1, SameBytes
<1>2. CASE ~is_empty /\ p_rpos' = (p_rpos + Smaller(n, Size)) % Wrap
  <2>1. Size \in 1..PIPE_BUFSIZE
    BY <1>2, SizeFacts, PipeAssumption
  <2>2. PICK m \in 0..Size : m = Smaller(n, Size)
    BY <2>1, PipeAssumption DEF Smaller
  <2>3. Size' = Size - m
    BY <1>0, <1>2, <2>2, SizeRead DEF Positions, Size
  <2>4. ASSUME NEW i \in 1..Size - m
        PROVE  ((p_rpos' + i - 1) % Wrap) % PIPE_BUFSIZE = Slot(p_rpos + (m + i) - 1)
    <3>1. p_rpos \in Int /\ m \in Int /\ i \in Int
      BY <2>1 DEF Positions
    <3> QED BY <1>2, <2>2, <3>1, SlotRead DEF Slot
  <2>5. Contents' = [i \in 1..Size - m |-> buf[Slot(p_rpos + (m + i) - 1)]]
    BY <1>0, <2>3, <2>4 DEF Contents
  <2>6. Contents = [i \in 1..Size |-> buf[Slot(p_rpos + i - 1)]]
    BY ContentsOf DEF Typed
  <2>7. Contents \in Seq(Byte) /\ Len(Contents) = Size
    BY ContentsOf DEF Typed
  <2>8. Contents' = SubSeq(Contents, m + 1, Len(Contents))
    <3>1. ASSUME NEW i \in 1..Size - m
          PROVE  /\ m + i \in 1..Size
                 /\ Contents[m + i] = buf[Slot(p_rpos + (m + i) - 1)]
      BY <2>1, <2>6
    <3>2. Contents' = [i \in 1..Size - m |-> Contents[m + i]]
      BY <2>5, <3>1
    <3>3. SubSeq(Contents, m + 1, Size) = [i \in 1..Size - m |-> Contents[m + i]]
      BY <2>1, <2>7
    <3> QED BY <2>7, <3>2, <3>3
  <2>9. CASE m = 0
    <3>1. SubSeq(Contents, 1, Len(Contents)) = Contents
      BY <2>7
    <3> QED BY <1>0, <2>8, <2>9, <3>1
  <2>10. CASE m \in 1..Size
    BY <1>0, <2>7, <2>8, <2>10, Zenon DEF B!Next, B!Get
  <2> QED BY <2>1, <2>9, <2>10
<1> QED BY <1>1, <1>2 DEF ReadRound

(* A round of pipe_state_write puts bytes at the end, or none.             *)
LEMMA WritePuts ==
  ASSUME IInv, RingFits, NEW p \in Proc, NEW n \in 0..MaxLen, WriteRound(p, n)
  PROVE  [B!Next]_<<Contents, isclosed>>
<1> USE DEF IInv
<1>0. UNCHANGED <<p_rpos, isclosed>>
  BY DEF WriteRound
<1>1. CASE UNCHANGED <<p_wpos, buf>>
  BY <1>0, <1>1, SameBytes
<1>2. CASE /\ ~isclosed
           /\ p_wpos + Stored(n) <= MaxPos
           /\ \E s \in [1..Stored(n) -> Byte] : Store(s)
  <2>1. PICK s \in [1..Stored(n) -> Byte] : Store(s)
    BY <1>2
  <2>2. s \in Seq(Byte) /\ Contents' = Contents \o s
    BY <1>0, <1>2, <2>1, Stores
  <2>3. /\ Positions' /\ buf' \in [0..PIPE_BUFSIZE - 1 -> Byte]
        /\ Stored(n) \in 0..n /\ Size' = Size + Stored(n)
    BY <1>0, <1>2, <2>1, Stores
  <2>4. Contents \in Seq(Byte) /\ Len(Contents) = Size /\ Size \in Nat
    BY ContentsOf, SizeFacts DEF Typed
  <2>5. Len(s) = Stored(n)
    BY <2>1, <2>2, <2>3
  <2>6. /\ Contents' \in Seq(Byte) /\ Len(Contents') = Size'
        /\ Len(Contents') \in Len(Contents)..PIPE_BUFSIZE
        /\ SubSeq(Contents', 1, Len(Contents)) = Contents
    <3>0. /\ Contents \o s \in Seq(Byte) /\ Len(Contents \o s) = Len(Contents) + Len(s)
          /\ SubSeq(Contents \o s, 1, Len(Contents)) = Contents
      BY <2>2, <2>4, AppendFacts, Zenon
    <3>1. Contents' \in Seq(Byte) /\ Len(Contents') = Size + Stored(n)
      BY <2>2, <2>4, <2>5, <3>0
    <3>2. Size' <= PIPE_BUFSIZE
      BY <2>3 DEF Positions
    <3> QED BY <2>2, <2>3, <2>4, <3>0, <3>1, <3>2, PipeAssumption
  <2> QED BY <1>0, <1>2, <2>6 DEF B!Next, B!Put
<1> QED BY <1>1, <1>2 DEF WriteRound

(* Every step of the pipe is a step of the byte stream or changes nothing  *)
(* that it sees.                                                           *)
LEMMA StreamStep == IInv /\ RingFits /\ [Next]_vars => [B!Next]_<<Contents, isclosed>>
<1> SUFFICES ASSUME IInv, RingFits, [Next]_vars PROVE [B!Next]_<<Contents, isclosed>>
  OBVIOUS
<1>0. CASE UNCHANGED vars
  BY <1>0, SameBytes DEF vars
<1>1. ASSUME NEW p \in Proc, NEW n \in 1..MaxLen, pipe_state_read(p, n)
      PROVE  [B!Next]_<<Contents, isclosed>>
  BY <1>1, ReadTakes, PipeAssumption DEF pipe_state_read
<1>2. ASSUME NEW p \in Proc, NEW n \in 1..MaxLen, pipe_state_write(p, n)
      PROVE  [B!Next]_<<Contents, isclosed>>
  BY <1>2, WritePuts, PipeAssumption DEF pipe_state_write
<1>3. ASSUME NEW p \in Proc, try_again(p)
      PROVE  [B!Next]_<<Contents, isclosed>>
  <2>1. left[p] \in 0..MaxLen
    BY DEF IInv, Typed
  <2> QED BY <1>3, <2>1, ReadTakes, WritePuts DEF try_again
<1>4. ASSUME NEW p \in Proc, give_up(p) \/ Interrupt(p) \/ \E e \in {"r", "w"} : OpenEnd(p, e)
      PROVE  [B!Next]_<<Contents, isclosed>>
  BY <1>4, SameBytes DEF give_up, Interrupt, OpenEnd
<1>5. ASSUME NEW p \in Proc, NEW e \in {"r", "w"}, CloseEnd(p, e)
      PROVE  [B!Next]_<<Contents, isclosed>>
  BY <1>5, SameBytes DEF CloseEnd, B!Next, B!Close
<1> QED
  BY <1>0, <1>1, <1>2, <1>3, <1>4, <1>5 DEF Next, Resume

(* The pipe implements the byte stream: pipe_state_read returns the bytes  *)
(* that pipe_state_write stored, each once and in order, never more than   *)
(* PIPE_BUFSIZE are under way, and nothing is stored after the close.      *)
THEOREM PipeIsStream ==
  ASSUME RingFits
  PROVE  Spec => Stream
<1>1. Init => B!Init
  <2> SUFFICES ASSUME Init PROVE Contents = <<>> /\ isclosed = FALSE
    BY DEF B!Init
  <2>1. Positions /\ p_rpos = p_wpos /\ isclosed = FALSE
    BY Initially, Zenon DEF IInv, Init, Boot
  <2>2. Size = 0
    BY <2>1, SizeFacts DEF is_empty
  <2> QED BY <2>1, <2>2 DEF Contents
<1>2. IInv /\ [Next]_vars => [B!Next]_<<Contents, isclosed>>
  BY StreamStep
<1> QED
  BY <1>1, <1>2, Invariance, PTL DEF Spec, Stream, B!Spec
=============================================================================
