--------------------------- MODULE SwitchIOProofs ---------------------------
(***************************************************************************)
(* Lemmas about the operators of SwitchIO: what the functions of the       *)
(* controller keep of a record's type, and when a stream of cells is a     *)
(* sequence of whole messages.                                             *)
(***************************************************************************)
EXTENDS SwitchIO, SequenceTheorems, WellFoundedInduction, TLAPS

Less == {p \in Nat \X Nat : p[1] < p[2]}

(* Induction, in a form that takes a set and no operator: a set of numbers *)
(* that is not empty has a least one ...                                   *)
LEMMA Least ==
    ASSUME NEW T, T \subseteq Nat, T # {}
    PROVE  \E x \in T : \A y \in T : x <= y
<1>1. OpToRel(<, Nat) = Less
  BY DEF OpToRel, Less
<1>2. IsWellFoundedOn(Less, Nat)
  BY <1>1, NatLessThanWellFounded
<1>3. PICK x \in T : \A y \in T : <<y, x>> \notin Less
  BY <1>2, WFMin
<1>4. ASSUME NEW y \in T PROVE x <= y
  <2>1. y \in Nat /\ x \in Nat /\ <<y, x>> \in Nat \X Nat /\ <<y, x>> \notin Less
    BY <1>3
  <2> QED
    BY <2>1 DEF Less
<1> QED
  BY <1>4

(* ... and a set that has 0 and the successor of all it has, has all.       *)
LEMMA Induction ==
    ASSUME NEW T, 0 \in T, \A n \in Nat : n \in T => n + 1 \in T
    PROVE  Nat \subseteq T
<1> DEFINE U == Nat \ T
<1> SUFFICES ASSUME U # {} PROVE FALSE
  OBVIOUS
<1>1. PICK x \in U : \A y \in U : x <= y
  BY Least
<1>2. x \in Nat /\ x \notin T /\ x # 0
  OBVIOUS
<1>3. x - 1 \in Nat /\ (x - 1) + 1 = x /\ ~(x <= x - 1)
  BY <1>2
<1>4. x - 1 \in T
  BY <1>1, <1>3
<1> QED
  BY <1>2, <1>3, <1>4

(* The same for sequences, which grow at their end.                        *)
LEMMA SeqInduction ==
    ASSUME NEW E, NEW Q, << >> \in Q,
           \A st \in Seq(E) : st \in Q => \A x \in E : Append(st, x) \in Q
    PROVE  Seq(E) \subseteq Q
<1> DEFINE T == {n \in Nat : \A st \in Seq(E) : Len(st) = n => st \in Q}
<1>1. 0 \in T
  BY EmptySeq
<1>2. ASSUME NEW n \in Nat, n \in T PROVE n + 1 \in T
  <2> SUFFICES ASSUME NEW st \in Seq(E), Len(st) = n + 1 PROVE st \in Q
    OBVIOUS
  <2>1. st # << >>
    BY EmptySeq
  <2>2. PICK s \in Seq(E), x \in E : st = Append(s, x)
    BY <2>1, SequenceEmptyOrAppend, Zenon
  <2>3. Len(st) = Len(s) + 1 /\ Len(s) \in Nat
    BY <2>2, AppendProperties, LenProperties
  <2>4. s \in Q
    BY <1>2, <2>3
  <2> QED
    BY <2>2, <2>4
<1>3. Nat \subseteq T
  <2> HIDE DEF T
  <2> QED
    BY <1>1, <1>2, Induction
<1> QED
  BY <1>3, LenProperties

-----------------------------------------------------------------------------
(* Pick.  PickStep is the body of the recursion.                           *)
PickStep(p, st, S, n) ==
    IF n = 0 THEN << >>
    ELSE IF st[n] \in S THEN Append(p[n - 1], st[n]) ELSE p[n - 1]

(* There is such a function ...                                            *)
LEMMA PickExists ==
    ASSUME NEW st, NEW S, NEW k \in Nat
    PROVE  \E p : p = [n \in 0..k |-> PickStep(p, st, S, n)]
<1> DEFINE Is(p, l) == p = [n \in 0..l |-> PickStep(p, st, S, n)]
           T == {l \in Nat : \E p : Is(p, l)}
<1>1. 0 \in T
  <2> DEFINE p == [n \in 0..0 |-> << >>]
  <2>1. p = [n \in 0..0 |-> PickStep(p, st, S, n)]
    BY DEF PickStep
  <2> QED
    BY <2>1
<1>2. ASSUME NEW l \in Nat, l \in T PROVE l + 1 \in T
  <2>1. PICK p : Is(p, l)
    BY <1>2
  <2> DEFINE q == [n \in 0..l + 1 |-> PickStep(p, st, S, n)]
  <2>2. ASSUME NEW n \in 0..l PROVE q[n] = p[n]
    <3>1. p[n] = PickStep(p, st, S, n)
      BY <2>1
    <3> QED
      BY <3>1
  <2>3. ASSUME NEW n \in 0..l + 1 PROVE PickStep(p, st, S, n) = PickStep(q, st, S, n)
    <3>1. n = 0 \/ n - 1 \in 0..l
      OBVIOUS
    <3> HIDE DEF q
    <3> QED
      BY <2>2, <3>1 DEF PickStep
  <2>4. Is(q, l + 1) /\ l + 1 \in Nat
    BY <2>3
  <2> HIDE DEF Is, q
  <2> QED
    BY <2>4
<1> HIDE DEF T
<1>3. Nat \subseteq T
  BY <1>1, <1>2, Induction
<1> QED
  BY <1>3 DEF T

(* ... so that Pick is the last value of one ...                           *)
LEMMA PickIs ==
    ASSUME NEW st, NEW S, Len(st) \in Nat
    PROVE  \E p : /\ p = [n \in 0..Len(st) |-> PickStep(p, st, S, n)]
                  /\ Pick(st, S) = p[Len(st)]
<1> DEFINE Is(p) == p = [n \in 0..Len(st) |-> PickStep(p, st, S, n)]
           q == CHOOSE p : Is(p)
<1>1. Is(q)
  <2>1. \E p : Is(p)
    BY PickExists
  <2> HIDE DEF Is
  <2> QED
    BY <2>1, Zenon
<1>2. Pick(st, S) = q[Len(st)]
  BY DEF Pick, PickStep
<1> QED
  BY <1>1, <1>2

(* ... and what it is depends on the elements passed only.                 *)
LEMMA PickSame ==
    ASSUME NEW S, NEW a, NEW b, NEW k \in Nat, NEW m \in Nat, NEW n \in Nat,
           k <= m, k <= n, \A i \in 1..k : a[i] = b[i],
           NEW p, p = [i \in 0..m |-> PickStep(p, a, S, i)],
           NEW q, q = [i \in 0..n |-> PickStep(q, b, S, i)]
    PROVE  p[k] = q[k]
<1> DEFINE T == {i \in Nat : i <= k => p[i] = q[i]}
<1>0. /\ \A i \in 0..m : p[i] = PickStep(p, a, S, i)
      /\ \A i \in 0..n : q[i] = PickStep(q, b, S, i)
  OBVIOUS
<1>1. 0 \in T
  BY <1>0 DEF PickStep
<1>2. ASSUME NEW i \in Nat, i \in T PROVE i + 1 \in T
  <2> SUFFICES ASSUME i + 1 <= k PROVE p[i + 1] = q[i + 1]
    OBVIOUS
  <2>1. p[i] = q[i] /\ a[i + 1] = b[i + 1] /\ i + 1 # 0 /\ (i + 1) - 1 = i
    BY <1>2
  <2>2. p[i + 1] = PickStep(p, a, S, i + 1) /\ q[i + 1] = PickStep(q, b, S, i + 1)
    BY <1>0
  <2> QED
    BY <2>1, <2>2 DEF PickStep
<1>3. Nat \subseteq T
  <2> HIDE DEF T
  <2> QED
    BY <1>1, <1>2, Induction
<1> QED
  BY <1>3

LEMMA PickEmpty == ASSUME NEW S PROVE Pick(<< >>, S) = << >>
<1>1. Len(<< >>) = 0
  OBVIOUS
<1>2. PICK p : /\ p = [n \in 0..Len(<< >>) |-> PickStep(p, << >>, S, n)]
               /\ Pick(<< >>, S) = p[Len(<< >>)]
  BY <1>1, PickIs
<1> QED
  BY <1>1, <1>2 DEF PickStep

LEMMA PickAppend ==
    ASSUME NEW E, NEW st \in Seq(E), NEW x \in E, NEW S
    PROVE  Pick(Append(st, x), S) =
             IF x \in S THEN Append(Pick(st, S), x) ELSE Pick(st, S)
<1> DEFINE l == Len(st)
           r == Append(st, x)
<1>1. l \in Nat /\ Len(r) = l + 1 /\ r[l + 1] = x /\ \A i \in 1..l : st[i] = r[i]
  BY AppendProperties, LenProperties
<1>2. PICK p : /\ p = [n \in 0..l |-> PickStep(p, st, S, n)]
               /\ Pick(st, S) = p[l]
  BY <1>1, PickIs
<1> HIDE DEF r
<1>7. Len(r) \in Nat
  BY <1>1
<1>3. PICK q : /\ q = [n \in 0..Len(r) |-> PickStep(q, r, S, n)]
               /\ Pick(r, S) = q[Len(r)]
  BY <1>7, PickIs, Zenon
<1> HIDE DEF l
<1>4. p[l] = q[l]
  BY <1>1, <1>2, <1>3, PickSame
<1>5. q[l + 1] = PickStep(q, r, S, l + 1) /\ l + 1 # 0 /\ (l + 1) - 1 = l
  <2>1. l + 1 \in 0..Len(r) /\ l + 1 # 0 /\ (l + 1) - 1 = l
    BY <1>1
  <2>2. \A n \in 0..Len(r) : q[n] = PickStep(q, r, S, n)
    BY <1>3, Zenon
  <2> QED
    BY <2>1, <2>2
<1>6. Pick(r, S) = IF x \in S THEN Append(Pick(st, S), x) ELSE Pick(st, S)
  BY <1>1, <1>2, <1>3, <1>4, <1>5 DEF PickStep
<1> QED
  BY <1>6 DEF r

LEMMA PickType ==
    ASSUME NEW E, NEW S
    PROVE  \A st \in Seq(E) : Pick(st, S) \in Seq(E \cap S)
<1> DEFINE Q == {st \in Seq(E) : Pick(st, S) \in Seq(E \cap S)}
<1>1. << >> \in Q
  BY PickEmpty, EmptySeq
<1>2. ASSUME NEW st \in Seq(E), st \in Q, NEW x \in E PROVE Append(st, x) \in Q
  <2>1. Append(st, x) \in Seq(E)
    BY AppendProperties
  <2>2. Pick(st, S) \in Seq(E \cap S)
    BY <1>2
  <2>3. x \in S => Append(Pick(st, S), x) \in Seq(E \cap S)
    BY <2>2, AppendProperties
  <2>4. Pick(Append(st, x), S) \in Seq(E \cap S)
    BY <2>2, <2>3, PickAppend, Zenon
  <2> QED
    BY <2>1, <2>4
<1>3. Seq(E) \subseteq Q
  <2> HIDE DEF Q
  <2> QED
    BY <1>1, <1>2, SeqInduction
<1> QED
  BY <1>3

LEMMA PickConcat ==
    ASSUME NEW E, NEW S, NEW a \in Seq(E)
    PROVE  \A b \in Seq(E) : Pick(a \o b, S) = Pick(a, S) \o Pick(b, S)
<1> DEFINE Q == {b \in Seq(E) : Pick(a \o b, S) = Pick(a, S) \o Pick(b, S)}
<1>1. << >> \in Q
  <2>1. Pick(a, S) \in Seq(E \cap S)
    BY PickType
  <2>2. a \o << >> = a /\ Pick(a, S) \o << >> = Pick(a, S)
    BY <2>1, ConcatEmptySeq
  <2> QED
    BY <2>2, PickEmpty, EmptySeq
<1>2. ASSUME NEW b \in Seq(E), b \in Q, NEW x \in E PROVE Append(b, x) \in Q
  <2> DEFINE p == Pick(a, S)
             q == Pick(b, S)
  <2>1. /\ p \in Seq(E) /\ q \in Seq(E) /\ a \o b \in Seq(E) /\ <<x>> \in Seq(E)
    <3>1. p \in Seq(E \cap S) /\ q \in Seq(E \cap S)
      BY PickType
    <3> HIDE DEF p, q
    <3> QED
      BY <3>1, SeqMonotonic
  <2>2. a \o Append(b, x) = Append(a \o b, x) /\ Append(b, x) \in Seq(E)
    BY <2>1, AppendIsConcat, AppendProperties, ConcatAssociative
  <2>3. p \o Append(q, x) = Append(p \o q, x)
    BY <2>1, AppendIsConcat, ConcatAssociative, ConcatProperties
  <2>4. Pick(Append(a \o b, x), S) = IF x \in S THEN Append(Pick(a \o b, S), x) ELSE Pick(a \o b, S)
    BY <2>1, PickAppend
  <2>5. Pick(Append(b, x), S) = IF x \in S THEN Append(q, x) ELSE q
    BY PickAppend
  <2>6. Pick(a \o b, S) = p \o q
    BY <1>2
  <2> HIDE DEF p, q
  <2>7. Pick(a \o Append(b, x), S) = p \o Pick(Append(b, x), S)
    BY <2>2, <2>3, <2>4, <2>5, <2>6, Zenon
  <2> QED
    BY <2>2, <2>7 DEF p
<1>3. Seq(E) \subseteq Q
  <2> HIDE DEF Q
  <2> QED
    BY <1>1, <1>2, SeqInduction
<1> QED
  BY <1>3

(* Nothing is picked where nothing is wanted.                              *)
LEMMA PickNone ==
    ASSUME NEW E, NEW S
    PROVE  \A st \in Seq(E) :
              (\A i \in 1..Len(st) : st[i] \notin S) => Pick(st, S) = << >>
<1> DEFINE Q == {st \in Seq(E) :
                   (\A i \in 1..Len(st) : st[i] \notin S) => Pick(st, S) = << >>}
<1>1. << >> \in Q
  BY PickEmpty, EmptySeq
<1>2. ASSUME NEW st \in Seq(E), st \in Q, NEW x \in E PROVE Append(st, x) \in Q
  <2> DEFINE r == Append(st, x)
  <2>1. /\ r \in Seq(E) /\ Len(r) = Len(st) + 1 /\ Len(st) \in Nat
        /\ \A i \in 1..Len(st) : r[i] = st[i] /\ r[Len(st) + 1] = x
    BY AppendProperties, LenProperties
  <2>2. r[Len(st) + 1] = x
    BY AppendProperties
  <2>3. Pick(r, S) = IF x \in S THEN Append(Pick(st, S), x) ELSE Pick(st, S)
    BY PickAppend
  <2>4. (\A i \in 1..Len(st) : st[i] \notin S) => Pick(st, S) = << >>
    BY <1>2
  <2> HIDE DEF r
  <2>5. ASSUME \A i \in 1..Len(r) : r[i] \notin S PROVE Pick(r, S) = << >>
    <3>1. x \notin S
      BY <2>1, <2>2, <2>5
    <3>2. \A i \in 1..Len(st) : st[i] \notin S
      BY <2>1, <2>5
    <3> QED
      BY <2>3, <2>4, <3>1, <3>2
  <2> QED
    BY <2>1, <2>5 DEF r
<1>3. Seq(E) \subseteq Q
  <2> HIDE DEF Q
  <2> QED
    BY <1>1, <1>2, SeqInduction
<1> QED
  BY <1>3

LEMMA JoinFacts ==
    ASSUME NEW E, NEW a \in Seq(E), NEW b \in Seq(E)
    PROVE  /\ Len(a) \in Nat /\ Len(b) \in Nat
           /\ a \o b \in Seq(E) /\ Len(a \o b) = Len(a) + Len(b)
           /\ \A k \in 1..Len(a) : (a \o b)[k] = a[k]
           /\ \A k \in 1..Len(b) : (a \o b)[Len(a) + k] = b[k]
OBVIOUS

-----------------------------------------------------------------------------
(* The record and its buffers.                                             *)

LEMMA uint16Type ==
    ASSUME NEW x \in Int
    PROVE  uint16(x) \in uint16_t
BY DEF uint16, uint16_t

LEMMA uint16Small ==
    ASSUME NEW x \in Nat, x < 65536
    PROVE  uint16(x) = x
BY DEF uint16

(* A function on 1..n is a sequence of length n.                           *)
LEMMA FunctionIsSeq ==
    ASSUME NEW S, NEW n \in Nat, NEW f \in [1..n -> S]
    PROVE  f \in Seq(S) /\ Len(f) = n
<1>1. f \in Seq(S)
  BY SeqDef
<1> QED
  BY <1>1, LenProperties

(* Every message the controller makes up is a message.                     *)
LEMMA MsgIsMessage ==
    ASSUME NEW t \in MsgType, NEW l \in Nat
    PROVE  Msg(t, l) \in Message
BY DEF Msg, Message, Info

LEMMA ZeroType == Zero \in Cell
<1>1. "HELLO" \in MsgType
  BY DEF MsgType
<1>2. Msg("HELLO", 0) \in Message
  BY <1>1, MsgIsMessage
<1> QED
  BY <1>2 DEF Zero, Cell, Piece

LEMMA CellsType ==
    ASSUME NEW m \in Message
    PROVE  /\ Cells(m) \in Seq(Cell)
           /\ Len(Cells(m)) = m.len
           /\ \A i \in 1..m.len : Cells(m)[i] = Piece(m, i)
<1>1. m.len \in Nat
  BY DEF Message
<1>2. Cells(m) \in [1..m.len -> Cell]
  BY <1>1 DEF Cells, Cell, Piece
<1>3. Cells(m) \in Seq(Cell) /\ Len(Cells(m)) = m.len
  BY <1>1, <1>2, FunctionIsSeq
<1> QED
  BY <1>3 DEF Cells

LEMMA CallocType ==
    ASSUME NEW n \in Nat
    PROVE  calloc(n) \in Seq(Cell) /\ Len(calloc(n)) = n
<1>1. calloc(n) \in [1..n -> Cell]
  BY ZeroType DEF calloc
<1> QED
  BY <1>1, FunctionIsSeq

LEMMA StoreType ==
    ASSUME NEW buf \in Seq(Cell), NEW off \in Nat, NEW data \in Seq(Cell)
    PROVE  /\ Store(buf, off, data) \in Seq(Cell)
           /\ Len(Store(buf, off, data)) = Len(buf)
           /\ \A i \in 1..Len(buf) :
                Store(buf, off, data)[i] =
                  IF i - off \in 1..Len(data) THEN data[i - off] ELSE buf[i]
<1>1. Len(buf) \in Nat
  OBVIOUS
<1>2. \A i \in 1..Len(buf) :
        (IF i - off \in 1..Len(data) THEN data[i - off] ELSE buf[i]) \in Cell
  BY ElementOfSeq
<1>3. Store(buf, off, data) \in [1..Len(buf) -> Cell]
  BY <1>2 DEF Store
<1>4. Store(buf, off, data) \in Seq(Cell) /\ Len(Store(buf, off, data)) = Len(buf)
  BY <1>1, <1>3, FunctionIsSeq
<1> QED
  BY <1>4 DEF Store

LEMMA SliceType ==
    ASSUME NEW buf \in Seq(Cell), NEW off \in Nat, NEW n \in Nat
    PROVE  /\ Slice(buf, off, n) \in Seq(Cell)
           /\ Len(Slice(buf, off, n)) = n
           /\ \A i \in 1..n :
                off + i <= Len(buf) => Slice(buf, off, n)[i] = buf[off + i]
<1>1. \A i \in 1..n : (IF off + i <= Len(buf) THEN buf[off + i] ELSE Zero) \in Cell
  BY ZeroType, ElementOfSeq
<1>2. Slice(buf, off, n) \in [1..n -> Cell]
  BY <1>1 DEF Slice
<1>3. Slice(buf, off, n) \in Seq(Cell) /\ Len(Slice(buf, off, n)) = n
  BY <1>2, FunctionIsSeq
<1> QED
  BY <1>3 DEF Slice

-----------------------------------------------------------------------------
(* The record.  Records with many fields are Zenon's business: one lemma   *)
(* per operator gives the type of its result and the fields it sets.       *)

LEMMA Constants ==
    /\ READ \in rw_status /\ WRITE \in rw_status /\ DISCONNECTED \in rw_status
    /\ READ # WRITE /\ READ # DISCONNECTED /\ WRITE # DISCONNECTED
BY DEF rw_status, READ, WRITE, DISCONNECTED

LEMMA SwitchFields ==
    ASSUME NEW s \in of_switch
    PROVE  /\ s.rw \in rw_status /\ s.of_status \in MsgType
           /\ s.reading_header \in BOOLEAN
           /\ s.bytes_read \in Nat /\ s.bytes_written \in Nat
           /\ s.bytes_expected \in Nat
           /\ s.bytes_read \in uint16_t /\ s.bytes_written \in uint16_t
           /\ s.bytes_expected \in uint16_t
           /\ s.read_buffer \in Seq(Cell) /\ s.write_buffer \in Seq(Cell)
<1>1. /\ s.rw \in rw_status /\ s.of_status \in MsgType
      /\ s.reading_header \in BOOLEAN
      /\ s.bytes_read \in uint16_t /\ s.bytes_written \in uint16_t
      /\ s.bytes_expected \in uint16_t
      /\ s.read_buffer \in Seq(Cell) /\ s.write_buffer \in Seq(Cell)
  BY Zenon DEF of_switch
<1>2. uint16_t \subseteq Nat
  BY DEF uint16_t
<1> QED
  BY <1>1, <1>2

LEMMA MessageFields ==
    ASSUME NEW m \in Message
    PROVE  m.len \in Nat /\ m.type \in MsgType /\ uint16(m.len) \in uint16_t
<1>1. m.len \in Nat /\ m.type \in MsgType
  BY DEF Message
<1>2. m.len \in Int
  BY <1>1
<1> QED
  BY <1>1, <1>2, uint16Type

LEMMA ComposeFields ==
    ASSUME NEW s \in of_switch, NEW m \in Message
    PROVE  LET t == Compose(s, m)
           IN  /\ t \in of_switch
               /\ t.rw = WRITE
               /\ t.bytes_expected = uint16(m.len)
               /\ t.bytes_written = s.bytes_written
               /\ t.read_buffer = s.read_buffer
               /\ t.write_buffer = Store(s.write_buffer, 0, Cells(m))
<1>1. Store(s.write_buffer, 0, Cells(m)) \in Seq(Cell)
  BY StoreType, CellsType, SwitchFields
<1>2. Compose(s, m) \in of_switch
  BY <1>1, MessageFields, Constants, Zenon DEF of_switch, Compose
<1>3. /\ Compose(s, m).rw = WRITE
      /\ Compose(s, m).bytes_expected = uint16(m.len)
      /\ Compose(s, m).bytes_written = s.bytes_written
  BY Zenon DEF of_switch, Compose
<1>4. /\ Compose(s, m).read_buffer = s.read_buffer
      /\ Compose(s, m).write_buffer = Store(s.write_buffer, 0, Cells(m))
  BY Zenon DEF of_switch, Compose
<1> QED
  BY <1>2, <1>3, <1>4

LEMMA ComposeMoreFields ==
    ASSUME NEW s \in of_switch, NEW m \in Message
    PROVE  LET t == ComposeMore(s, m)
           IN  /\ t \in of_switch
               /\ t.rw = WRITE
               /\ t.bytes_expected = uint16(s.bytes_expected + m.len)
               /\ t.bytes_written = s.bytes_written
               /\ t.read_buffer = s.read_buffer
               /\ t.write_buffer = Store(s.write_buffer, s.bytes_expected, Cells(m))
<1>1. Store(s.write_buffer, s.bytes_expected, Cells(m)) \in Seq(Cell)
  BY StoreType, CellsType, SwitchFields
<1>2. uint16(s.bytes_expected + m.len) \in uint16_t
  <2>1. s.bytes_expected + m.len \in Int
    BY SwitchFields, MessageFields
  <2> QED
    BY <2>1, uint16Type
<1>3. ComposeMore(s, m) \in of_switch
  BY <1>1, <1>2, MessageFields, Constants, Zenon DEF of_switch, ComposeMore
<1>4. /\ ComposeMore(s, m).rw = WRITE
      /\ ComposeMore(s, m).bytes_expected = uint16(s.bytes_expected + m.len)
      /\ ComposeMore(s, m).bytes_written = s.bytes_written
  BY Zenon DEF of_switch, ComposeMore
<1>5. /\ ComposeMore(s, m).read_buffer = s.read_buffer
      /\ ComposeMore(s, m).write_buffer = Store(s.write_buffer, s.bytes_expected, Cells(m))
  BY Zenon DEF of_switch, ComposeMore
<1> QED
  BY <1>3, <1>4, <1>5

LEMMA MakeEchoReplyFields ==
    ASSUME NEW s \in of_switch, NEW m \in Message
    PROVE  LET t == make_echo_reply(s, m)
               r == [m EXCEPT !.type = "ECHO_REPLY"]
           IN  /\ t \in of_switch
               /\ r \in Message /\ r.len = m.len
               /\ t.rw = WRITE
               /\ t.bytes_expected = uint16(m.len)
               /\ t.bytes_written = s.bytes_written
               /\ t.read_buffer = s.read_buffer
               /\ t.write_buffer = Store(s.write_buffer, 0, Cells(r))
<1> DEFINE t == make_echo_reply(s, m)
           r == [m EXCEPT !.type = "ECHO_REPLY"]
<1>1. "ECHO_REPLY" \in MsgType
  BY DEF MsgType
<1>2. r \in Message /\ r.len = m.len
  BY <1>1 DEF Message
<1>3. Store(s.write_buffer, 0, Cells(r)) \in Seq(Cell)
  BY <1>2, StoreType, CellsType, SwitchFields
<1>4. 0 \in uint16_t
  BY DEF uint16_t
<1>5. t \in of_switch
  BY <1>3, <1>4, MessageFields, Constants, Zenon DEF of_switch, make_echo_reply
<1>6. /\ t.rw = WRITE
      /\ t.bytes_expected = uint16(m.len)
      /\ t.bytes_written = s.bytes_written
  BY Zenon DEF of_switch, make_echo_reply
<1>7. /\ t.read_buffer = s.read_buffer
      /\ t.write_buffer = Store(s.write_buffer, 0, Cells(r))
  BY Zenon DEF of_switch, make_echo_reply
<1> QED
  BY <1>2, <1>5, <1>6, <1>7

LEMMA ReadFromFields ==
    ASSUME NEW s \in of_switch, NEW n \in Nat, NEW data \in Seq(Cell)
    PROVE  LET t == read_from(s, n, data)
           IN  /\ t \in of_switch
               /\ t.rw = s.rw /\ t.of_status = s.of_status
               /\ t.reading_header = s.reading_header
               /\ t.bytes_read = uint16(s.bytes_read + n)
               /\ t.bytes_expected = uint16(s.bytes_expected - n)
               /\ t.bytes_written = s.bytes_written
               /\ t.write_buffer = s.write_buffer
               /\ Len(s.read_buffer) # s.bytes_read =>
                    t.read_buffer = Store(s.read_buffer, s.bytes_read, data)
<1> DEFINE t == read_from(s, n, data)
           buf == IF Len(s.read_buffer) = s.bytes_read
                  THEN resize_buffer(s.read_buffer) ELSE s.read_buffer
           b2 == Store(buf, s.bytes_read, data)
           x == uint16(s.bytes_read + n)
           y == uint16(s.bytes_expected - n)
<1>1. s.read_buffer \in Seq(Cell) /\ Len(s.read_buffer) \in Nat
  BY SwitchFields, LenProperties
<1>2. resize_buffer(s.read_buffer) \in Seq(Cell)
  BY <1>1, CallocType, ConcatProperties DEF resize_buffer
<1>3. b2 \in Seq(Cell)
  BY <1>1, <1>2, SwitchFields, StoreType
<1>4. s.bytes_read + n \in Int /\ s.bytes_expected - n \in Int
  BY SwitchFields
<1>5. x \in uint16_t /\ y \in uint16_t
  BY <1>4, uint16Type
<1>6. t = [s EXCEPT !.read_buffer = b2, !.bytes_read = x, !.bytes_expected = y]
  BY Zenon DEF read_from
<1> HIDE DEF t, b2, x, y
<1>7. t \in of_switch
  BY <1>3, <1>5, <1>6, Zenon DEF of_switch
<1>8. /\ t.rw = s.rw /\ t.of_status = s.of_status
      /\ t.reading_header = s.reading_header
      /\ t.bytes_written = s.bytes_written /\ t.write_buffer = s.write_buffer
  BY <1>6, Zenon DEF of_switch
<1>9. t.bytes_read = x /\ t.bytes_expected = y /\ t.read_buffer = b2
  BY <1>6, Zenon DEF of_switch
<1> QED
  BY <1>7, <1>8, <1>9, Zenon DEF t, b2, x, y

LEMMA ParseHeaderFields ==
    ASSUME NEW s \in of_switch, NEW m \in Message
    PROVE  LET t == parse_header(s, m)
           IN  /\ t \in of_switch
               /\ t.rw = s.rw
               /\ ~t.reading_header
               /\ t.bytes_read = s.bytes_read
               /\ t.bytes_written = s.bytes_written
               /\ t.read_buffer = s.read_buffer /\ t.write_buffer = s.write_buffer
               /\ IF s.reading_header
                  THEN /\ t.of_status = m.type
                       /\ t.bytes_expected = uint16(m.len - HDR)
                  ELSE t = s
<1> DEFINE t == parse_header(s, m)
           u == [s EXCEPT !.of_status = m.type, !.reading_header = FALSE,
                          !.bytes_expected = uint16(m.len - HDR)]
<1>1. m.len - HDR \in Int
  BY MessageFields, SizesAssumption DEF SizesAssumption
<1>2. uint16(m.len - HDR) \in uint16_t
  BY <1>1, uint16Type
<1>3. u \in of_switch
  BY <1>2, MessageFields, Zenon DEF of_switch
<1>4. /\ u.rw = s.rw /\ ~u.reading_header
      /\ u.bytes_read = s.bytes_read /\ u.bytes_written = s.bytes_written
      /\ u.read_buffer = s.read_buffer /\ u.write_buffer = s.write_buffer
  BY Zenon DEF of_switch
<1>5. u.of_status = m.type /\ u.bytes_expected = uint16(m.len - HDR)
  BY Zenon DEF of_switch
<1>6. t = IF s.reading_header THEN u ELSE s
  BY Zenon DEF parse_header
<1> HIDE DEF t, u
<1> QED
  BY <1>3, <1>4, <1>5, <1>6, Zenon DEF t

LEMMA AwaitNextHeaderFields ==
    ASSUME NEW s \in of_switch
    PROVE  LET t == await_next_header(s)
           IN  /\ t \in of_switch
               /\ t.rw = s.rw
               /\ t.bytes_written = s.bytes_written
               /\ t.write_buffer = s.write_buffer
               /\ Len(t.read_buffer) = Len(s.read_buffer)
               /\ IF s.rw = WRITE THEN t = s
                  ELSE /\ t.bytes_expected = HDR /\ t.reading_header
                       /\ t.bytes_read = 0
<1> DEFINE t == await_next_header(s)
           b == memset(s.read_buffer)
           u == [s EXCEPT !.bytes_expected = HDR, !.reading_header = TRUE,
                          !.bytes_read = 0, !.read_buffer = b]
<1>1. s.read_buffer \in Seq(Cell) /\ Len(s.read_buffer) \in Nat
  BY SwitchFields, LenProperties
<1>2. b \in Seq(Cell) /\ Len(b) = Len(s.read_buffer)
  BY <1>1, CallocType DEF memset
<1>3. HDR \in uint16_t /\ 0 \in uint16_t
  <2>1. "HELLO" \in MsgType
    BY DEF MsgType
  <2>2. HDR \in Nat /\ HDR < 65536
    BY <2>1, SizesAssumption DEF SizesAssumption
  <2> QED
    BY <2>2 DEF uint16_t
<1> HIDE DEF b
<1>4. u \in of_switch
  BY <1>2, <1>3, Zenon DEF of_switch
<1>5. /\ u.rw = s.rw /\ u.bytes_written = s.bytes_written
      /\ u.write_buffer = s.write_buffer /\ u.read_buffer = b
  BY Zenon DEF of_switch
<1>6. u.bytes_expected = HDR /\ u.reading_header /\ u.bytes_read = 0
  BY Zenon DEF of_switch
<1>7. t = IF s.rw = WRITE THEN s ELSE u
  BY Zenon DEF await_next_header, b
<1> HIDE DEF t, u
<1> QED
  BY <1>2, <1>4, <1>5, <1>6, <1>7, Zenon DEF t

-----------------------------------------------------------------------------
(* Streams of whole messages.                                              *)

LEMMA PieceFields ==
    ASSUME NEW m, NEW i, NEW n, NEW j
    PROVE  /\ Piece(m, i).msg = m /\ Piece(m, i).pos = i
           /\ Piece(m, i) = Piece(n, j) => m = n /\ i = j
BY DEF Piece

LEMMA CellFields ==
    ASSUME NEW st \in Seq(Cell), NEW i \in 1..Len(st)
    PROVE  st[i].msg \in Message /\ st[i].msg.len \in Nat /\ st[i].pos \in Nat
<1>1. st[i] \in Cell
  BY ElementOfSeq
<1>2. st[i].msg \in Message /\ st[i].pos \in Nat
  BY <1>1 DEF Cell
<1> QED
  BY <1>2, MessageFields

LEMMA FramedEmpty == Framed(<< >>)
BY DEF Framed

(* A whole message is framed.                                              *)
LEMMA FramedCells ==
    ASSUME NEW m \in Message
    PROVE  Framed(Cells(m))
<1> DEFINE st == Cells(m)
           l == m.len
<1>1. l \in Nat /\ Len(st) = l /\ \A i \in 1..l : st[i] = Piece(m, i)
  BY MessageFields, CellsType
<1>2. \A i \in 1..l : st[i].msg = m /\ st[i].pos = i
  BY <1>1, PieceFields
<1> HIDE DEF st
<1>3. \A i \in 1..l : Whole(st, i, m, i)
  <2> SUFFICES ASSUME NEW i \in 1..l PROVE Whole(st, i, m, i)
    OBVIOUS
  <2>1. i - i = 0 /\ \A k \in 1..l : i - i + k = k
    BY <1>1
  <2> QED
    BY <1>1, <2>1 DEF Whole
<1> QED
  BY <1>1, <1>2, <1>3 DEF Framed, st

LEMMA ConcatFacts ==
    ASSUME NEW a \in Seq(Cell), NEW b \in Seq(Cell)
    PROVE  /\ Len(a) \in Nat /\ Len(b) \in Nat
           /\ a \o b \in Seq(Cell) /\ Len(a \o b) = Len(a) + Len(b)
           /\ \A k \in 1..Len(a) : (a \o b)[k] = a[k]
           /\ \A k \in 1..Len(b) : (a \o b)[Len(a) + k] = b[k]
OBVIOUS

(* A whole message stays whole when something is put behind it ...         *)
LEMMA WholeBefore ==
    ASSUME NEW a \in Seq(Cell), NEW b \in Seq(Cell), NEW m, m.len \in Nat,
           NEW p \in Nat, NEW i \in 1..Len(a), Whole(a, i, m, p)
    PROVE  Whole(a \o b, i, m, p)
<1> DEFINE l == m.len
<1>1. /\ Len(a) \in Nat /\ Len(b) \in Nat /\ Len(a \o b) = Len(a) + Len(b)
      /\ \A k \in 1..Len(a) : (a \o b)[k] = a[k]
  OBVIOUS
<1>2. l \in Nat /\ p \in 1..l /\ i - p \in Nat /\ i - p + l <= Len(a)
  BY DEF Whole
<1>3. \A k \in 1..l : a[i - p + k] = Piece(m, k)
  BY DEF Whole
<1> HIDE DEF l
<1>4. \A k \in 1..l : i - p + k \in 1..Len(a)
  BY <1>1, <1>2
<1>5. \A k \in 1..l : (a \o b)[i - p + k] = Piece(m, k)
  BY <1>1, <1>3, <1>4
<1>6. i - p + l <= Len(a \o b)
  BY <1>1, <1>2
<1> QED
  BY <1>2, <1>5, <1>6 DEF Whole, l

(* ... or in front of it ...                                               *)
LEMMA WholeBehind ==
    ASSUME NEW a \in Seq(Cell), NEW b \in Seq(Cell), NEW m, m.len \in Nat,
           NEW p \in Nat, NEW i \in 1..Len(b), Whole(b, i, m, p)
    PROVE  Whole(a \o b, Len(a) + i, m, p)
<1> DEFINE l == m.len
           n == Len(a)
<1>1. /\ n \in Nat /\ Len(b) \in Nat /\ Len(a \o b) = n + Len(b)
      /\ \A k \in 1..Len(b) : (a \o b)[n + k] = b[k]
  OBVIOUS
<1>2. l \in Nat /\ p \in 1..l /\ i - p \in Nat /\ i - p + l <= Len(b)
  BY DEF Whole
<1>3. \A k \in 1..l : b[i - p + k] = Piece(m, k)
  BY DEF Whole
<1> HIDE DEF l, n
<1>9. n \in Nat /\ i \in Nat /\ Len(b) \in Nat /\ Len(a \o b) = n + Len(b)
  BY <1>1
<1>4. \A k \in 1..l : i - p + k \in 1..Len(b)
  BY <1>2, <1>9
<1>7. \A k \in 1..l : (n + i) - p + k = n + (i - p + k)
  BY <1>2, <1>9
<1>5. \A k \in 1..l : (a \o b)[(n + i) - p + k] = Piece(m, k)
  BY <1>1, <1>3, <1>4, <1>7
<1>6. (n + i) - p \in Nat /\ (n + i) - p + l <= Len(a \o b)
  BY <1>2, <1>9
<1>10. p \in 1..m.len
  BY <1>2 DEF l
<1>11. (Len(a) + i) - p \in Nat
  BY <1>6 DEF n
<1>14. l = m.len /\ n = Len(a)
  BY DEF l, n
<1>12. (Len(a) + i) - p + m.len <= Len(a \o b)
  BY <1>6, <1>14, Zenon
<1>13. \A k \in 1..m.len : (a \o b)[(Len(a) + i) - p + k] = Piece(m, k)
  BY <1>5, <1>14, Zenon
<1> QED
  BY <1>10, <1>11, <1>12, <1>13, Zenon DEF Whole

(* ... and when what is in front of all of it is taken away.               *)
LEMMA WholeRest ==
    ASSUME NEW a \in Seq(Cell), NEW b \in Seq(Cell), NEW m, m.len \in Nat,
           NEW p \in Nat, NEW i \in 1..Len(b), Whole(a \o b, Len(a) + i, m, p),
           p <= i
    PROVE  Whole(b, i, m, p)
<1> DEFINE l == m.len
           n == Len(a)
<1>1. /\ n \in Nat /\ Len(b) \in Nat /\ Len(a \o b) = n + Len(b)
      /\ \A k \in 1..Len(b) : (a \o b)[n + k] = b[k]
  OBVIOUS
<1>2. l \in Nat /\ p \in 1..l /\ n + i - p + l <= Len(a \o b)
  BY DEF Whole
<1>3. \A k \in 1..l : (a \o b)[n + i - p + k] = Piece(m, k)
  BY SMTT(30) DEF Whole
<1> HIDE DEF l, n
<1>4. \A k \in 1..l : /\ i - p + k \in 1..Len(b)
                       /\ n + i - p + k = n + (i - p + k)
  BY <1>1, <1>2
<1>5. \A k \in 1..l : b[i - p + k] = Piece(m, k)
  BY <1>1, <1>3, <1>4
<1>6. i - p \in Nat /\ i - p + l <= Len(b)
  BY <1>1, <1>2
<1> QED
  BY <1>2, <1>5, <1>6 DEF Whole, l

(* Two framed streams one behind the other are framed.                     *)
LEMMA FramedConcat ==
    ASSUME NEW a \in Seq(Cell), NEW b \in Seq(Cell), Framed(a), Framed(b)
    PROVE  Framed(a \o b)
<1> SUFFICES ASSUME NEW i \in 1..Len(a \o b)
             PROVE  Whole(a \o b, i, (a \o b)[i].msg, (a \o b)[i].pos)
  BY DEF Framed
<1>1. CASE i <= Len(a)
  <2>1. i \in 1..Len(a) /\ (a \o b)[i] = a[i]
    BY <1>1
  <2>2. Whole(a, i, a[i].msg, a[i].pos)
    BY <2>1 DEF Framed
  <2> QED
    BY <2>1, <2>2, CellFields, WholeBefore
<1>2. CASE i > Len(a)
  <2> DEFINE j == i - Len(a)
  <2>1. j \in 1..Len(b) /\ (a \o b)[i] = b[j] /\ i = Len(a) + j
    BY <1>2
  <2> HIDE DEF j
  <2>2. Whole(b, j, b[j].msg, b[j].pos)
    BY <2>1 DEF Framed
  <2>3. Whole(a \o b, Len(a) + j, b[j].msg, b[j].pos)
    BY <2>1, <2>2, CellFields, WholeBehind
  <2> QED
    BY <2>1, <2>3
<1> QED
  BY <1>1, <1>2

(* A framed stream starts with a whole message.                            *)
LEMMA FramedFirst ==
    ASSUME NEW st \in Seq(Cell), Framed(st), Len(st) > 0
    PROVE  LET m == st[1].msg
           IN  /\ m \in Message /\ m.len \in Nat /\ st[1].pos = 1
               /\ 1 <= m.len /\ m.len <= Len(st)
               /\ \A k \in 1..m.len : st[k] = Piece(m, k)
<1> DEFINE m == st[1].msg
           p == st[1].pos
           l == m.len
<1>1. 1 \in 1..Len(st) /\ Len(st) \in Nat
  OBVIOUS
<1>2. m \in Message /\ l \in Nat /\ p \in Nat
  BY <1>1, CellFields
<1>3. Whole(st, 1, m, p)
  BY <1>1 DEF Framed
<1> HIDE DEF m, p
<1>4. p \in 1..l /\ 1 - p \in Nat /\ 1 - p + l <= Len(st)
  BY <1>3 DEF Whole
<1>5. \A k \in 1..l : st[1 - p + k] = Piece(m, k)
  BY <1>3 DEF Whole
<1> HIDE DEF l
<1>6. p = 1
  BY <1>2, <1>4
<1>7. \A k \in 1..l : 1 - p + k = k
  BY <1>2, <1>6
<1>8. \A k \in 1..l : st[k] = Piece(m, k)
  BY <1>5, <1>7
<1>9. 1 <= l /\ l <= Len(st)
  BY <1>1, <1>2, <1>4, <1>6
<1> QED
  BY <1>2, <1>6, <1>8, <1>9 DEF m, p, l

(* ... and is framed without it.                                           *)
LEMMA FramedRest ==
    ASSUME NEW a \in Seq(Cell), NEW b \in Seq(Cell), Framed(a \o b),
           Len(a) > 0, Len(a) = (a \o b)[1].msg.len
    PROVE  Framed(b)
<1> DEFINE st == a \o b
           m == st[1].msg
           n == Len(a)
<1>0. /\ n \in Nat /\ Len(b) \in Nat /\ Len(st) = n + Len(b)
      /\ st \in Seq(Cell)
      /\ \A i \in 1..Len(b) : st[n + i] = b[i]
  BY ConcatFacts, Zenon
<1>2. m.len = n /\ Framed(st) /\ n > 0
  BY Zenon
<1> HIDE DEF st, n
<1>1. /\ n \in Nat /\ Len(b) \in Nat /\ Len(st) = n + Len(b) /\ n > 0
      /\ st \in Seq(Cell) /\ Len(st) > 0
      /\ \A i \in 1..Len(b) : st[n + i] = b[i]
  BY <1>0, <1>2
<1>3. \A k \in 1..n : st[k] = Piece(m, k)
  BY <1>1, <1>2, FramedFirst
<1> HIDE DEF m
<1> SUFFICES ASSUME NEW i \in 1..Len(b)
             PROVE  Whole(b, i, b[i].msg, b[i].pos)
  BY DEF Framed
<1> DEFINE x == b[i].msg
           p == b[i].pos
           l == x.len
           s == (n + i) - p
<1>4. st[n + i] = b[i] /\ n + i \in 1..Len(st)
  BY <1>1
<1>5. l \in Nat /\ p \in Nat
  BY CellFields
<1>6. Whole(st, n + i, x, p)
  BY <1>2, <1>4 DEF Framed
<1> HIDE DEF x, p
<1>7. p \in 1..l /\ s \in Nat /\ s + l <= Len(st)
  BY <1>1, <1>5, <1>6 DEF Whole
<1>8. \A k \in 1..l : st[s + k] = Piece(x, k)
  BY <1>6, Zenon DEF Whole
<1>9. p <= i
  <2> SUFFICES ASSUME p > i PROVE FALSE
    BY <1>1, <1>5
  <2> HIDE DEF l
  <2>1. n - s \in 1..l /\ s + (n - s) = n /\ n - s # n + i - s
    BY <1>1, <1>5, <1>7
  <2> HIDE DEF s
  <2>2. st[n] = Piece(x, n - s)
    BY <1>8, <2>1
  <2>3. st[n] = Piece(m, n)
    BY <1>1, <1>3
  <2>4. x = m /\ n - s = n
    BY <2>2, <2>3, PieceFields
  <2>5. l = n
    BY <1>2, <2>4 DEF l
  <2> QED
    BY <1>1, <1>5, <1>7, <2>4, <2>5 DEF s
<1>10. l = x.len /\ st = a \o b /\ n = Len(a)
  BY DEF st, n
<1> QED
  BY <1>5, <1>6, <1>9, <1>10, WholeRest DEF x, p

-----------------------------------------------------------------------------
(* Composing messages.                                                     *)

LEMMA SizeFacts ==
    /\ HDR \in Nat /\ HDR >= 1 /\ BUF \in Nat /\ HDR <= BUF /\ BUF < 32768
    /\ \A t \in MsgType : Size[t] \in Nat /\ HDR <= Size[t] /\ Size[t] <= BUF
    /\ 2 * Size["FLOW_MOD"] <= BUF
<1>1. "HELLO" \in MsgType
  BY DEF MsgType
<1> QED
  BY <1>1, SizesAssumption DEF SizesAssumption

(* What is stored right behind a part of the buffer follows that part.     *)
LEMMA SliceStore ==
    ASSUME NEW buf \in Seq(Cell), NEW off \in Nat, NEW data \in Seq(Cell),
           off + Len(data) <= Len(buf)
    PROVE  Slice(Store(buf, off, data), 0, off + Len(data))
             = Slice(buf, 0, off) \o data
<1> DEFINE st == Store(buf, off, data)
           n == off + Len(data)
           a == Slice(st, 0, n)
           p == Slice(buf, 0, off)
           b == p \o data
<1>1. /\ Len(buf) \in Nat /\ Len(data) \in Nat /\ n \in Nat
      /\ n = off + Len(data) /\ n <= Len(buf) /\ off <= n /\ 0 \in Nat
  BY LenProperties
<1>2. /\ st \in Seq(Cell) /\ Len(st) = Len(buf)
      /\ \A i \in 1..Len(buf) :
           st[i] = IF i - off \in 1..Len(data) THEN data[i - off] ELSE buf[i]
  BY StoreType
<1> HIDE DEF st, n
<1>3. /\ a \in Seq(Cell) /\ Len(a) = n
      /\ \A i \in 1..n : 0 + i <= Len(st) => a[i] = st[0 + i]
  BY <1>1, <1>2, SliceType
<1>4. /\ p \in Seq(Cell) /\ Len(p) = off
      /\ \A i \in 1..off : 0 + i <= Len(buf) => p[i] = buf[0 + i]
  BY <1>1, SliceType
<1> HIDE DEF p
<1>5. /\ b \in Seq(Cell) /\ Len(b) = n
      /\ \A i \in 1..off : b[i] = p[i]
      /\ \A i \in 1..Len(data) : b[off + i] = data[i]
  BY <1>1, <1>4, ConcatFacts
<1> HIDE DEF a, b
<1>6. \A i \in 1..n : a[i] = b[i]
  <2> SUFFICES ASSUME NEW i \in 1..n PROVE a[i] = b[i]
    OBVIOUS
  <2>1. i \in 1..Len(buf) /\ a[i] = st[i]
    BY <1>1, <1>2, <1>3
  <2>2. CASE i <= off
    BY <1>1, <1>2, <1>4, <1>5, <2>1, <2>2
  <2>3. CASE i > off
    <3>1. i - off \in 1..Len(data) /\ off + (i - off) = i
      BY <1>1, <2>3
    <3> QED
      BY <1>2, <1>5, <2>1, <3>1
  <2> QED
    BY <1>1, <2>2, <2>3
<1> QED
  BY <1>3, <1>5, <1>6, SeqEqual DEF a, b, st, n, p

(* A record ready to be given a message, and one that has been given some. *)
Ready(s) == s \in of_switch /\ Allocated(s) /\ s.bytes_written = 0

Loaded(s) ==
    /\ s \in of_switch /\ Allocated(s)
    /\ s.rw = WRITE
    /\ s.bytes_written = 0 /\ 0 < s.bytes_expected /\ s.bytes_expected <= BUF
    /\ Framed(Slice(s.write_buffer, 0, s.bytes_expected))

LEMMA LoadedInv ==
    ASSUME NEW s, Loaded(s)
    PROVE  /\ s \in of_switch /\ SwitchInv(s) /\ s.rw = WRITE
           /\ Framed(Pending(s)) /\ Received(s) = << >>
<1>1. s.rw # READ
  BY Constants DEF Loaded
<1> QED
  BY <1>1, SwitchFields
     DEF Loaded, SwitchInv, Exact, Fits, Allocated, Pending, Received

(* Writing the record's fields that composing a message changes: data at   *)
(* the start of a buffer of BUF cells.                                     *)
LEMMA LoadOne ==
    ASSUME NEW s, Ready(s), NEW t \in of_switch, NEW m \in Message,
           1 <= m.len, m.len <= BUF,
           t.rw = WRITE, t.bytes_expected = uint16(m.len),
           t.bytes_written = s.bytes_written, t.read_buffer = s.read_buffer,
           t.write_buffer = Store(s.write_buffer, 0, Cells(m))
    PROVE  Loaded(t) /\ Pending(t) = Cells(m)
<1> DEFINE wb == s.write_buffer
           c == Cells(m)
<1>1. wb \in Seq(Cell) /\ Len(wb) = BUF /\ Len(s.read_buffer) = BUF
      /\ s.bytes_written = 0
  BY SwitchFields DEF Ready, Allocated
<1>2. m.len \in Nat /\ m.len < 65536
  BY MessageFields, SizeFacts
<1>3. t.bytes_expected = m.len
  BY <1>2, uint16Small
<1>4. c \in Seq(Cell) /\ Len(c) = m.len /\ Framed(c)
  BY CellsType, FramedCells
<1> HIDE DEF wb, c
<1>5. 0 + Len(c) = m.len /\ 0 + Len(c) <= Len(wb) /\ 0 \in Nat
  BY <1>1, <1>2, <1>4
<1>6. Slice(Store(wb, 0, c), 0, m.len) = Slice(wb, 0, 0) \o c
  BY <1>1, <1>4, <1>5, SliceStore
<1>7. Slice(wb, 0, 0) = << >>
  BY <1>1, SliceType, EmptySeq
<1>8. Slice(Store(wb, 0, c), 0, m.len) = c
  BY <1>4, <1>6, <1>7, ConcatEmptySeq
<1>9. Len(t.write_buffer) = BUF
  BY <1>1, <1>4, StoreType DEF wb, c
<1>10. Pending(t) = c
  BY <1>1, <1>3, <1>8 DEF Pending, wb, c
<1> QED
  BY <1>1, <1>2, <1>3, <1>4, <1>8, <1>9, <1>10 DEF Loaded, Allocated, wb, c

(* Composing behind what is there already.                                 *)
LEMMA LoadMore ==
    ASSUME NEW s \in of_switch, Allocated(s), s.bytes_written = 0,
           NEW m \in Message, 1 <= m.len, s.bytes_expected + m.len <= BUF,
           NEW t \in of_switch,
           t.rw = WRITE, t.bytes_expected = uint16(s.bytes_expected + m.len),
           t.bytes_written = s.bytes_written, t.read_buffer = s.read_buffer,
           t.write_buffer = Store(s.write_buffer, s.bytes_expected, Cells(m))
    PROVE  /\ Allocated(t) /\ t.bytes_written = 0
           /\ t.bytes_expected = s.bytes_expected + m.len
           /\ Slice(t.write_buffer, 0, t.bytes_expected)
                = Slice(s.write_buffer, 0, s.bytes_expected) \o Cells(m)
<1> DEFINE wb == s.write_buffer
           c == Cells(m)
           e == s.bytes_expected
<1>1. /\ wb \in Seq(Cell) /\ Len(wb) = BUF /\ Len(s.read_buffer) = BUF
      /\ e \in Nat
  BY SwitchFields DEF Allocated
<1>2. e + m.len \in Nat /\ e + m.len < 65536
  BY <1>1, MessageFields, SizeFacts
<1>3. t.bytes_expected = e + m.len
  BY <1>2, uint16Small
<1>4. c \in Seq(Cell) /\ Len(c) = m.len
  BY CellsType
<1>5. Len(t.write_buffer) = BUF
  BY <1>1, <1>4, StoreType
<1> HIDE DEF wb, c, e
<1>6. e + Len(c) <= Len(wb)
  BY <1>1, <1>4 DEF e
<1>7. Slice(Store(wb, e, c), 0, e + Len(c)) = Slice(wb, 0, e) \o c
  BY <1>1, <1>4, <1>6, SliceStore
<1> QED
  BY <1>1, <1>3, <1>4, <1>5, <1>7 DEF wb, c, e, Allocated

LEMMA OwnFields ==
    ASSUME NEW t \in MsgType
    PROVE  Own(t) \in Message /\ Own(t).len = Size[t] /\ 1 <= Own(t).len
           /\ Own(t).len <= BUF
<1>1. Own(t) \in Message
  BY SizeFacts, MsgIsMessage DEF Own
<1>2. Own(t).len = Size[t]
  BY Zenon DEF Own, Msg
<1> QED
  BY <1>1, <1>2, SizeFacts

(* The two flow mods of write_flow_mod.                                    *)
LEMMA LoadTwo ==
    ASSUME NEW s, Ready(s), s.bytes_expected = 0
    PROVE  LET c == Cells(Own("FLOW_MOD"))
               t == ComposeMore(ComposeMore(s, Own("FLOW_MOD")), Own("FLOW_MOD"))
           IN  Loaded(t) /\ Pending(t) = c \o c
<1> DEFINE m == Own("FLOW_MOD")
           c == Cells(m)
           t == ComposeMore(s, m)
           u == ComposeMore(t, m)
<1>1. "FLOW_MOD" \in MsgType
  BY DEF MsgType
<1>2. /\ m \in Message /\ m.len \in Nat /\ 1 <= m.len
      /\ m.len <= BUF /\ m.len + m.len <= BUF
  BY <1>1, OwnFields, SizeFacts
<1> HIDE DEF m
<1>3. c \in Seq(Cell) /\ Framed(c)
  BY <1>2, CellsType, FramedCells
<1>4. /\ s \in of_switch /\ Allocated(s) /\ s.bytes_written = 0
      /\ s.bytes_expected = 0 /\ s.bytes_expected + m.len <= BUF
  BY <1>2 DEF Ready
<1>5. /\ t \in of_switch /\ t.rw = WRITE
      /\ t.bytes_expected = uint16(s.bytes_expected + m.len)
      /\ t.bytes_written = s.bytes_written /\ t.read_buffer = s.read_buffer
      /\ t.write_buffer = Store(s.write_buffer, s.bytes_expected, Cells(m))
  BY <1>2, <1>4, ComposeMoreFields
<1> HIDE DEF t
<1>6. /\ Allocated(t) /\ t.bytes_written = 0
      /\ t.bytes_expected = s.bytes_expected + m.len
      /\ Slice(t.write_buffer, 0, t.bytes_expected)
           = Slice(s.write_buffer, 0, s.bytes_expected) \o c
  BY <1>2, <1>4, <1>5, LoadMore
<1>7. t.bytes_expected = m.len /\ t.bytes_expected + m.len <= BUF
  BY <1>2, <1>4, <1>6
<1>8. /\ u \in of_switch /\ u.rw = WRITE
      /\ u.bytes_expected = uint16(t.bytes_expected + m.len)
      /\ u.bytes_written = t.bytes_written /\ u.read_buffer = t.read_buffer
      /\ u.write_buffer = Store(t.write_buffer, t.bytes_expected, Cells(m))
  BY <1>2, <1>5, ComposeMoreFields
<1> HIDE DEF u
<1>9. /\ Allocated(u) /\ u.bytes_written = 0
      /\ u.bytes_expected = t.bytes_expected + m.len
      /\ Slice(u.write_buffer, 0, u.bytes_expected)
           = Slice(t.write_buffer, 0, t.bytes_expected) \o c
  BY <1>2, <1>5, <1>6, <1>7, <1>8, LoadMore
<1> HIDE DEF c
<1>10. Slice(s.write_buffer, 0, s.bytes_expected) = << >>
  BY <1>4, SwitchFields, SliceType, EmptySeq
<1>11. Slice(t.write_buffer, 0, t.bytes_expected) = c
  BY <1>3, <1>6, <1>10, ConcatEmptySeq
<1>12. Framed(Slice(u.write_buffer, 0, u.bytes_expected))
  BY <1>3, <1>9, <1>11, FramedConcat
<1>13. 0 < u.bytes_expected /\ u.bytes_expected <= BUF
  BY <1>2, <1>7, <1>9
<1>14. Loaded(u)
  BY <1>8, <1>9, <1>12, <1>13 DEF Loaded
<1>15. Pending(u) = c \o c
  BY <1>8, <1>9, <1>11 DEF Pending
<1> QED
  BY <1>14, <1>15, Zenon DEF u, t, c, m

(* Composing a message of the controller's own in a record ready for it.   *)
LEMMA LoadOwn ==
    ASSUME NEW s, Ready(s), NEW m \in Message, 1 <= m.len, m.len <= BUF
    PROVE  Loaded(Compose(s, m)) /\ Pending(Compose(s, m)) = Cells(m)
BY ComposeFields, LoadOne DEF Ready

LEMMA LoadEcho ==
    ASSUME NEW s, Ready(s), NEW m \in Message, 1 <= m.len, m.len <= BUF
    PROVE  /\ Loaded(make_echo_reply(s, m))
           /\ Pending(make_echo_reply(s, m)) = Cells([m EXCEPT !.type = "ECHO_REPLY"])
<1> DEFINE r == [m EXCEPT !.type = "ECHO_REPLY"]
           t == make_echo_reply(s, m)
<1>1. s \in of_switch
  BY DEF Ready
<1>2. /\ t \in of_switch /\ r \in Message /\ r.len = m.len
      /\ t.rw = WRITE /\ t.bytes_expected = uint16(m.len)
      /\ t.bytes_written = s.bytes_written /\ t.read_buffer = s.read_buffer
      /\ t.write_buffer = Store(s.write_buffer, 0, Cells(r))
  BY <1>1, MakeEchoReplyFields
<1> HIDE DEF r, t
<1>3. 1 <= r.len /\ r.len <= BUF /\ t.bytes_expected = uint16(r.len)
  BY <1>2
<1>4. Loaded(t) /\ Pending(t) = Cells(r)
  BY <1>2, <1>3, LoadOne
<1> QED
  BY <1>4 DEF t, r

(* The flags of the setup are nobody's business here.                      *)
LEMMA LoadedFlags ==
    ASSUME NEW s, Loaded(s)
    PROVE  /\ Loaded([s EXCEPT !.features_requested = TRUE])
           /\ Loaded([s EXCEPT !.config_set = TRUE])
           /\ Loaded([s EXCEPT !.ports_requested = TRUE])
           /\ Loaded([s EXCEPT !.default_flow_set = TRUE])
<1>1. s \in of_switch
  BY DEF Loaded
<1>2. ASSUME NEW t \in of_switch, t.rw = s.rw, t.read_buffer = s.read_buffer,
             t.write_buffer = s.write_buffer, t.bytes_written = s.bytes_written,
             t.bytes_expected = s.bytes_expected
      PROVE  Loaded(t)
  BY <1>2 DEF Loaded, Allocated
<1>3. Loaded([s EXCEPT !.features_requested = TRUE])
  <2> DEFINE t == [s EXCEPT !.features_requested = TRUE]
  <2>1. /\ t \in of_switch /\ t.rw = s.rw /\ t.read_buffer = s.read_buffer
        /\ t.write_buffer = s.write_buffer /\ t.bytes_written = s.bytes_written
        /\ t.bytes_expected = s.bytes_expected
    BY <1>1, Zenon DEF of_switch
  <2> HIDE DEF t
  <2>2. Loaded(t)
    BY <1>2, <2>1
  <2> QED
    BY <2>2 DEF t
<1>4. Loaded([s EXCEPT !.config_set = TRUE])
  <2> DEFINE t == [s EXCEPT !.config_set = TRUE]
  <2>1. /\ t \in of_switch /\ t.rw = s.rw /\ t.read_buffer = s.read_buffer
        /\ t.write_buffer = s.write_buffer /\ t.bytes_written = s.bytes_written
        /\ t.bytes_expected = s.bytes_expected
    BY <1>1, Zenon DEF of_switch
  <2> HIDE DEF t
  <2>2. Loaded(t)
    BY <1>2, <2>1
  <2> QED
    BY <2>2 DEF t
<1>5. Loaded([s EXCEPT !.ports_requested = TRUE])
  <2> DEFINE t == [s EXCEPT !.ports_requested = TRUE]
  <2>1. /\ t \in of_switch /\ t.rw = s.rw /\ t.read_buffer = s.read_buffer
        /\ t.write_buffer = s.write_buffer /\ t.bytes_written = s.bytes_written
        /\ t.bytes_expected = s.bytes_expected
    BY <1>1, Zenon DEF of_switch
  <2> HIDE DEF t
  <2>2. Loaded(t)
    BY <1>2, <2>1
  <2> QED
    BY <2>2 DEF t
<1>6. Loaded([s EXCEPT !.default_flow_set = TRUE])
  <2> DEFINE t == [s EXCEPT !.default_flow_set = TRUE]
  <2>1. /\ t \in of_switch /\ t.rw = s.rw /\ t.read_buffer = s.read_buffer
        /\ t.write_buffer = s.write_buffer /\ t.bytes_written = s.bytes_written
        /\ t.bytes_expected = s.bytes_expected
    BY <1>1, Zenon DEF of_switch
  <2> HIDE DEF t
  <2>2. Loaded(t)
    BY <1>2, <2>1
  <2> QED
    BY <2>2 DEF t
<1> QED
  BY <1>3, <1>4, <1>5, <1>6

-----------------------------------------------------------------------------
(* What the two handlers leave behind.                                     *)

(* A record that waits for the next header.                                *)
Fresh(s) ==
    /\ Ready(s)
    /\ s.rw = READ /\ s.bytes_expected = HDR /\ s.reading_header
    /\ s.bytes_read = 0

LEMMA FreshInv ==
    ASSUME NEW s, Fresh(s)
    PROVE  /\ s \in of_switch /\ SwitchInv(s) /\ s.rw = READ
           /\ Pending(s) = << >> /\ Received(s) = << >>
<1>1. s.rw # WRITE /\ s.rw = READ /\ s \in of_switch
  BY Constants DEF Fresh, Ready
<1>2. SwitchInv(s)
  BY <1>1, SizeFacts
     DEF Fresh, Ready, SwitchInv, Exact, Fits, Allocated
<1>3. s.read_buffer \in Seq(Cell) /\ 0 \in Nat
  BY <1>1, SwitchFields
<1>4. Slice(s.read_buffer, 0, 0) = << >>
  BY <1>3, SliceType, EmptySeq
<1> QED
  BY <1>1, <1>2, <1>4 DEF Fresh, Pending, Received

(* new_switch has its HELLO to write.                                      *)
LEMMA NewSwitchLoaded ==
    Loaded(new_switch) /\ Pending(new_switch) = Cells(Own("HELLO"))
<1> DEFINE s == [unused_switch EXCEPT !.rw = WRITE, !.bytes_expected = HDR,
                            !.reading_header = TRUE,
                            !.read_buffer = calloc(BUF),
                            !.write_buffer = calloc(BUF)]
           m == Own("HELLO")
           wb == Store(s.write_buffer, 0, Cells(m))
           t == [s EXCEPT !.write_buffer = wb, !.rw = WRITE,
                          !.bytes_expected = uint16(Size["HELLO"])]
<1>1. "HELLO" \in MsgType /\ 0 \in uint16_t /\ << >> \in Seq(Cell)
  BY DEF MsgType, uint16_t
<1>2. HDR \in uint16_t /\ Size["HELLO"] \in Int /\ uint16(Size["HELLO"]) \in uint16_t
  <2>1. HDR \in Nat /\ HDR < 65536 /\ Size["HELLO"] \in Int
    BY <1>1, SizeFacts
  <2> QED
    BY <2>1, uint16Type DEF uint16_t
<1>3. calloc(BUF) \in Seq(Cell) /\ Len(calloc(BUF)) = BUF
  BY SizeFacts, CallocType
<1>4. unused_switch \in of_switch
  BY <1>1, Constants, Zenon DEF of_switch, unused_switch
<1>5. s \in of_switch
  BY <1>2, <1>3, <1>4, Constants, Zenon DEF of_switch
<1>6. /\ s.read_buffer = calloc(BUF) /\ s.write_buffer = calloc(BUF)
      /\ s.bytes_written = 0
  BY Zenon DEF unused_switch
<1>7. Ready(s)
  BY <1>3, <1>5, <1>6, Zenon DEF Ready, Allocated
<1> HIDE DEF s
<1>8. /\ m \in Message /\ m.len = Size["HELLO"] /\ 1 <= m.len /\ m.len <= BUF
  BY <1>1, OwnFields
<1> HIDE DEF m
<1>9. wb \in Seq(Cell)
  BY <1>3, <1>6, <1>8, StoreType, CellsType
<1> HIDE DEF wb
<1>10. t \in of_switch
  BY <1>2, <1>5, <1>9, Constants, Zenon DEF of_switch
<1>11. /\ t.rw = WRITE /\ t.bytes_expected = uint16(Size["HELLO"])
       /\ t.bytes_written = s.bytes_written /\ t.read_buffer = s.read_buffer
       /\ t.write_buffer = wb
  BY <1>5, Zenon DEF of_switch
<1>12. new_switch = t
  BY Zenon DEF new_switch, write_openflow_hello, s, wb, m
<1> HIDE DEF t
<1>13. t.bytes_expected = uint16(m.len)
  BY <1>8, <1>11
<1>14. t.write_buffer = Store(s.write_buffer, 0, Cells(m))
  BY <1>11 DEF wb
<1>15. Loaded(t) /\ Pending(t) = Cells(m)
  BY <1>7, <1>8, <1>10, <1>11, <1>13, <1>14, LoadOne
<1> QED
  BY <1>12, <1>15 DEF m

(* Everything is written: the next setup message, or back to reading.      *)
LEMMA NextWriteLoaded ==
    ASSUME NEW s0 \in of_switch, Allocated(s0), s0.bytes_expected = 0
    PROVE  Loaded(next_write(s0)) \/ Fresh(next_write(s0))
<1> DEFINE wb == memset(s0.write_buffer)
           s == [s0 EXCEPT !.bytes_written = 0, !.write_buffer = wb]
           r == [s EXCEPT !.rw = READ, !.bytes_expected = HDR,
                          !.reading_header = TRUE, !.bytes_read = 0]
<1>1. 0 \in uint16_t /\ HDR \in uint16_t
  BY SizeFacts DEF uint16_t
<1>2. wb \in Seq(Cell) /\ Len(wb) = BUF
  BY SizeFacts, CallocType DEF memset, Allocated
<1> HIDE DEF wb
<1>3. s \in of_switch
  BY <1>1, <1>2, Zenon DEF of_switch
<1>4. /\ s.bytes_written = 0 /\ s.write_buffer = wb
      /\ s.read_buffer = s0.read_buffer /\ s.bytes_expected = s0.bytes_expected
  BY Zenon DEF of_switch
<1>5. Ready(s) /\ s.bytes_expected = 0
  BY <1>2, <1>3, <1>4 DEF Ready, Allocated
<1> DEFINE t == next_write(s0)
           f1 == [request_features(s) EXCEPT !.features_requested = TRUE]
           f2 == [set_config(s) EXCEPT !.config_set = TRUE]
           f3 == [get_port_info(s) EXCEPT !.ports_requested = TRUE]
           f4 == [write_default_miss(write_default_miss(s))
                    EXCEPT !.default_flow_set = TRUE]
<1>6. t = IF ~s.features_requested THEN f1
          ELSE IF ~s.config_set THEN f2
          ELSE IF ~s.ports_requested THEN f3
          ELSE IF ~s.default_flow_set THEN f4 ELSE r
  BY Zenon DEF next_write, wb
<1>7. r \in of_switch
  BY <1>1, <1>3, Constants, Zenon DEF of_switch
<1>8. /\ r.rw = READ /\ r.bytes_expected = HDR /\ r.reading_header
      /\ r.bytes_read = 0 /\ r.bytes_written = s.bytes_written
      /\ r.read_buffer = s.read_buffer /\ r.write_buffer = s.write_buffer
  BY <1>3, Zenon DEF of_switch
<1> HIDE DEF s, r, t
<1>9. Fresh(r)
  BY <1>5, <1>7, <1>8 DEF Fresh, Ready, Allocated
<1>10. {"FEATURES_REQUEST", "SET_CONFIG", "MULTIPART_REQUEST"} \subseteq MsgType
  BY DEF MsgType
<1>11. Loaded(f1)
  BY <1>5, <1>10, OwnFields, LoadOwn, LoadedFlags DEF request_features
<1>12. Loaded(f2)
  BY <1>5, <1>10, OwnFields, LoadOwn, LoadedFlags DEF set_config
<1>13. Loaded(f3)
  BY <1>5, <1>10, OwnFields, LoadOwn, LoadedFlags DEF get_port_info
<1>14. Loaded(f4)
  BY <1>5, LoadTwo, LoadedFlags DEF write_default_miss
<1> HIDE DEF f1, f2, f3, f4
<1> QED
  BY <1>6, <1>9, <1>11, <1>12, <1>13, <1>14, Zenon DEF t

(* A record whose connection is given up.                                  *)
Dropped(s) == s \in of_switch /\ Allocated(s) /\ s.rw = DISCONNECTED

LEMMA DroppedInv ==
    ASSUME NEW s, Dropped(s)
    PROVE  /\ s \in of_switch /\ SwitchInv(s)
           /\ Pending(s) = << >> /\ Received(s) = << >>
<1>1. s.rw # READ /\ s.rw # WRITE
  BY Constants DEF Dropped
<1> QED
  BY <1>1 DEF Dropped, SwitchInv, Exact, Fits, Pending, Received

(* Filling the port table changes nothing else.                            *)
LEMMA PortsFields ==
    ASSUME NEW s \in of_switch, NEW m \in Message
    PROVE  LET c == save_connected_ports(s, m)
           IN  /\ c \in of_switch /\ c.rw = s.rw /\ c.bytes_written = s.bytes_written
               /\ c.read_buffer = s.read_buffer /\ c.write_buffer = s.write_buffer
<1> DEFINE P == s.connected_ports \cup 1..m.port
           c == [s EXCEPT !.connected_ports = P]
<1>1. P \in SUBSET Nat
  <2>1. s.connected_ports \in SUBSET Nat
    BY Zenon DEF of_switch
  <2> QED
    BY <2>1
<1>2. save_connected_ports(s, m) = c
  BY Zenon DEF save_connected_ports
<1> HIDE DEF P
<1>3. /\ c \in of_switch /\ c.rw = s.rw /\ c.bytes_written = s.bytes_written
      /\ c.read_buffer = s.read_buffer /\ c.write_buffer = s.write_buffer
  BY <1>1, Zenon DEF of_switch
<1> QED
  BY <1>2, <1>3

(* A complete message: an answer to write, the next header to read, or the *)
(* end of the connection.                                                  *)
LEMMA DispatchLeaves ==
    ASSUME NEW s, Ready(s), s.rw = READ, s.bytes_expected = 0, NEW fd \in Nat,
           NEW m \in Message, 1 <= m.len, m.len <= BUF
    PROVE  LET u == await_next_header(dispatch(s, fd, m))
           IN  Loaded(u) \/ Fresh(u) \/ Dropped(u)
<1> DEFINE d == dispatch(s, fd, m)
           u == await_next_header(d)
           x == [s EXCEPT !.rw = DISCONNECTED]
           c == save_connected_ports(s, m)
           p == [Own("PACKET_OUT") EXCEPT !.info = "probe", !.fd = fd]
<1>1. s \in of_switch /\ Allocated(s) /\ s.bytes_written = 0
  BY DEF Ready
<1>2. ASSUME NEW t, Loaded(t), d = t
      PROVE  Loaded(u)
  <2>1. t \in of_switch /\ t.rw = WRITE
    BY <1>2 DEF Loaded
  <2>2. await_next_header(t) = t
    BY <2>1, AwaitNextHeaderFields
  <2> QED
    BY <1>2, <2>2
<1>3. x \in of_switch
  BY <1>1, Constants, Zenon DEF of_switch
<1>4. /\ x.rw = DISCONNECTED /\ x.read_buffer = s.read_buffer
      /\ x.write_buffer = s.write_buffer
  BY <1>1, Zenon DEF of_switch
<1>12. /\ c \in of_switch /\ c.rw = s.rw /\ c.bytes_written = s.bytes_written
       /\ c.read_buffer = s.read_buffer /\ c.write_buffer = s.write_buffer
  BY <1>1, PortsFields
<1> HIDE DEF x, c
<1>5. CASE d = x
  <2>1. /\ u \in of_switch /\ u.rw = x.rw /\ u.write_buffer = x.write_buffer
        /\ Len(u.read_buffer) = Len(x.read_buffer)
    BY <1>3, <1>5, AwaitNextHeaderFields
  <2> QED
    BY <1>1, <1>4, <2>1 DEF Dropped, Allocated
<1>6. CASE d = s
  <2>1. /\ u \in of_switch /\ u.rw = READ /\ u.bytes_written = 0
        /\ u.write_buffer = s.write_buffer /\ Len(u.read_buffer) = Len(s.read_buffer)
        /\ u.bytes_expected = HDR /\ u.reading_header /\ u.bytes_read = 0
    BY <1>1, <1>6, Constants, AwaitNextHeaderFields
  <2> QED
    BY <1>1, <2>1 DEF Fresh, Ready, Allocated
<1>11. CASE d = c
  <2>1. /\ u \in of_switch /\ u.rw = READ /\ u.bytes_written = 0
        /\ u.write_buffer = c.write_buffer /\ Len(u.read_buffer) = Len(c.read_buffer)
        /\ u.bytes_expected = HDR /\ u.reading_header /\ u.bytes_read = 0
    BY <1>1, <1>11, <1>12, Constants, AwaitNextHeaderFields
  <2> QED
    BY <1>1, <1>12, <2>1 DEF Fresh, Ready, Allocated
<1>7. CASE d = make_echo_reply(s, m)
  BY <1>2, <1>7, LoadEcho
<1>8. CASE d = send_probe_packet(s, fd)
  <2>1. "PACKET_OUT" \in MsgType /\ "probe" \in Info
    BY DEF MsgType, Info
  <2>2. Own("PACKET_OUT") \in Message
    BY <2>1, OwnFields
  <2>3. p \in Message /\ p.len = Own("PACKET_OUT").len
    BY <2>1, <2>2, Zenon DEF Message
  <2>4. 1 <= p.len /\ p.len <= BUF
    BY <2>1, <2>3, OwnFields
  <2> HIDE DEF p
  <2>5. Loaded(Compose(s, p))
    BY <2>3, <2>4, LoadOwn
  <2>6. send_probe_packet(s, fd) = Compose(s, p)
    BY Zenon DEF send_probe_packet, p
  <2> QED
    BY <1>2, <1>8, <2>5, <2>6
<1>9. CASE d = write_new_flow(write_new_flow(s))
  BY <1>2, <1>9, LoadTwo DEF write_new_flow
<1>10. \/ d = x \/ d = s \/ d = c \/ d = make_echo_reply(s, m)
       \/ d = send_probe_packet(s, fd) \/ d = write_new_flow(write_new_flow(s))
  <2> DEFINE e == make_echo_reply(s, m)
             f == send_probe_packet(s, fd)
             g == write_new_flow(write_new_flow(s))
  <2>1. d = CASE s.of_status = "ECHO_REQUEST" -> e
              [] s.of_status = "MULTIPART_REPLY" -> c
              [] s.of_status = "FEATURES_REPLY" -> f
              [] s.of_status = "PACKET_IN" /\ m.info = "host" -> g
              [] s.of_status \notin Known -> x
              [] OTHER -> s
    BY Zenon DEF dispatch, x, c
  <2> HIDE DEF d, e, f, g
  <2>2. d = x \/ d = s \/ d = c \/ d = e \/ d = f \/ d = g
    BY <2>1
  <2> QED
    BY <2>2 DEF e, f, g
<1> QED
  BY <1>5, <1>6, <1>7, <1>8, <1>9, <1>10, <1>11

LEMMA PortModLoaded ==
    ASSUME NEW s, Ready(s), NEW port \in Nat
    PROVE  /\ Loaded(change_port_behavior(s, port))
           /\ \E info \in {"none", "named"} :
                Pending(change_port_behavior(s, port)) =
                  Cells([Own("PORT_MOD") EXCEPT !.port = port, !.info = info])
<1> DEFINE named == IF port \in s.connected_ports THEN "named" ELSE "none"
           p == [Own("PORT_MOD") EXCEPT !.port = port, !.info = named]
<1>1. "PORT_MOD" \in MsgType /\ named \in Info /\ named \in {"none", "named"}
  BY DEF MsgType, Info
<1>6. change_port_behavior(s, port) = Compose(s, p)
  BY Zenon DEF change_port_behavior
<1> HIDE DEF named
<1>2. Own("PORT_MOD") \in Message
  BY <1>1, OwnFields
<1>3. p \in Message /\ p.len = Own("PORT_MOD").len
  BY <1>1, <1>2, Zenon DEF Message
<1>4. 1 <= p.len /\ p.len <= BUF
  BY <1>1, <1>3, OwnFields
<1> HIDE DEF p
<1>5. Loaded(Compose(s, p)) /\ Pending(Compose(s, p)) = Cells(p)
  BY <1>3, <1>4, LoadOwn
<1> QED
  BY <1>1, <1>5, <1>6 DEF p

(* What a complete message leaves in the write buffer.                     *)
LEMMA DispatchSays ==
    ASSUME NEW s, Ready(s), s.rw = READ, s.bytes_expected = 0, NEW fd \in Nat,
           NEW m \in Message, 1 <= m.len, m.len <= BUF
    PROVE  LET u == await_next_header(dispatch(s, fd, m))
               t == s.of_status
               flow == Cells(Own("FLOW_MOD"))
           IN  /\ t = "ECHO_REQUEST" =>
                    u.rw = WRITE /\ Pending(u) = Cells([m EXCEPT !.type = "ECHO_REPLY"])
               /\ t = "FEATURES_REPLY" =>
                    /\ u.rw = WRITE
                    /\ Pending(u) =
                         Cells([Own("PACKET_OUT") EXCEPT !.info = "probe", !.fd = fd])
               /\ t = "PACKET_IN" /\ m.info = "host" =>
                    u.rw = WRITE /\ Pending(u) = flow \o flow
               /\ t \notin Known => u.rw = DISCONNECTED /\ Pending(u) = << >>
               /\ /\ t \in Known \ {"ECHO_REQUEST", "FEATURES_REPLY"}
                  /\ ~(t = "PACKET_IN" /\ m.info = "host")
                  => u.rw = READ /\ Pending(u) = << >>
<1> DEFINE d == dispatch(s, fd, m)
           u == await_next_header(d)
           x == [s EXCEPT !.rw = DISCONNECTED]
           c == save_connected_ports(s, m)
           p == [Own("PACKET_OUT") EXCEPT !.info = "probe", !.fd = fd]
           flow == Cells(Own("FLOW_MOD"))
           e == make_echo_reply(s, m)
           f == send_probe_packet(s, fd)
           g == write_new_flow(write_new_flow(s))
<1>1. s \in of_switch
  BY DEF Ready
<1>2. ASSUME NEW t, Loaded(t), d = t
      PROVE  u = t /\ u.rw = WRITE
  <2>1. t \in of_switch /\ t.rw = WRITE
    BY <1>2 DEF Loaded
  <2>2. await_next_header(t) = t
    BY <2>1, AwaitNextHeaderFields
  <2> QED
    BY <1>2, <2>1, <2>2
<1>3. /\ x \in of_switch /\ x.rw = DISCONNECTED
      /\ c \in of_switch /\ c.rw = READ
  BY <1>1, Constants, PortsFields, Zenon DEF of_switch
<1>4. Loaded(e) /\ Pending(e) = Cells([m EXCEPT !.type = "ECHO_REPLY"])
  BY LoadEcho, Zenon
<1>5. Loaded(f) /\ Pending(f) = Cells(p)
  <2>1. "PACKET_OUT" \in MsgType /\ "probe" \in Info
    BY DEF MsgType, Info
  <2>2. Own("PACKET_OUT") \in Message
    BY <2>1, OwnFields
  <2>3. p \in Message /\ p.len = Own("PACKET_OUT").len
    BY <2>1, <2>2, Zenon DEF Message
  <2>4. 1 <= p.len /\ p.len <= BUF
    BY <2>1, <2>3, OwnFields
  <2>5. send_probe_packet(s, fd) = Compose(s, p)
    BY Zenon DEF send_probe_packet
  <2> HIDE DEF p
  <2> QED
    BY <2>3, <2>4, <2>5, LoadOwn
<1>6. Loaded(g) /\ Pending(g) = flow \o flow
  BY LoadTwo DEF write_new_flow
<1>7. d = CASE s.of_status = "ECHO_REQUEST" -> e
            [] s.of_status = "MULTIPART_REPLY" -> c
            [] s.of_status = "FEATURES_REPLY" -> f
            [] s.of_status = "PACKET_IN" /\ m.info = "host" -> g
            [] s.of_status \notin Known -> x
            [] OTHER -> s
  BY Zenon DEF dispatch
<1> HIDE DEF d, x, c, e, f, g, flow, p
<1>8. ASSUME NEW t \in of_switch, d = t, t.rw # WRITE
      PROVE  u.rw = t.rw /\ Pending(u) = << >>
  <2>1. u.rw = t.rw
    BY <1>8, AwaitNextHeaderFields
  <2> QED
    BY <1>8, <2>1 DEF Pending
<1>9. s.of_status = "ECHO_REQUEST" => d = e
  BY <1>7 DEF Known
<1>10. s.of_status = "FEATURES_REPLY" => d = f
  BY <1>7 DEF Known
<1>11. s.of_status = "PACKET_IN" /\ m.info = "host" => d = g
  BY <1>7 DEF Known
<1>12. s.of_status \notin Known => d = x
  BY <1>7 DEF Known
<1>13. /\ s.of_status \in Known \ {"ECHO_REQUEST", "FEATURES_REPLY"}
       /\ ~(s.of_status = "PACKET_IN" /\ m.info = "host")
       => d = s \/ d = c
  BY <1>7 DEF Known
<1>14. s.of_status = "ECHO_REQUEST" =>
         u.rw = WRITE /\ Pending(u) = Cells([m EXCEPT !.type = "ECHO_REPLY"])
  BY <1>2, <1>4, <1>9
<1>15. s.of_status = "FEATURES_REPLY" => u.rw = WRITE /\ Pending(u) = Cells(p)
  BY <1>2, <1>5, <1>10
<1>16. s.of_status = "PACKET_IN" /\ m.info = "host" =>
         u.rw = WRITE /\ Pending(u) = flow \o flow
  BY <1>2, <1>6, <1>11
<1>17. s.of_status \notin Known => u.rw = DISCONNECTED /\ Pending(u) = << >>
  BY <1>3, <1>8, <1>12, Constants
<1>18. /\ s.of_status \in Known \ {"ECHO_REQUEST", "FEATURES_REPLY"}
       /\ ~(s.of_status = "PACKET_IN" /\ m.info = "host")
       => u.rw = READ /\ Pending(u) = << >>
  BY <1>1, <1>3, <1>8, <1>13, Constants
<1> QED
  BY <1>14, <1>15, <1>16, <1>17, <1>18, Zenon DEF d, p, flow

-----------------------------------------------------------------------------
(* Moving cells between a socket and a buffer.                             *)

LEMMA SplitSeq ==
    ASSUME NEW st \in Seq(Cell), NEW n \in 1..Len(st)
    PROVE  /\ SubSeq(st, 1, n) \in Seq(Cell) /\ Len(SubSeq(st, 1, n)) = n
           /\ SubSeq(st, n + 1, Len(st)) \in Seq(Cell)
           /\ Len(SubSeq(st, n + 1, Len(st))) = Len(st) - n
           /\ \A i \in 1..Len(st) - n : SubSeq(st, n + 1, Len(st))[i] = st[n + i]
           /\ SubSeq(st, 1, n) \o SubSeq(st, n + 1, Len(st)) = st
<1> DEFINE a == SubSeq(st, 1, n)
           b == SubSeq(st, n + 1, Len(st))
<1>1. Len(st) \in Nat /\ n \in Nat /\ n <= Len(st)
  OBVIOUS
<1>2. /\ a \in Seq(Cell) /\ Len(a) = n
      /\ \A i \in 1..n : a[i] = st[i]
  BY <1>1
<1>3. /\ b \in Seq(Cell) /\ Len(b) = Len(st) - n
      /\ \A i \in 1..Len(st) - n : b[i] = st[n + i]
  BY <1>1
<1> HIDE DEF a, b
<1> DEFINE c == a \o b
<1>4. /\ c \in Seq(Cell) /\ Len(c) = Len(a) + Len(b)
      /\ \A i \in 1..Len(a) : c[i] = a[i]
      /\ \A i \in 1..Len(b) : c[Len(a) + i] = b[i]
  BY <1>2, <1>3, ConcatFacts, Zenon
<1> HIDE DEF c
<1>5. Len(c) = Len(st) /\ Len(b) = Len(st) - n /\ Len(a) = n
  BY <1>1, <1>2, <1>3, <1>4
<1>6. \A i \in 1..Len(st) : c[i] = st[i]
  <2> SUFFICES ASSUME NEW i \in 1..Len(st) PROVE c[i] = st[i]
    OBVIOUS
  <2>1. CASE i <= n
    <3>1. i \in 1..n /\ i \in 1..Len(a)
      BY <1>1, <1>5, <2>1
    <3> QED
      BY <1>2, <1>4, <3>1
  <2>2. CASE i > n
    <3>1. /\ i - n \in 1..Len(st) - n /\ n + (i - n) = i
          /\ i - n \in 1..Len(b) /\ Len(a) + (i - n) = i
      BY <1>1, <1>5, <2>2
    <3> QED
      BY <1>3, <1>4, <3>1
  <2> QED
    BY <1>1, <2>1, <2>2
<1>7. c = st
  BY <1>4, <1>5, <1>6, SeqEqual
<1> QED
  BY <1>2, <1>3, <1>7, Zenon DEF a, b, c

LEMMA ConcatCells ==
    ASSUME NEW a \in Seq(Cell), NEW b \in Seq(Cell), NEW c \in Seq(Cell)
    PROVE  (a \o b) \o c = a \o (b \o c)
BY ConcatAssociative

LEMMA WriteToFields ==
    ASSUME NEW s \in of_switch, NEW n \in Nat
    PROVE  LET t == write_to(s, n)
           IN  /\ t \in of_switch
               /\ t.rw = s.rw /\ t.read_buffer = s.read_buffer
               /\ t.bytes_written = uint16(s.bytes_written + n)
               /\ t.bytes_expected = uint16(s.bytes_expected - n)
               /\ Len(s.write_buffer) # s.bytes_written =>
                    t.write_buffer = s.write_buffer
<1> DEFINE t == write_to(s, n)
           buf == IF Len(s.write_buffer) = s.bytes_written
                  THEN resize_buffer(s.write_buffer) ELSE s.write_buffer
           x == uint16(s.bytes_written + n)
           y == uint16(s.bytes_expected - n)
<1>1. s.write_buffer \in Seq(Cell) /\ Len(s.write_buffer) \in Nat
  BY SwitchFields, LenProperties
<1>2. resize_buffer(s.write_buffer) \in Seq(Cell)
  BY <1>1, CallocType, ConcatProperties DEF resize_buffer
<1>3. buf \in Seq(Cell)
  BY <1>1, <1>2
<1>4. s.bytes_written + n \in Int /\ s.bytes_expected - n \in Int
  BY SwitchFields
<1>5. x \in uint16_t /\ y \in uint16_t
  BY <1>4, uint16Type
<1>6. t = [s EXCEPT !.write_buffer = buf, !.bytes_written = x, !.bytes_expected = y]
  BY Zenon DEF write_to
<1>7. Len(s.write_buffer) # s.bytes_written => buf = s.write_buffer
  OBVIOUS
<1> HIDE DEF t, buf, x, y
<1>8. t \in of_switch
  BY <1>3, <1>5, <1>6, Zenon DEF of_switch
<1>9. t.rw = s.rw /\ t.read_buffer = s.read_buffer
  BY <1>6, Zenon DEF of_switch
<1>10. t.bytes_written = x /\ t.bytes_expected = y /\ t.write_buffer = buf
  BY <1>6, Zenon DEF of_switch
<1> QED
  BY <1>7, <1>8, <1>9, <1>10, Zenon DEF t, x, y

LEMMA ReceivedFacts ==
    ASSUME NEW s \in of_switch, s.rw = READ, s.bytes_read <= Len(s.read_buffer)
    PROVE  /\ Received(s) = Slice(s.read_buffer, 0, s.bytes_read)
           /\ Received(s) \in Seq(Cell) /\ Len(Received(s)) = s.bytes_read
           /\ \A i \in 1..s.bytes_read : Received(s)[i] = s.read_buffer[i]
<1> DEFINE r == s.bytes_read
           b == s.read_buffer
<1>1. r \in Nat /\ 0 \in Nat /\ b \in Seq(Cell) /\ Len(b) \in Nat /\ r <= Len(b)
  BY SwitchFields, LenProperties
<1>2. Received(s) = Slice(b, 0, r)
  BY DEF Received
<1> HIDE DEF r, b
<1>3. /\ Slice(b, 0, r) \in Seq(Cell) /\ Len(Slice(b, 0, r)) = r
      /\ \A i \in 1..r : 0 + i <= Len(b) => Slice(b, 0, r)[i] = b[0 + i]
  BY <1>1, SliceType
<1>4. \A i \in 1..r : 0 + i <= Len(b) /\ 0 + i = i
  BY <1>1
<1> QED
  BY <1>2, <1>3, <1>4 DEF r, b

(* recv puts n cells of the socket behind those already there.             *)
LEMMA Recv ==
    ASSUME NEW s \in of_switch, SwitchInv(s), s.rw = READ,
           NEW sk \in Seq(Cell), NEW n \in 1..Len(sk), n <= s.bytes_expected
    PROVE  LET t == read_from(s, n, SubSeq(sk, 1, n))
           IN  /\ t \in of_switch /\ t.rw = READ /\ Allocated(t)
               /\ t.of_status = s.of_status
               /\ t.reading_header = s.reading_header
               /\ t.bytes_written = 0
               /\ t.bytes_read = s.bytes_read + n
               /\ t.bytes_expected = s.bytes_expected - n
               /\ t.bytes_read <= Len(t.read_buffer)
               /\ s.bytes_read > 0 => t.read_buffer[1] = s.read_buffer[1]
               /\ Received(t) \o SubSeq(sk, n + 1, Len(sk)) = Received(s) \o sk
<1> DEFINE a == SubSeq(sk, 1, n)
           b == SubSeq(sk, n + 1, Len(sk))
           t == read_from(s, n, a)
           rb == s.read_buffer
           r == s.bytes_read
           e == s.bytes_expected
<1>1. /\ rb \in Seq(Cell) /\ Len(rb) = BUF /\ r \in Nat /\ e \in Nat
      /\ r + e <= BUF /\ s.bytes_written = 0 /\ Len(s.write_buffer) = BUF
      /\ BUF \in Nat /\ BUF < 32768
  BY SwitchFields, SizeFacts DEF SwitchInv, Fits, Allocated
<1>2. n \in Nat /\ 1 <= n /\ n <= e
  OBVIOUS
<1>3. a \in Seq(Cell) /\ Len(a) = n
  BY SplitSeq
<1>20. b \in Seq(Cell) /\ a \o b = sk
  BY SplitSeq
<1> HIDE DEF a, b
<1>4. /\ t \in of_switch
      /\ t.rw = s.rw /\ t.of_status = s.of_status
      /\ t.reading_header = s.reading_header
      /\ t.bytes_read = uint16(r + n)
      /\ t.bytes_expected = uint16(e - n)
      /\ t.bytes_written = s.bytes_written
      /\ t.write_buffer = s.write_buffer
      /\ Len(rb) # r => t.read_buffer = Store(rb, r, a)
  BY <1>2, <1>3, ReadFromFields, ZenonT(60)
<1> HIDE DEF t, rb, r, e
<1>21. /\ r \in Nat /\ e \in Nat /\ BUF \in Nat /\ BUF < 32768
       /\ r + e <= BUF /\ Len(rb) = BUF
  BY <1>1
<1>5. r + n \in Nat /\ r + n < 65536 /\ e - n \in Nat /\ e - n < 65536 /\ Len(rb) # r
  BY <1>2, <1>21
<1>6. /\ t.bytes_read = r + n /\ t.bytes_expected = e - n
      /\ t.read_buffer = Store(rb, r, a)
  BY <1>4, <1>5, uint16Small
<1>7. /\ Len(t.read_buffer) = BUF
      /\ \A i \in 1..BUF : t.read_buffer[i] = IF i - r \in 1..Len(a) THEN a[i - r] ELSE rb[i]
  <2> DEFINE st == Store(rb, r, a)
  <2>1. /\ Len(st) = Len(rb)
        /\ \A i \in 1..Len(rb) : st[i] = IF i - r \in 1..Len(a) THEN a[i - r] ELSE rb[i]
    <3>1. rb \in Seq(Cell) /\ r \in Nat /\ a \in Seq(Cell)
      BY <1>1, <1>3
    <3> QED
      BY <3>1, StoreType, ZenonT(60)
  <2> HIDE DEF st
  <2>2. t.read_buffer = st
    BY <1>6 DEF st
  <2> QED
    BY <1>1, <2>1, <2>2
<1>8. r > 0 => t.read_buffer[1] = rb[1]
  <2> SUFFICES ASSUME r > 0 PROVE t.read_buffer[1] = rb[1]
    OBVIOUS
  <2>1. 1 \in 1..BUF /\ ~(1 - r \in 1..Len(a))
    BY <1>1, <1>3, <1>2
  <2> QED
    BY <1>7, <2>1
<1>9. t.bytes_read <= Len(t.read_buffer) /\ r <= Len(rb) /\ r + Len(a) <= Len(rb)
  BY <1>1, <1>2, <1>3, <1>6, <1>7
<1>10. Received(t) = Slice(Store(rb, r, a), 0, r + Len(a))
  BY <1>3, <1>4, <1>6, <1>9, ReceivedFacts
<1>11. /\ Received(s) = Slice(rb, 0, r) /\ Received(s) \in Seq(Cell)
  BY <1>9, ReceivedFacts DEF r, rb
<1>12. Slice(Store(rb, r, a), 0, r + Len(a)) = Slice(rb, 0, r) \o a
  <2>1. rb \in Seq(Cell) /\ r \in Nat /\ a \in Seq(Cell) /\ r + Len(a) <= Len(rb)
    BY <1>1, <1>3, <1>9
  <2> QED
    BY <2>1, SliceStore, Zenon
<1>13. Received(t) \o b = Received(s) \o sk
  <2> DEFINE v == Received(s)
  <2>1. Received(t) = v \o a /\ v \in Seq(Cell)
    BY <1>10, <1>11, <1>12
  <2> HIDE DEF v
  <2>2. (v \o a) \o b = v \o (a \o b)
    BY <1>3, <1>20, <2>1, ConcatCells
  <2> QED
    BY <1>20, <2>1, <2>2, Zenon DEF v
<1>14. Allocated(t)
  BY <1>1, <1>4, <1>7 DEF Allocated
<1>15. t.rw = READ /\ t.bytes_written = 0
  BY <1>1, <1>4
<1>16. r = s.bytes_read /\ e = s.bytes_expected /\ rb = s.read_buffer
  BY DEF r, e, rb
<1>17. /\ b = SubSeq(sk, n + 1, Len(sk))
       /\ t = read_from(s, n, SubSeq(sk, 1, n))
  BY Zenon DEF a, b, t
<1> QED
  BY <1>4, <1>6, <1>8, <1>9, <1>13, <1>14, <1>15, <1>16, <1>17, Zenon

LEMMA PendingFacts ==
    ASSUME NEW s \in of_switch, s.rw = WRITE,
           s.bytes_written + s.bytes_expected <= Len(s.write_buffer)
    PROVE  /\ Pending(s) \in Seq(Cell) /\ Len(Pending(s)) = s.bytes_expected
           /\ \A i \in 1..s.bytes_expected :
                Pending(s)[i] = s.write_buffer[s.bytes_written + i]
<1> DEFINE w == s.bytes_written
           e == s.bytes_expected
           b == s.write_buffer
<1>1. /\ w \in Nat /\ e \in Nat /\ b \in Seq(Cell) /\ Len(b) \in Nat
      /\ w + e <= Len(b)
  BY SwitchFields, LenProperties
<1>2. Pending(s) = Slice(b, w, e)
  BY DEF Pending
<1> HIDE DEF w, e, b
<1>3. /\ Slice(b, w, e) \in Seq(Cell) /\ Len(Slice(b, w, e)) = e
      /\ \A i \in 1..e : w + i <= Len(b) => Slice(b, w, e)[i] = b[w + i]
  BY <1>1, SliceType
<1>4. \A i \in 1..e : w + i <= Len(b)
  BY <1>1
<1> QED
  BY <1>2, <1>3, <1>4 DEF w, e, b

(* send takes n cells off what is pending.                                 *)
LEMMA Send ==
    ASSUME NEW s \in of_switch, SwitchInv(s), s.rw = WRITE,
           NEW n \in 1..s.bytes_expected
    PROVE  LET t == write_to(s, n)
           IN  /\ t \in of_switch /\ t.rw = WRITE /\ Allocated(t)
               /\ t.bytes_written = s.bytes_written + n
               /\ t.bytes_expected = s.bytes_expected - n
               /\ Pending(s) \in Seq(Cell) /\ Pending(t) \in Seq(Cell)
               /\ SubSeq(Pending(s), 1, n) \in Seq(Cell)
               /\ SubSeq(Pending(s), 1, n) \o Pending(t) = Pending(s)
<1> DEFINE t == write_to(s, n)
           wb == s.write_buffer
           w == s.bytes_written
           e == s.bytes_expected
           p == Pending(s)
           q == Pending(t)
           x == SubSeq(p, n + 1, Len(p))
<1>1. /\ wb \in Seq(Cell) /\ Len(wb) = BUF /\ w \in Nat /\ e \in Nat
      /\ w + e <= BUF /\ Len(s.read_buffer) = BUF
      /\ BUF \in Nat /\ BUF < 32768
  BY SwitchFields, SizeFacts DEF SwitchInv, Fits, Allocated
<1>2. n \in Nat /\ 1 <= n /\ n <= e
  BY <1>1
<1>3. /\ t \in of_switch
      /\ t.rw = s.rw /\ t.read_buffer = s.read_buffer
      /\ t.bytes_written = uint16(w + n)
      /\ t.bytes_expected = uint16(e - n)
      /\ Len(wb) # w => t.write_buffer = wb
  BY <1>2, WriteToFields, Zenon
<1> HIDE DEF t, w, e
<1>4. w + n \in Nat /\ w + n < 65536 /\ e - n \in Nat /\ e - n < 65536 /\ Len(wb) # w
  BY <1>1, <1>2
<1>5. /\ t.bytes_written = w + n /\ t.bytes_expected = e - n
      /\ t.write_buffer = wb
  BY <1>3, <1>4, uint16Small
<1>6. /\ p \in Seq(Cell) /\ Len(p) = e /\ \A i \in 1..e : p[i] = wb[w + i]
  BY <1>1, PendingFacts DEF w, e
<1>7. (w + n) + (e - n) <= Len(wb)
  BY <1>1, <1>2
<1>8. /\ q \in Seq(Cell) /\ Len(q) = e - n
      /\ \A i \in 1..e - n : q[i] = wb[w + n + i]
  BY <1>3, <1>5, <1>7, PendingFacts
<1> HIDE DEF wb, p, q
<1>9. n \in 1..Len(p)
  BY <1>1, <1>2, <1>6
<1>10. /\ SubSeq(p, 1, n) \in Seq(Cell) /\ SubSeq(p, 1, n) \o x = p
       /\ x \in Seq(Cell) /\ Len(x) = Len(p) - n
       /\ \A i \in 1..Len(p) - n : x[i] = p[n + i]
  BY <1>6, <1>9, SplitSeq
<1> HIDE DEF x
<1>11. Len(x) = e - n /\ \A i \in 1..e - n : x[i] = q[i]
  <2>1. Len(x) = e - n /\ \A i \in 1..e - n : x[i] = p[n + i]
    BY <1>6, <1>10
  <2>2. \A i \in 1..e - n : n + i \in 1..e /\ w + (n + i) = w + n + i
    BY <1>1, <1>2
  <2>3. \A i \in 1..e - n : p[n + i] = q[i]
    BY <1>6, <1>8, <2>2
  <2> QED
    BY <2>1, <2>3
<1>12. x = q
  BY <1>8, <1>10, <1>11, SeqEqual
<1>13. Allocated(t)
  BY <1>1, <1>3, <1>5 DEF Allocated, wb
<1> QED
  BY <1>3, <1>5, <1>6, <1>8, <1>10, <1>12, <1>13, Zenon DEF t, w, e, p, q
-----------------------------------------------------------------------------
(* The setup: the six messages a switch gets first, and the stream they    *)
(* arrive in.                                                              *)

LEMMA NotReading ==
    ASSUME NEW s, s.rw # READ
    PROVE  Received(s) = << >>
BY DEF Received

LEMMA NotWriting ==
    ASSUME NEW s, s.rw # WRITE
    PROVE  Pending(s) = << >>
BY DEF Pending

OpeningCells(i) == Cells(Own(SetupTypes[i]))

(* The cells of the setup behind its first k messages.                     *)
R5 == OpeningCells(6) \o << >>
R4 == OpeningCells(5) \o R5
R3 == OpeningCells(4) \o R4
R2 == OpeningCells(3) \o R3
R1 == OpeningCells(2) \o R2
R0 == OpeningCells(1) \o R1

Rest(k) == << R0, R1, R2, R3, R4, R5, << >> >>[k + 1]

(* The flags of the setup are set in their order, and say what next_write  *)
(* has not composed yet.                                                   *)
FlagsInOrder(s) ==
    /\ s.default_flow_set => s.ports_requested
    /\ s.ports_requested => s.config_set
    /\ s.config_set => s.features_requested

Uncomposed(s) ==
    IF ~s.features_requested THEN R1 ELSE IF ~s.config_set THEN R2
    ELSE IF ~s.ports_requested THEN R3 ELSE IF ~s.default_flow_set THEN R4 ELSE << >>

Starts(st, r) == Len(r) <= Len(st) /\ \A i \in 1..Len(r) : st[i] = r[i]

(* Streams that begin with another one.                                    *)

LEMMA StartsLonger ==
    ASSUME NEW a \in Seq(Cell), NEW b \in Seq(Cell), NEW r \in Seq(Cell), Starts(a, r)
    PROVE  Starts(a \o b, r)
BY ConcatFacts, LenProperties DEF Starts

LEMMA StartsBehind ==
    ASSUME NEW a \in Seq(Cell), NEW b \in Seq(Cell), NEW c \in Seq(Cell),
           NEW r \in Seq(Cell), Len(a) = Len(c), Starts(a \o b, c \o r)
    PROVE  Starts(b, r)
<1> DEFINE x == a \o b
           y == c \o r
<1>1. /\ Len(a) \in Nat /\ Len(b) \in Nat /\ Len(r) \in Nat
      /\ Len(x) = Len(a) + Len(b) /\ Len(y) = Len(a) + Len(r)
      /\ \A k \in 1..Len(b) : x[Len(a) + k] = b[k]
      /\ \A k \in 1..Len(r) : y[Len(a) + k] = r[k]
  <2>1. /\ Len(a) \in Nat /\ Len(b) \in Nat /\ Len(x) = Len(a) + Len(b)
        /\ \A k \in 1..Len(b) : x[Len(a) + k] = b[k]
    BY ConcatFacts, Zenon
  <2>2. /\ Len(r) \in Nat /\ Len(y) = Len(c) + Len(r)
        /\ \A k \in 1..Len(r) : y[Len(c) + k] = r[k]
    BY ConcatFacts, Zenon
  <2> HIDE DEF x, y
  <2> QED
    BY <2>1, <2>2
<1>2. Len(y) <= Len(x) /\ \A i \in 1..Len(y) : x[i] = y[i]
  BY Zenon DEF Starts
<1> HIDE DEF x, y
<1>3. Len(r) <= Len(b)
  BY <1>1, <1>2
<1>4. ASSUME NEW k \in 1..Len(r) PROVE b[k] = r[k]
  <2>1. k \in 1..Len(b) /\ Len(a) + k \in 1..Len(y)
    BY <1>1, <1>3
  <2> QED
    BY <1>1, <1>2, <2>1
<1> QED
  BY <1>3, <1>4 DEF Starts

LEMMA OpeningFields ==
    ASSUME NEW i \in 1..6
    PROVE  LET m == Own(SetupTypes[i])
           IN  /\ SetupTypes[i] \in MsgType /\ m.type = SetupTypes[i]
               /\ m \in Message /\ m.len \in Nat /\ 1 <= m.len /\ m.len <= BUF
               /\ OpeningCells(i) \in Seq(Cell) /\ Len(OpeningCells(i)) = m.len
               /\ OpeningCells(i)[1] = Piece(m, 1)
<1> DEFINE t == SetupTypes[i]
           m == Own(t)
<1>1. t \in MsgType
  BY DEF SetupTypes, MsgType
<1> HIDE DEF t
<1>2. m.type = t
  BY Zenon DEF Own, Msg
<1>3. m \in Message /\ 1 <= m.len /\ m.len <= BUF /\ m.len \in Nat
  BY <1>1, OwnFields, MessageFields
<1> HIDE DEF m
<1>4. /\ Cells(m) \in Seq(Cell) /\ Len(Cells(m)) = m.len
      /\ Cells(m)[1] = Piece(m, 1)
  BY <1>3, CellsType
<1> QED
  BY <1>1, <1>2, <1>3, <1>4 DEF OpeningCells, m, t

LEMMA RestTypes ==
    /\ << >> \in Seq(Cell) /\ R5 \in Seq(Cell) /\ R4 \in Seq(Cell)
    /\ R3 \in Seq(Cell) /\ R2 \in Seq(Cell) /\ R1 \in Seq(Cell) /\ R0 \in Seq(Cell)
<1>1. << >> \in Seq(Cell)
  BY EmptySeq
<1>2. /\ OpeningCells(1) \in Seq(Cell) /\ OpeningCells(2) \in Seq(Cell)
      /\ OpeningCells(3) \in Seq(Cell) /\ OpeningCells(4) \in Seq(Cell)
      /\ OpeningCells(5) \in Seq(Cell) /\ OpeningCells(6) \in Seq(Cell)
  BY OpeningFields
<1>3. R5 \in Seq(Cell)
  BY <1>1, <1>2, ConcatFacts DEF R5
<1>4. R4 \in Seq(Cell)
  BY <1>2, <1>3, ConcatFacts DEF R4
<1>5. R3 \in Seq(Cell)
  BY <1>2, <1>4, ConcatFacts DEF R3
<1>6. R2 \in Seq(Cell)
  BY <1>2, <1>5, ConcatFacts DEF R2
<1>7. R1 \in Seq(Cell)
  BY <1>2, <1>6, ConcatFacts DEF R1
<1>8. R0 \in Seq(Cell)
  BY <1>2, <1>7, ConcatFacts DEF R0
<1> QED
  BY <1>1, <1>3, <1>4, <1>5, <1>6, <1>7, <1>8

LEMMA RestStep ==
    ASSUME NEW k \in 0..5
    PROVE  /\ Rest(k) = OpeningCells(k + 1) \o Rest(k + 1)
           /\ Rest(k) \in Seq(Cell) /\ Rest(k + 1) \in Seq(Cell)
<1>1. /\ Rest(0) = R0 /\ Rest(1) = R1 /\ Rest(2) = R2 /\ Rest(3) = R3
      /\ Rest(4) = R4 /\ Rest(5) = R5 /\ Rest(6) = << >>
  BY DEF Rest
<1>2. k = 0 \/ k = 1 \/ k = 2 \/ k = 3 \/ k = 4 \/ k = 5
  OBVIOUS
<1> DEFINE j == k + 1
<1>3. \/ k = 0 /\ j = 1
      \/ k = 1 /\ j = 2
      \/ k = 2 /\ j = 3
      \/ k = 3 /\ j = 4
      \/ k = 4 /\ j = 5
      \/ k = 5 /\ j = 6
  BY <1>2
<1> HIDE DEF j
<1>4. Rest(k) = OpeningCells(j) \o Rest(j) /\ Rest(k) \in Seq(Cell) /\ Rest(j) \in Seq(Cell)
  <2>1. k = 0 /\ j = 1 => Rest(k) = R0 /\ Rest(j) = R1 /\ R0 = OpeningCells(j) \o R1
    BY <1>1, Zenon DEF R0
  <2>2. k = 1 /\ j = 2 => Rest(k) = R1 /\ Rest(j) = R2 /\ R1 = OpeningCells(j) \o R2
    BY <1>1, Zenon DEF R1
  <2>3. k = 2 /\ j = 3 => Rest(k) = R2 /\ Rest(j) = R3 /\ R2 = OpeningCells(j) \o R3
    BY <1>1, Zenon DEF R2
  <2>4. k = 3 /\ j = 4 => Rest(k) = R3 /\ Rest(j) = R4 /\ R3 = OpeningCells(j) \o R4
    BY <1>1, Zenon DEF R3
  <2>5. k = 4 /\ j = 5 => Rest(k) = R4 /\ Rest(j) = R5 /\ R4 = OpeningCells(j) \o R5
    BY <1>1, Zenon DEF R4
  <2>6. k = 5 /\ j = 6 => Rest(k) = R5 /\ Rest(j) = << >> /\ R5 = OpeningCells(j) \o << >>
    BY <1>1, Zenon DEF R5
  <2> QED
    BY <1>3, <2>1, <2>2, <2>3, <2>4, <2>5, <2>6, RestTypes, Zenon
<1> QED
  BY <1>4 DEF j

LEMMA UncomposedType ==
    ASSUME NEW s
    PROVE  Uncomposed(s) \in Seq(Cell)
BY RestTypes DEF Uncomposed

-----------------------------------------------------------------------------
(* What the steps of a connection do to the flags.                         *)

SameFlags(t, s) ==
    /\ t.features_requested = s.features_requested /\ t.config_set = s.config_set
    /\ t.ports_requested = s.ports_requested /\ t.default_flow_set = s.default_flow_set

LEMMA SameUncomposed ==
    ASSUME NEW s, NEW t, SameFlags(t, s)
    PROVE  Uncomposed(t) = Uncomposed(s) /\ (FlagsInOrder(s) => FlagsInOrder(t))
BY DEF SameFlags, Uncomposed, FlagsInOrder

LEMMA WritersKeepFlags ==
    ASSUME NEW s \in of_switch, NEW m, NEW n
    PROVE  /\ SameFlags(Compose(s, m), s)
           /\ SameFlags(ComposeMore(s, m), s)
           /\ SameFlags(make_echo_reply(s, m), s)
           /\ SameFlags(write_to(s, n), s)
<1>1. SameFlags(Compose(s, m), s)
  BY Zenon DEF SameFlags, Compose, of_switch
<1>2. SameFlags(ComposeMore(s, m), s)
  BY Zenon DEF SameFlags, ComposeMore, of_switch
<1>3. SameFlags(make_echo_reply(s, m), s)
  BY Zenon DEF SameFlags, make_echo_reply, of_switch
<1>4. SameFlags(write_to(s, n), s)
  BY Zenon DEF SameFlags, write_to, of_switch
<1> QED
  BY <1>1, <1>2, <1>3, <1>4

LEMMA FlagSet ==
    ASSUME NEW s \in of_switch
    PROVE  /\ LET t == [s EXCEPT !.features_requested = TRUE]
              IN  /\ Pending(t) = Pending(s) /\ t.rw = s.rw /\ t.features_requested
                  /\ t.config_set = s.config_set
                  /\ t.ports_requested = s.ports_requested
                  /\ t.default_flow_set = s.default_flow_set
           /\ LET t == [s EXCEPT !.config_set = TRUE]
              IN  /\ Pending(t) = Pending(s) /\ t.rw = s.rw /\ t.config_set
                  /\ t.features_requested = s.features_requested
                  /\ t.ports_requested = s.ports_requested
                  /\ t.default_flow_set = s.default_flow_set
           /\ LET t == [s EXCEPT !.ports_requested = TRUE]
              IN  /\ Pending(t) = Pending(s) /\ t.rw = s.rw /\ t.ports_requested
                  /\ t.features_requested = s.features_requested
                  /\ t.config_set = s.config_set
                  /\ t.default_flow_set = s.default_flow_set
           /\ LET t == [s EXCEPT !.default_flow_set = TRUE]
              IN  /\ Pending(t) = Pending(s) /\ t.rw = s.rw /\ t.default_flow_set
                  /\ t.features_requested = s.features_requested
                  /\ t.config_set = s.config_set
                  /\ t.ports_requested = s.ports_requested
BY Zenon DEF of_switch, Pending

LEMMA NewSwitchSetup ==
    /\ FlagsInOrder(new_switch) /\ new_switch.rw = WRITE
    /\ Uncomposed(new_switch) = R1
<1> DEFINE s == [unused_switch EXCEPT !.rw = WRITE, !.bytes_expected = HDR,
                            !.reading_header = TRUE,
                            !.read_buffer = calloc(BUF),
                            !.write_buffer = calloc(BUF)]
<1>1. /\ ~s.features_requested /\ ~s.config_set /\ ~s.ports_requested
      /\ ~s.default_flow_set
  BY Zenon DEF unused_switch
<1>2. SameFlags(new_switch, s) /\ new_switch.rw = WRITE
  BY Zenon DEF new_switch, write_openflow_hello, SameFlags, unused_switch
<1> HIDE DEF s
<1> QED
  BY <1>1, <1>2, Zenon DEF SameFlags, FlagsInOrder, Uncomposed

(* Everything expected is written: what is composed now is the first of    *)
(* what was left, and reading begins only when nothing is.                 *)
LEMMA NextWriteSetup ==
    ASSUME NEW s0 \in of_switch, Allocated(s0), s0.bytes_expected = 0, FlagsInOrder(s0)
    PROVE  LET t == next_write(s0)
           IN  /\ Pending(t) \in Seq(Cell)
               /\ FlagsInOrder(t)
               /\ Pending(t) \o Uncomposed(t) = Uncomposed(s0)
               /\ t.rw # WRITE => Uncomposed(t) = << >>
<1> DEFINE wb == memset(s0.write_buffer)
           s == [s0 EXCEPT !.bytes_written = 0, !.write_buffer = wb]
           r == [s EXCEPT !.rw = READ, !.bytes_expected = HDR,
                          !.reading_header = TRUE, !.bytes_read = 0]
<1>1. 0 \in uint16_t
  BY DEF uint16_t
<1>2. wb \in Seq(Cell) /\ Len(wb) = BUF
  BY SizeFacts, CallocType DEF memset, Allocated
<1> HIDE DEF wb
<1>3. s \in of_switch
  BY <1>1, <1>2, Zenon DEF of_switch
<1>4. /\ s.bytes_written = 0 /\ s.write_buffer = wb
      /\ s.read_buffer = s0.read_buffer /\ s.bytes_expected = s0.bytes_expected
      /\ SameFlags(s, s0)
  BY Zenon DEF of_switch, SameFlags
<1>5. Ready(s) /\ s.bytes_expected = 0
  BY <1>2, <1>3, <1>4 DEF Ready, Allocated
<1> DEFINE t == next_write(s0)
           g1 == request_features(s)
           g2 == set_config(s)
           g3 == get_port_info(s)
           g4 == write_default_miss(write_default_miss(s))
           f1 == [g1 EXCEPT !.features_requested = TRUE]
           f2 == [g2 EXCEPT !.config_set = TRUE]
           f3 == [g3 EXCEPT !.ports_requested = TRUE]
           f4 == [g4 EXCEPT !.default_flow_set = TRUE]
<1>6. t = IF ~s.features_requested THEN f1
          ELSE IF ~s.config_set THEN f2
          ELSE IF ~s.ports_requested THEN f3
          ELSE IF ~s.default_flow_set THEN f4 ELSE r
  BY Zenon DEF next_write, wb
<1>7. r.rw = READ /\ SameFlags(r, s)
  BY <1>3, Zenon DEF of_switch, SameFlags
<1> HIDE DEF s, r, t
<1>8. {"FEATURES_REQUEST", "SET_CONFIG", "MULTIPART_REQUEST", "FLOW_MOD"} \subseteq MsgType
  BY DEF MsgType
<1>9. /\ g1 \in of_switch /\ g1.rw = WRITE /\ SameFlags(g1, s)
       /\ Pending(g1) = OpeningCells(2)
  BY <1>3, <1>5, <1>8, OwnFields, LoadOwn, WritersKeepFlags
     DEF request_features, OpeningCells, SetupTypes, Loaded
<1>10. /\ g2 \in of_switch /\ g2.rw = WRITE /\ SameFlags(g2, s)
       /\ Pending(g2) = OpeningCells(3)
  BY <1>3, <1>5, <1>8, OwnFields, LoadOwn, WritersKeepFlags
     DEF set_config, OpeningCells, SetupTypes, Loaded
<1>11. /\ g3 \in of_switch /\ g3.rw = WRITE /\ SameFlags(g3, s)
       /\ Pending(g3) = OpeningCells(4)
  BY <1>3, <1>5, <1>8, OwnFields, LoadOwn, WritersKeepFlags
     DEF get_port_info, OpeningCells, SetupTypes, Loaded
<1>12. g4 \in of_switch /\ g4.rw = WRITE /\ SameFlags(g4, s) /\ Pending(g4) = R4
  <2> DEFINE m == Own("FLOW_MOD")
             h == ComposeMore(s, m)
  <2>1. m \in Message /\ Cells(m) \in Seq(Cell)
    BY <1>8, OwnFields, CellsType
  <2>2. h \in of_switch /\ SameFlags(h, s)
    BY <1>3, <2>1, ComposeMoreFields, WritersKeepFlags
  <2>3. Loaded(g4) /\ Pending(g4) = Cells(m) \o Cells(m)
    BY <1>5, LoadTwo DEF write_default_miss
  <2>4. g4 = ComposeMore(h, m)
    BY DEF write_default_miss
  <2> HIDE DEF h, g4
  <2>5. SameFlags(g4, h)
    BY <2>2, <2>4, WritersKeepFlags
  <2>6. OpeningCells(5) = Cells(m) /\ OpeningCells(6) = Cells(m)
    BY DEF OpeningCells, SetupTypes
  <2> HIDE DEF m
  <2>7. R5 = Cells(m)
    BY <2>1, <2>6, ConcatEmptySeq DEF R5
  <2> QED
    BY <2>2, <2>3, <2>5, <2>6, <2>7 DEF R4, Loaded, SameFlags
<1>13. Uncomposed(s) = Uncomposed(s0) /\ FlagsInOrder(s)
  BY <1>4, SameUncomposed
<1> HIDE DEF g1, g2, g3, g4
<1>14. /\ Pending(f1) = Pending(g1) /\ f1.rw = g1.rw /\ f1.features_requested
       /\ f1.config_set = g1.config_set
       /\ f1.ports_requested = g1.ports_requested
       /\ f1.default_flow_set = g1.default_flow_set
  BY <1>9, FlagSet, Zenon
<1>15. /\ Pending(f2) = Pending(g2) /\ f2.rw = g2.rw /\ f2.config_set
       /\ f2.features_requested = g2.features_requested
       /\ f2.ports_requested = g2.ports_requested
       /\ f2.default_flow_set = g2.default_flow_set
  BY <1>10, FlagSet, Zenon
<1>16. /\ Pending(f3) = Pending(g3) /\ f3.rw = g3.rw /\ f3.ports_requested
       /\ f3.features_requested = g3.features_requested
       /\ f3.config_set = g3.config_set
       /\ f3.default_flow_set = g3.default_flow_set
  BY <1>11, FlagSet, Zenon
<1>17. /\ Pending(f4) = Pending(g4) /\ f4.rw = g4.rw /\ f4.default_flow_set
       /\ f4.features_requested = g4.features_requested
       /\ f4.config_set = g4.config_set
       /\ f4.ports_requested = g4.ports_requested
  BY <1>12, FlagSet, Zenon
<1> HIDE DEF f1, f2, f3, f4
<1> DEFINE Goal(x) == /\ Pending(x) \in Seq(Cell)
                      /\ FlagsInOrder(x)
                      /\ Pending(x) \o Uncomposed(x) = Uncomposed(s0)
                      /\ x.rw # WRITE => Uncomposed(x) = << >>
<1>18. CASE ~s.features_requested
  <2>1. Uncomposed(f1) = R2 /\ FlagsInOrder(f1) /\ Uncomposed(s) = R1
    BY <1>9, <1>13, <1>14, <1>18, Zenon DEF SameFlags, FlagsInOrder, Uncomposed
  <2>2. Goal(f1)
    BY <1>9, <1>13, <1>14, <2>1, OpeningFields DEF R1
  <2> QED
    BY <1>6, <1>18, <2>2 DEF t
<1>19. CASE s.features_requested /\ ~s.config_set
  <2>1. Uncomposed(f2) = R3 /\ FlagsInOrder(f2) /\ Uncomposed(s) = R2
    BY <1>10, <1>13, <1>15, <1>19, Zenon DEF SameFlags, FlagsInOrder, Uncomposed
  <2>2. Goal(f2)
    BY <1>10, <1>13, <1>15, <2>1, OpeningFields DEF R2
  <2> QED
    BY <1>6, <1>19, <2>2 DEF t
<1>20. CASE s.features_requested /\ s.config_set /\ ~s.ports_requested
  <2>1. Uncomposed(f3) = R4 /\ FlagsInOrder(f3) /\ Uncomposed(s) = R3
    BY <1>11, <1>13, <1>16, <1>20, Zenon DEF SameFlags, FlagsInOrder, Uncomposed
  <2>2. Goal(f3)
    BY <1>11, <1>13, <1>16, <2>1, OpeningFields DEF R3
  <2> QED
    BY <1>6, <1>20, <2>2 DEF t
<1>21. CASE /\ s.features_requested /\ s.config_set /\ s.ports_requested
            /\ ~s.default_flow_set
  <2>1. Uncomposed(f4) = << >> /\ FlagsInOrder(f4) /\ Uncomposed(s) = R4
    BY <1>12, <1>13, <1>17, <1>21, Zenon DEF SameFlags, FlagsInOrder, Uncomposed
  <2>2. R4 \in Seq(Cell) /\ R4 \o << >> = R4
    BY RestTypes, ConcatEmptySeq
  <2>3. Goal(f4)
    BY <1>12, <1>13, <1>17, <2>1, <2>2
  <2> QED
    BY <1>6, <1>21, <2>3 DEF t
<1>22. CASE /\ s.features_requested /\ s.config_set /\ s.ports_requested
            /\ s.default_flow_set
  <2>1. Uncomposed(r) = << >> /\ FlagsInOrder(r) /\ Uncomposed(s) = << >>
    BY <1>7, <1>13, <1>22, Zenon DEF SameFlags, FlagsInOrder, Uncomposed
  <2>2. Pending(r) = << >> /\ << >> \in Seq(Cell) /\ << >> \o << >> = << >>
    BY <1>7, Constants, NotWriting, RestTypes, ConcatEmptySeq
  <2>3. Goal(r)
    BY <1>13, <2>1, <2>2
  <2> QED
    BY <1>6, <1>22, <2>3 DEF t
<1> QED
  BY <1>18, <1>19, <1>20, <1>21, <1>22

(* What the controller will still send: what waits, and what it has not    *)
(* composed.                                                               *)
ToSend(s) == Pending(s) \o Uncomposed(s)

LEMMA ToSendType ==
    ASSUME NEW s \in of_switch, SwitchInv(s)
    PROVE  Pending(s) \in Seq(Cell) /\ Uncomposed(s) \in Seq(Cell) /\ ToSend(s) \in Seq(Cell)
<1>1. Pending(s) \in Seq(Cell)
  <2>1. CASE s.rw = WRITE
    BY <2>1, PendingFacts DEF SwitchInv, Fits
  <2>2. CASE s.rw # WRITE
    BY <2>2, NotWriting, EmptySeq
  <2> QED
    BY <2>1, <2>2
<1> QED
  BY <1>1, UncomposedType, ConcatFacts DEF ToSend

LEMMA NewSwitchToSend ==
    /\ ToSend(new_switch) = Rest(0) /\ Starts(Rest(0), Rest(0)) /\ Rest(0) \in Seq(Cell)
<1>1. Pending(new_switch) = OpeningCells(1) /\ Uncomposed(new_switch) = R1
  BY NewSwitchLoaded, NewSwitchSetup DEF OpeningCells, SetupTypes
<1>2. Rest(0) = R0
  BY DEF Rest
<1>3. ToSend(new_switch) = R0
  BY <1>1, Zenon DEF ToSend, R0
<1>4. R0 \in Seq(Cell)
  BY RestTypes
<1>5. Starts(R0, R0)
  BY <1>4, LenProperties DEF Starts
<1> QED
  BY <1>2, <1>3, <1>4, <1>5, Zenon

(* What a call of send takes and what is still to send are one stream.     *)
LEMMA WriteOut ==
    ASSUME NEW s \in of_switch, SwitchInv(s), s.rw = WRITE, FlagsInOrder(s),
           NEW n \in 1..s.bytes_expected
    PROVE  LET t == handle_write_socket(s, n)
               a == SubSeq(Pending(s), 1, n)
           IN  /\ a \in Seq(Cell) /\ ToSend(s) = a \o ToSend(t)
               /\ t \in of_switch /\ SwitchInv(t) /\ FlagsInOrder(t)
               /\ t.rw # WRITE => Uncomposed(t) = << >>
               /\ Received(t) = << >> /\ t.rw # DISCONNECTED
<1> DEFINE v == handle_write_socket(s, n)
           t == write_to(s, n)
           p == Pending(s)
           a == SubSeq(p, 1, n)
           q == Pending(t)
           L == Uncomposed(s)
<1>1. L \in Seq(Cell)
  BY UncomposedType
<1>2. /\ t \in of_switch /\ t.rw = WRITE /\ Allocated(t)
      /\ t.bytes_written = s.bytes_written + n
      /\ t.bytes_expected = s.bytes_expected - n
      /\ p \in Seq(Cell) /\ q \in Seq(Cell) /\ a \in Seq(Cell)
      /\ a \o q = p
  BY Send, Zenon
<1>3. SameFlags(t, s)
  BY WritersKeepFlags, Zenon
<1>4. Uncomposed(t) = L /\ FlagsInOrder(t)
  BY <1>3, SameUncomposed
<1>5. s.bytes_expected \in Nat /\ s.bytes_expected # 0 /\ s.bytes_written \in Nat /\ n \in Nat
  BY SwitchFields
<1>6. v = IF t.bytes_expected # 0 THEN t ELSE next_write(t)
  BY <1>5, Zenon DEF handle_write_socket
<1>7. t.bytes_written + t.bytes_expected <= Len(t.write_buffer)
  <2>1. s.bytes_written + s.bytes_expected <= Len(t.write_buffer)
    BY <1>2 DEF SwitchInv, Fits, Allocated
  <2> QED
    BY <1>2, <1>5, <2>1
<1>8. t.bytes_expected \in Nat
  BY <1>2, SwitchFields, Zenon
<1>9. ToSend(s) = p \o L
  BY DEF ToSend
<1> HIDE DEF t, p, a, q, L, v
<1>10. p \o L = a \o (q \o L)
  BY <1>1, <1>2, ConcatCells
<1>11. CASE t.bytes_expected # 0
  <2>1. v = t
    BY <1>6, <1>11
  <2>2. SwitchInv(t)
    BY <1>2, <1>7, <1>8, <1>11, Constants DEF SwitchInv, Exact, Fits
  <2>3. Received(t) = << >> /\ t.rw # DISCONNECTED
    BY <1>2, Constants, NotReading
  <2>4. ToSend(t) = q \o L
    BY <1>4 DEF ToSend, q
  <2> QED
    BY <1>2, <1>4, <1>9, <1>10, <2>1, <2>2, <2>3, <2>4 DEF v, a, p
<1>12. CASE t.bytes_expected = 0
  <2> DEFINE u == next_write(t)
  <2>1. /\ FlagsInOrder(u) /\ ToSend(u) = L
        /\ u.rw # WRITE => Uncomposed(u) = << >>
    BY <1>2, <1>4, <1>12, NextWriteSetup, Zenon DEF ToSend
  <2>2. v = u
    BY <1>6, <1>12
  <2>3. Loaded(u) \/ Fresh(u)
    BY <1>2, <1>12, NextWriteLoaded, Zenon
  <2> HIDE DEF u
  <2>4. /\ u \in of_switch /\ SwitchInv(u) /\ Received(u) = << >> /\ u.rw # DISCONNECTED
    BY <2>3, LoadedInv, FreshInv, Constants
  <2>5. q = << >>
    <3>1. Len(q) = 0
      BY <1>2, <1>7, <1>12, PendingFacts DEF q
    <3> QED
      BY <1>2, <3>1, EmptySeq
  <2>6. p \o L = a \o L
    BY <1>1, <1>10, <2>5, ConcatEmptySeq
  <2> QED
    BY <1>2, <1>9, <2>1, <2>2, <2>4, <2>6 DEF v, a, p
<1> QED
  BY <1>11, <1>12

(* As long as the setup is not complete, its next message is the next to   *)
(* arrive, x being still to be sent.                                       *)
LEMMA GetsNext ==
    ASSUME NEW k \in 0..5, NEW st \in Seq(Cell), NEW x \in Seq(Cell),
           Starts(st \o x, Rest(k)), st # << >>, st[1].msg.len <= Len(st)
    PROVE  LET m == st[1].msg
           IN  /\ m.type = SetupTypes[k + 1]
               /\ Starts(SubSeq(st, m.len + 1, Len(st)) \o x, Rest(k + 1))
<1> DEFINE m == st[1].msg
           c == OpeningCells(k + 1)
           o == Own(SetupTypes[k + 1])
           a == SubSeq(st, 1, m.len)
           b == SubSeq(st, m.len + 1, Len(st))
<1>1. k + 1 \in 1..6
  OBVIOUS
<1>2. Len(st) \in Nat /\ Len(st) >= 1 /\ 1 \in 1..Len(st)
  BY EmptySeq, LenProperties
<1>3. /\ Rest(k) = c \o Rest(k + 1) /\ Rest(k) \in Seq(Cell)
      /\ Rest(k + 1) \in Seq(Cell)
  BY RestStep
<1>4. /\ o.type = SetupTypes[k + 1] /\ o.len \in Nat /\ 1 <= o.len
      /\ c \in Seq(Cell) /\ Len(c) = o.len /\ c[1] = Piece(o, 1)
  BY <1>1, OpeningFields
<1> DEFINE r == Rest(k + 1)
<1> HIDE DEF c, o, r
<1>5. st[1] = c[1]
  <2>1. (st \o x)[1] = st[1]
    BY <1>2, ConcatFacts, Zenon
  <2>2. /\ 1 \in 1..Len(c) /\ Len(c \o r) = Len(c) + Len(r)
        /\ Len(r) \in Nat /\ (c \o r)[1] = c[1]
    <3>1. 1 \in 1..Len(c) /\ r \in Seq(Cell)
      BY <1>3, <1>4 DEF r
    <3> QED
      BY <1>4, <3>1, ConcatFacts, Zenon
  <2>3. 1 \in 1..Len(Rest(k)) /\ Rest(k)[1] = c[1]
    BY <1>3, <1>4, <2>2 DEF r
  <2>4. (st \o x)[1] = Rest(k)[1]
    BY <2>3, Zenon DEF Starts
  <2> QED
    BY <2>1, <2>3, <2>4
<1>6. m = o
  BY <1>4, <1>5, PieceFields
<1>7. m.len \in 1..Len(st)
  BY <1>2, <1>4, <1>6
<1>8. /\ a \in Seq(Cell) /\ Len(a) = m.len /\ b \in Seq(Cell) /\ a \o b = st
  BY <1>7, SplitSeq
<1> HIDE DEF a, b, m
<1>9. st \o x = a \o (b \o x) /\ b \o x \in Seq(Cell)
  <2>1. (a \o b) \o x = a \o (b \o x)
    BY <1>8, ConcatCells
  <2>2. b \o x \in Seq(Cell)
    BY <1>8, ConcatFacts
  <2> QED
    BY <1>8, <2>1, <2>2, Zenon
<1> DEFINE y == b \o x
<1>10. y \in Seq(Cell) /\ Starts(a \o y, c \o Rest(k + 1)) /\ Len(a) = Len(c)
  BY <1>3, <1>4, <1>6, <1>8, <1>9
<1> HIDE DEF y
<1>11. Starts(y, Rest(k + 1))
  BY <1>3, <1>4, <1>8, <1>10, StartsBehind, Zenon
<1> QED
  BY <1>4, <1>6, <1>11 DEF y, b, m

(* What a switch has got begins with the setup.                            *)
Ordered(log) ==
    \A i \in 1..Len(log) : i <= Len(SetupTypes) => log[i].type = SetupTypes[i]

LEMMA OrderedNext ==
    ASSUME NEW E, NEW log \in Seq(E), NEW n \in E, Ordered(log),
           Len(log) < 6 => n.type = SetupTypes[Len(log) + 1]
    PROVE  Ordered(Append(log, n))
<1> DEFINE k == Len(log)
           l == Append(log, n)
<1>1. /\ k \in Nat /\ Len(l) = k + 1 /\ l[k + 1] = n /\ \A i \in 1..k : l[i] = log[i]
  BY AppendProperties, LenProperties
<1>2. Len(SetupTypes) = 6
  BY DEF SetupTypes
<1> HIDE DEF l
<1>3. \A i \in 1..(k + 1) : i \in 1..k \/ i = k + 1
  BY <1>1
<1> QED
  BY <1>1, <1>2, <1>3 DEF Ordered, l
=============================================================================
