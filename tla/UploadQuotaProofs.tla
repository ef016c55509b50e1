---------------------------- MODULE UploadQuotaProofs ----------------------------
(***************************************************************************)
(* Proofs about the storage quota of a user, for any quota, contents,      *)
(* bookings, requests and number of changes.                               *)
(*                                                                         *)
(* A sum is the number of the bytes of its members, so that the facts of   *)
(* finite sets give those of sums.  The argument follows a request: what   *)
(* it reads under the lock of the user bounds what is used and booked      *)
(* (CountedInv), what it is admitted with is room that nobody takes before *)
(* it commits (AdmittedInv), and every step of anybody else at that time   *)
(* only lowers usage and bookings (Shrinks).                               *)
(***************************************************************************)
EXTENDS UploadQuota, FiniteSetTheorems, TLAPS

-----------------------------------------------------------------------------
(* Sums                                                                    *)

LEMMA BytesMember ==
    \A S, f, b : b \in Bytes(f, S) <=> \E x \in S : b \in BytesOf(f, x)
BY Zenon DEF Bytes

LEMMA BytesFinite ==
    ASSUME NEW S, IsFiniteSet(S), NEW f, \A x \in S : f[x] \in Nat
    PROVE  IsFiniteSet(Bytes(f, S)) /\ Sum(f, S) \in Nat
<1>. DEFINE part == [x \in S |-> BytesOf(f, x)]
            parts == {part[x] : x \in S}
<1>1. IsFiniteSet(parts)
  <2>1. part \in Surjection(S, parts)
    BY DEF Surjection
  <2>. HIDE DEF part, parts
  <2>. QED
    BY <2>1, FS_Surjection
<1>2. ASSUME NEW x \in S
      PROVE  IsFiniteSet(BytesOf(f, x))
  <2>1. IsFiniteSet({x})
    BY FS_Singleton, Zenon
  <2>2. f[x] \in Int
    OBVIOUS
  <2>3. IsFiniteSet(1 .. f[x])
    BY <2>2, FS_Interval
  <2>. QED
    BY <2>1, <2>3, FS_Product, Zenon DEF BytesOf
<1>3. \A T \in parts : IsFiniteSet(T)
  BY <1>2, Zenon
<1>. HIDE DEF parts
<1>4. IsFiniteSet(UNION parts)
  BY <1>1, <1>3, FS_UNION
<1>5. Bytes(f, S) = UNION parts
  BY DEF Bytes, parts
<1>. QED
  BY <1>4, <1>5, FS_CardinalityType DEF Sum

LEMMA SumSame ==
    ASSUME NEW S, NEW f, NEW g, \A x \in S : f[x] = g[x]
    PROVE  Sum(f, S) = Sum(g, S)
<1>1. \A x \in S : BytesOf(f, x) = BytesOf(g, x)
  BY DEF BytesOf
<1>2. \A b : b \in Bytes(f, S) <=> b \in Bytes(g, S)
  <2>1. \A b : b \in Bytes(f, S) <=> \E x \in S : b \in BytesOf(f, x)
    BY BytesMember, Zenon
  <2>2. \A b : b \in Bytes(g, S) <=> \E x \in S : b \in BytesOf(g, x)
    BY BytesMember, Zenon
  <2>. QED
    BY ONLY <1>1, <2>1, <2>2, Zenon
<1>3. Bytes(f, S) = Bytes(g, S)
  BY <1>2, Zenon
<1>. QED
  BY <1>3, Zenon DEF Sum

LEMMA SumSubset ==
    ASSUME NEW S, IsFiniteSet(S), NEW f, \A x \in S : f[x] \in Nat, NEW T \in SUBSET S
    PROVE  Sum(f, T) \in Nat /\ Sum(f, T) <= Sum(f, S)
<1>1. Bytes(f, T) \subseteq Bytes(f, S)
  BY DEF Bytes
<1>2. IsFiniteSet(T)
  BY FS_Subset
<1>. QED
  BY <1>1, <1>2, BytesFinite, FS_Subset DEF Sum

LEMMA SumUnion ==
    ASSUME NEW S, IsFiniteSet(S), NEW T, IsFiniteSet(T), S \cap T = {},
           NEW U, U = S \cup T, NEW f, \A x \in U : f[x] \in Nat
    PROVE  Sum(f, U) = Sum(f, S) + Sum(f, T)
<1>. DEFINE BS == Bytes(f, S)
            BT == Bytes(f, T)
            BU == Bytes(f, U)
<1>1. /\ IsFiniteSet(BS) /\ Cardinality(BS) \in Nat
      /\ IsFiniteSet(BT) /\ Cardinality(BT) \in Nat
  BY BytesFinite DEF Sum
<1>2. \A b : b \in BS <=> \E x \in S : b \in BytesOf(f, x)
  BY BytesMember, Zenon
<1>9. \A b : b \in BT <=> \E x \in T : b \in BytesOf(f, x)
  BY BytesMember, Zenon
<1>10. \A b : b \in BU <=> \E x \in U : b \in BytesOf(f, x)
  BY BytesMember, Zenon
<1>3. Sum(f, U) = Cardinality(BU) /\ Sum(f, S) = Cardinality(BS) /\ Sum(f, T) = Cardinality(BT)
  BY Zenon DEF Sum
<1>. HIDE DEF BS, BT, BU
<1>4. BU = BS \cup BT
  <2>1. \A x : x \in U <=> x \in S \/ x \in T
    OBVIOUS
  <2>2. \A b : b \in BU <=> b \in BS \/ b \in BT
    BY <1>2, <1>9, <1>10, <2>1, Zenon
  <2>. QED
    BY <2>2, Zenon
<1>5. BS \cap BT = {}
  <2>. SUFFICES ASSUME NEW b \in BS, b \in BT
                PROVE  FALSE
    OBVIOUS
  <2>1. PICK x \in S : b \in BytesOf(f, x)
    BY <1>2, Zenon
  <2>2. PICK y \in T : b \in BytesOf(f, y)
    BY <1>9, Zenon
  <2>. QED
    BY <2>1, <2>2 DEF BytesOf
<1>6. Cardinality(BS \cup BT) = Cardinality(BS) + Cardinality(BT) - Cardinality(BS \cap BT)
  BY <1>1, FS_Union
<1>7. Cardinality(BU) = Cardinality(BS \cup BT)
  BY <1>4, Zenon
<1>8. Cardinality(BS \cap BT) = 0
  <2>1. Cardinality(BS \cap BT) = Cardinality({})
    BY <1>5, Zenon
  <2>. QED
    BY <2>1, FS_EmptySet
<1>. QED
  BY ONLY <1>1, <1>3, <1>6, <1>7, <1>8

LEMMA SumSingle ==
    ASSUME NEW f, NEW x, NEW n \in Nat, f[x] = n
    PROVE  Sum(f, {x}) = n
<1>. DEFINE one == {x}
            I == 1 .. n
            B == Bytes(f, one)
<1>1. Sum(f, {x}) = Cardinality(B)
  BY Zenon DEF Sum
<1>2. \A b : b \in B <=> \E y \in one : b \in BytesOf(f, y)
  BY BytesMember, Zenon
<1>3. IsFiniteSet(one) /\ Cardinality(one) = 1
  BY FS_Singleton, Zenon
<1>4. IsFiniteSet(I) /\ Cardinality(I) = n
  BY FS_Interval
<1>5. \A y : y \in one <=> y = x
  OBVIOUS
<1>6. \A y \in one : BytesOf(f, y) = one \X I
  BY DEF BytesOf
<1>. HIDE DEF B, one, I
<1>7. B = one \X I
  <2>1. \A b : b \in B <=> b \in one \X I
    BY <1>2, <1>5, <1>6, Zenon
  <2>. QED
    BY <2>1, Zenon
<1>8. Cardinality(one \X I) = Cardinality(one) * Cardinality(I)
  BY <1>3, <1>4, FS_Product
<1>9. Cardinality(B) = Cardinality(one \X I)
  BY <1>7, Zenon
<1>. QED
  BY ONLY <1>1, <1>3, <1>4, <1>8, <1>9, n \in Nat

LEMMA SumAdd ==
    ASSUME NEW S, IsFiniteSet(S), NEW x, x \notin S, NEW U, U = S \cup {x},
           NEW f, \A y \in U : f[y] \in Nat
    PROVE  Sum(f, U) = Sum(f, S) + f[x]
<1>. DEFINE T == {x}
<1>1. IsFiniteSet(T)
  BY FS_Singleton, Zenon
<1>2. S \cap T = {} /\ U = S \cup T /\ f[x] \in Nat
  OBVIOUS
<1>3. Sum(f, T) = f[x]
  BY <1>2, SumSingle
<1>. HIDE DEF T
<1>4. Sum(f, U) = Sum(f, S) + Sum(f, T)
  BY <1>1, <1>2, SumUnion
<1>. QED
  BY <1>3, <1>4

-----------------------------------------------------------------------------
(* Amounts                                                                 *)

LEMMA SizeNat == \A c \in Content : Size[c] \in Nat
BY ConstantsAssumption

LEMMA OwnedFinite ==
    ASSUME NEW rw \in [Row -> Content \cup {NoContent}]
    PROVE  /\ IsFiniteSet({rw[r] : r \in Row} \ {NoContent})
           /\ {rw[r] : r \in Row} \ {NoContent} \subseteq Content
<1>. DEFINE T == {rw[r] : r \in Row}
<1>1. rw \in Surjection(Row, T)
  BY DEF Surjection
<1>2. IsFiniteSet(T)
  <2>. HIDE DEF T
  <2>. QED
    BY <1>1, FS_Surjection, ConstantsAssumption
<1>3. IsFiniteSet(T \ {NoContent})
  <2>. HIDE DEF T
  <2>. QED
    BY <1>2, FS_Difference
<1>. QED
  BY <1>3

(* Amounts are numbers.                                                    *)
AmountsOK ==
    /\ IsFiniteSet(Owned) /\ Owned \subseteq Content
    /\ IsFiniteSet(LiveBookings) /\ LiveBookings \subseteq Booking
    /\ Used \in Nat /\ Reserved \in Nat /\ NetUsed \in Nat
    /\ \A p \in Request : Others(p) \in Nat
    /\ \A past : ReservedAt(past) \in Nat

LEMMA Amounts == ValuesOK => AmountsOK
<1>. SUFFICES ASSUME ValuesOK
              PROVE  AmountsOK
  OBVIOUS
<1>1. IsFiniteSet(Owned) /\ Owned \subseteq Content
  BY OwnedFinite DEF ValuesOK, Owned
<1>2. \A S \in SUBSET Owned : Sum(Size, S) \in Nat
  BY <1>1, SumSubset, SizeNat
<1>3. booked \in [Booking -> Nat]
  BY DEF ValuesOK
<1>4. \A S \in SUBSET Booking : IsFiniteSet(S) /\ Sum(booked, S) \in Nat
  BY <1>3, SumSubset, FS_Subset, ConstantsAssumption
<1>. QED
  BY <1>1, <1>2, <1>4 DEF AmountsOK, Used, Reserved, NetUsed, Net, Others, ReservedAt, LiveBookings

LEMMA AmountsNext ==
    ValuesOK' =>
       /\ IsFiniteSet(Owned') /\ Owned' \subseteq Content
       /\ IsFiniteSet(LiveBookings') /\ LiveBookings' \subseteq Booking
       /\ Used' \in Nat /\ Reserved' \in Nat /\ NetUsed' \in Nat
<1>1. (ValuesOK => AmountsOK)'
  BY Amounts, PTL
<1>. QED
  BY <1>1 DEF AmountsOK

(* What exceeds the quota without being explained by a copy.               *)
LEMMA OverIs ==
    ValuesOK =>
       Over = IF quota = 0 THEN 0 ELSE Excess(NetUsed + Reserved - quota)
<1>. SUFFICES ASSUME ValuesOK
              PROVE  Over = IF quota = 0 THEN 0 ELSE Excess(NetUsed + Reserved - quota)
  OBVIOUS
<1>. DEFINE R == returned \cap Owned
<1>1. IsFiniteSet(Net) /\ IsFiniteSet(R) /\ Net \cap R = {} /\ Owned = Net \cup R
      /\ \A c \in Owned : Size[c] \in Nat
  BY Amounts, FS_Subset, SizeNat DEF AmountsOK, Net
<1>. HIDE DEF R
<1>2. Sum(Size, Owned) = Sum(Size, Net) + Sum(Size, R)
  BY <1>1, SumUnion
<1>3. Sum(Size, R) \in Nat /\ Sum(Size, Net) \in Nat
  BY <1>1, BytesFinite
<1>4. Used = Sum(Size, Owned) /\ NetUsed = Sum(Size, Net)
      /\ Over = IF quota = 0 THEN 0 ELSE Excess(Used + Reserved - quota - Sum(Size, R))
  BY Zenon DEF Used, NetUsed, Over, R
<1>5. Reserved \in Nat /\ (quota # 0 => quota \in Nat)
  BY Amounts, ConstantsAssumption DEF AmountsOK, ValuesOK
<1>6. CASE quota = 0
  BY <1>4, <1>6
<1>7. CASE quota # 0
  <2>1. Used + Reserved - quota - Sum(Size, R) = NetUsed + Reserved - quota
    BY <1>2, <1>3, <1>4, <1>5, <1>7
  <2>. QED
    BY <1>4, <1>7, <2>1
<1>. QED
  BY <1>6, <1>7

LEMMA OverNext ==
    ValuesOK' =>
       Over' = IF quota' = 0 THEN 0 ELSE Excess(NetUsed' + Reserved' - quota')
<1>1. (ValuesOK => Over = IF quota = 0 THEN 0 ELSE Excess(NetUsed + Reserved - quota))'
  BY OverIs, PTL
<1>. QED
  BY <1>1 DEF Excess

(* Sums of what a step leaves.                                             *)
LEMMA NetLess ==
    ASSUME ValuesOK, NEW S \in SUBSET Net
    PROVE  Sum(Size, S) \in Nat /\ Sum(Size, S) <= NetUsed
<1>1. IsFiniteSet(Net) /\ \A c \in Net : Size[c] \in Nat
  BY Amounts, FS_Subset, SizeNat DEF AmountsOK, Net
<1>. QED
  BY <1>1, SumSubset DEF NetUsed

LEMMA NetOneMore ==
    ASSUME ValuesOK, NEW c \in Content, NEW S \in SUBSET (Net \cup {c})
    PROVE  Sum(Size, S) <= NetUsed + Size[c]
<1>1. IsFiniteSet(Net) /\ Net \subseteq Content /\ NetUsed = Sum(Size, Net) /\ NetUsed \in Nat
  BY Amounts, FS_Subset DEF AmountsOK, Net, NetUsed
<1>. DEFINE U == Net \cup {c}
<1>2. IsFiniteSet(U) /\ U \subseteq Content
  BY <1>1, FS_AddElement
<1>3. Sum(Size, U) <= NetUsed + Size[c]
  <2>1. CASE c \in Net
    <3>1. U = Net
      BY <2>1
    <3>2. Sum(Size, U) = Sum(Size, Net)
      BY <3>1, Zenon
    <3>. QED
      BY <1>1, <3>2, SizeNat
  <2>2. CASE c \notin Net
    <3>. HIDE DEF U
    <3>1. U = Net \cup {c}
      BY DEF U
    <3>2. Sum(Size, U) = Sum(Size, Net) + Size[c]
      BY <1>1, <1>2, <2>2, <3>1, SumAdd, SizeNat
    <3>. QED
      BY <1>1, <3>2, SizeNat
  <2>. QED
    BY <2>1, <2>2
<1>4. S \in SUBSET U
  OBVIOUS
<1>. HIDE DEF U
<1>5. Sum(Size, S) \in Nat /\ Sum(Size, S) <= Sum(Size, U) /\ Sum(Size, U) \in Nat
  BY <1>2, <1>4, SumSubset, BytesFinite, SizeNat
<1>. QED
  BY <1>1, <1>3, <1>5, SizeNat

(* What the bookings in L book after a step that changes none of them.     *)
LEMMA BookedLess ==
    ASSUME ValuesOK, NEW p \in Request, NEW L, NEW f, f \in [Booking -> Nat],
           L \subseteq LiveBookings \ {who[p]}, \A b \in L : f[b] = booked[b]
    PROVE  Sum(f, L) \in Nat /\ Sum(f, L) <= Others(p)
<1>. DEFINE O == LiveBookings \ {who[p]}
<1>1. IsFiniteSet(O) /\ \A b \in O : booked[b] \in Nat
  BY Amounts, FS_Subset DEF AmountsOK, ValuesOK
<1>2. Others(p) = Sum(booked, O)
  BY Zenon DEF Others
<1>3. L \in SUBSET O
  OBVIOUS
<1>. HIDE DEF O
<1>4. Sum(f, L) = Sum(booked, L)
  BY SumSame
<1>5. Sum(booked, L) \in Nat /\ Sum(booked, L) <= Sum(booked, O)
  BY <1>1, <1>3, SumSubset
<1>. QED
  BY <1>2, <1>4, <1>5

LEMMA ReservedLess ==
    ASSUME ValuesOK, NEW L \in SUBSET LiveBookings, NEW f, \A b \in L : f[b] = booked[b]
    PROVE  Sum(f, L) \in Nat /\ Sum(f, L) <= Reserved
<1>1. IsFiniteSet(LiveBookings) /\ \A b \in LiveBookings : booked[b] \in Nat
  BY Amounts DEF AmountsOK, ValuesOK
<1>2. Sum(f, L) = Sum(booked, L)
  BY SumSame
<1>3. Sum(booked, L) \in Nat /\ Sum(booked, L) <= Sum(booked, LiveBookings)
  BY <1>1, SumSubset
<1>. QED
  BY <1>2, <1>3 DEF Reserved

(* A request that books n bytes, or closes its booking (n = 0).            *)
LEMMA BookedByOne ==
    ASSUME ValuesOK, NEW p \in Request, NEW L \in SUBSET Booking, NEW f \in [Booking -> Nat],
           NEW n \in Nat, L \ {who[p]} \subseteq LiveBookings,
           \A b \in L : f[b] = IF b = who[p] THEN n ELSE booked[b]
    PROVE  Sum(f, L) <= Others(p) + n
<1>. DEFINE R == L \ {who[p]}
<1>1. R \subseteq LiveBookings \ {who[p]} /\ \A b \in R : f[b] = booked[b]
  OBVIOUS
<1>2. IsFiniteSet(R)
  BY <1>1, Amounts, FS_Subset DEF AmountsOK
<1>3. L = R \/ (who[p] \notin R /\ L = R \cup {who[p]} /\ f[who[p]] = n)
  OBVIOUS
<1>. HIDE DEF R
<1>4. Sum(f, R) \in Nat /\ Sum(f, R) <= Others(p)
  BY <1>1, BookedLess
<1>5. Others(p) \in Nat
  BY Amounts DEF AmountsOK
<1>6. CASE L = R
  <2>1. Sum(f, L) = Sum(f, R)
    BY <1>6, Zenon
  <2>. QED
    BY <1>4, <1>5, <2>1
<1>7. CASE who[p] \notin R /\ L = R \cup {who[p]} /\ f[who[p]] = n
  <2>1. Sum(f, L) = Sum(f, R) + f[who[p]]
    BY <1>2, <1>7, SumAdd
  <2>. QED
    BY <1>4, <1>5, <1>7, <2>1
<1>. QED
  BY <1>3, <1>6, <1>7

-----------------------------------------------------------------------------
(* Types                                                                   *)

(* A request ends, and what a step leaves of another one.                  *)
Forgotten(p) ==
    /\ pc'[p] = "idle" /\ op'[p] = "upload" /\ what'[p] = NoContent
    /\ who'[p] = NoBooking /\ gone'[p] = {} /\ seen'[p] = NothingSeen /\ need'[p] = 0

Same(q) ==
    /\ pc'[q] = pc[q] /\ op'[q] = op[q] /\ what'[q] = what[q]
    /\ who'[q] = who[q] /\ gone'[q] = gone[q] /\ seen'[q] = seen[q] /\ need'[q] = need[q]

(* The variables of the requests have their types.                         *)
RequestsOK ==
    /\ pc \in [Request -> {"idle", "begun", "session", "counted", "admitted",
                           "copying"}]
    /\ op \in [Request -> {"upload", "create", "resume", "declare", "finish", "hold",
                           "commit"}]
    /\ what \in [Request -> Content \cup {NoContent}]
    /\ who \in [Request -> Booking \cup {NoBooking}]
    /\ gone \in [Request -> SUBSET Booking]
    /\ seen \in [Request -> [used : Nat, reserved : Nat, clean : BOOLEAN]]
    /\ need \in [Request -> Nat]

BookingsOK ==
    /\ status \in [Booking -> {"none", "active", "closed"}]
    /\ content \in [Booking -> Content]
    /\ declared \in [Session -> BOOLEAN]
    /\ booked \in [Booking -> Nat]
    /\ expired \subseteq Booking

RowsOK == row \in [Row -> Content \cup {NoContent}] /\ returned \subseteq Content

AdminOK == quota \in Quotas /\ changes \in 0..MaxChanges

LEMMA ValuesParts == ValuesOK <=> RequestsOK /\ BookingsOK /\ RowsOK /\ AdminOK
BY DEF ValuesOK, RequestsOK, BookingsOK, RowsOK, AdminOK

LEMMA ForgetEffect ==
    ASSUME ValuesOK, NEW p \in Request, Forget(p)
    PROVE  RequestsOK' /\ Forgotten(p) /\ \A q \in Request \ {p} : Same(q)
BY DEF ValuesOK, RequestsOK, Forget, Forgotten, Same, NothingSeen

(* The types of what a step leaves unchanged.                              *)
LEMMA KeptTypes ==
    ASSUME ValuesOK
    PROVE  /\ UNCHANGED request => RequestsOK' /\ \A q \in Request : Same(q)
           /\ UNCHANGED bookings => BookingsOK'
           /\ UNCHANGED rows => RowsOK'
           /\ UNCHANGED admin => AdminOK'
BY DEF ValuesOK, RequestsOK, BookingsOK, RowsOK, AdminOK, Same, request, bookings, rows, admin

LEMMA NextTypes ==
    ASSUME RequestsOK', BookingsOK', RowsOK', AdminOK'
    PROVE  ValuesOK'
BY DEF ValuesOK, RequestsOK, BookingsOK, RowsOK, AdminOK

LEMMA CloseEffect ==
    ASSUME ValuesOK, NEW b \in Booking, Close(b)
    PROVE  /\ BookingsOK'
           /\ status'[b] = "closed" /\ booked'[b] = 0 /\ expired' = expired \ {b}
           /\ \A d \in Booking \ {b} : status'[d] = status[d] /\ booked'[d] = booked[d]
           /\ content' = content
BY DEF ValuesOK, BookingsOK, Close

LEMMA BookEffect ==
    ASSUME ValuesOK, NEW b \in Booking, NEW n \in Nat, Book(b, n)
    PROVE  /\ (declared' \in [Session -> BOOLEAN] => BookingsOK')
           /\ status'[b] = "active" /\ booked'[b] = n
           /\ \A d \in Booking \ {b} : status'[d] = status[d] /\ booked'[d] = booked[d]
           /\ content' = content /\ expired' = expired
BY DEF ValuesOK, BookingsOK, Book

LEMMA RebuiltEffect ==
    ASSUME ValuesOK, NEW q, booked' = Rebuilt(q),
           UNCHANGED <<status, content, declared, expired>>
    PROVE  BookingsOK' /\ \A b \in Hold : booked'[b] = booked[b]
<1>. DEFINE counts(b) == b \in Session /\ Live(b) /\ q > 0
                            /\ ~(declared[b] /\ content[b] \in Owned)
            amount(b) == CASE b \in Hold -> booked[b]
                           [] counts(b) -> Size[content[b]]
                           [] OTHER -> 0
<1>1. Rebuilt(q) = [b \in Booking |-> amount(b)]
  BY Zenon DEF Rebuilt
<1>2. ASSUME NEW b \in Booking
      PROVE  amount(b) \in Nat /\ (b \in Hold => amount(b) = booked[b])
  <2>1. booked[b] \in Nat /\ Size[content[b]] \in Nat
    BY SizeNat DEF ValuesOK
  <2>2. CASE b \in Hold
    BY <2>1, <2>2, ConstantsAssumption
  <2>3. CASE b \notin Hold
    <3>. HIDE DEF counts
    <3>. QED
      BY <2>1, <2>3
  <2>. QED
    BY <2>2, <2>3
<1>. HIDE DEF amount
<1>3. Rebuilt(q) \in [Booking -> Nat] /\ \A b \in Hold : Rebuilt(q)[b] = booked[b]
  BY <1>1, <1>2 DEF Booking
<1>. QED
  BY <1>3 DEF ValuesOK, BookingsOK

(* The booking and the content of a request.                               *)
LEMMA Works ==
    ASSUME ValuesOK, NEW p \in Request, RequestInv(p)
    PROVE  /\ pc[p] # "idle" => what[p] \in Content
           /\ op[p] # "upload" => who[p] \in Booking /\ what[p] = content[who[p]]
           /\ op[p] \in {"hold", "commit"} <=> who[p] \in Hold
           /\ op[p] \in {"create", "resume", "declare", "finish"} <=> who[p] \in Session
           /\ who[p] \notin Session \cap Hold
BY ConstantsAssumption DEF ValuesOK, RequestInv, Booking

LEMMA AddRowEffect ==
    ASSUME ValuesOK, NEW p \in Request, what[p] \in Content, AddRow(p)
    PROVE  RowsOK' /\ Owned' = Owned \cup {what[p]}
           /\ returned' = IF need[p] = 0 THEN returned ELSE returned \ {what[p]}
<1>1. PICK r \in Row : row[r] = NoContent /\ row' = [row EXCEPT ![r] = what[p]]
  BY DEF AddRow
<1>2. RowsOK'
  BY <1>1 DEF ValuesOK, RowsOK, AddRow
<1>3. Owned' = Owned \cup {what[p]}
  <2>1. row'[r] = what[p] /\ \A s \in Row \ {r} : row'[s] = row[s]
    BY <1>1 DEF ValuesOK
  <2>2. what[p] # NoContent
    BY ConstantsAssumption
  <2>. QED
    BY <1>1, <2>1, <2>2 DEF Owned
<1>. QED
  BY <1>2, <1>3 DEF AddRow

(* What a request does before it commits changes no other request.         *)
LEMMA BeginEffect ==
    ASSUME ValuesOK, NEW p \in Request, NEW o, NEW c \in Content,
           NEW b \in Booking \cup {NoBooking},
           o \in {"upload", "create", "resume", "declare", "finish", "hold", "commit"},
           Begin(p, o, c, b)
    PROVE  /\ RequestsOK' /\ \A q \in Request \ {p} : Same(q)
           /\ pc'[p] = "begun" /\ op'[p] = o /\ what'[p] = c /\ who'[p] = b
           /\ gone'[p] = expired
BY DEF ValuesOK, RequestsOK, Same, Begin, Goto

LEMMA LockSessionEffect ==
    ASSUME ValuesOK, NEW p \in Request, LockSession(p)
    PROVE  /\ RequestsOK' /\ \A q \in Request \ {p} : Same(q)
           /\ pc'[p] = "session" /\ op' = op /\ what' = what /\ who' = who /\ gone' = gone
BY DEF ValuesOK, RequestsOK, Same, LockSession, Goto

LEMMA LockUserEffect ==
    ASSUME ValuesOK, NEW p \in Request, LockUser(p)
    PROVE  /\ RequestsOK' /\ \A q \in Request \ {p} : Same(q)
           /\ pc'[p] = "counted" /\ op' = op /\ what' = what /\ who' = who /\ gone'[p] = {}
           /\ seen'[p].used = Used /\ seen'[p].reserved = ReservedAt(gone[p])
           /\ seen'[p].clean = (/\ excuse = 0 /\ returned \cap Owned = {}
                                /\ expired \subseteq gone[p])
<1>. DEFINE record == [used |-> Used, reserved |-> ReservedAt(gone[p]),
                       clean |-> /\ excuse = 0 /\ returned \cap Owned = {}
                                 /\ expired \subseteq gone[p]]
<1>1. Used \in Nat /\ ReservedAt(gone[p]) \in Nat
  BY Amounts DEF AmountsOK
<1>2. record \in [used : Nat, reserved : Nat, clean : BOOLEAN]
  BY <1>1
<1>3. seen' = [seen EXCEPT ![p] = record]
  BY Zenon DEF LockUser
<1>4. /\ record.used = Used /\ record.reserved = ReservedAt(gone[p])
      /\ record.clean = (/\ excuse = 0 /\ returned \cap Owned = {}
                         /\ expired \subseteq gone[p])
  OBVIOUS
<1>. HIDE DEF record
<1>5. seen' \in [Request -> [used : Nat, reserved : Nat, clean : BOOLEAN]]
      /\ seen'[p] = record /\ \A q \in Request \ {p} : seen'[q] = seen[q]
  BY <1>2, <1>3 DEF ValuesOK
<1>6. pc' = [pc EXCEPT ![p] = "counted"] /\ gone' = [gone EXCEPT ![p] = {}]
      /\ UNCHANGED <<op, what, who, need>>
  BY DEF LockUser, Goto
<1>. QED
  BY <1>4, <1>5, <1>6 DEF ValuesOK, RequestsOK, Same

LEMMA AdditionalIs ==
    ASSUME ValuesOK, NEW p \in Request, what[p] \in Content
    PROVE  /\ Additional(p) = Size[what[p]] \/ (Additional(p) = 0 /\ what[p] \in Owned)
           /\ Additional(p) \in Nat
BY SizeNat DEF Additional

LEMMA AdmitEffect ==
    ASSUME ValuesOK, NEW p \in Request, what[p] \in Content, Admit(p)
    PROVE  /\ RequestsOK' /\ \A q \in Request \ {p} : Same(q)
           /\ pc'[p] = "admitted" /\ op' = op /\ what' = what /\ who' = who /\ gone' = gone
           /\ need'[p] = IF quota = 0 THEN 0 ELSE Additional(p)
BY AdditionalIs DEF ValuesOK, RequestsOK, Same, Admit, Goto, NothingSeen

LEMMA CopyReadsEffect ==
    ASSUME ValuesOK, NEW p \in Request, NEW r \in Row, CopyReads(p, r)
    PROVE  /\ RequestsOK' /\ \A q \in Request \ {p} : Same(q)
           /\ pc'[p] = "copying" /\ op' = op /\ what'[p] \in Content
           /\ who' = who /\ gone' = gone
BY DEF ValuesOK, RequestsOK, Same, CopyReads, Goto

LEMMA CopyCommitsEffect ==
    ASSUME ValuesOK, NEW p \in Request, what[p] \in Content, CopyCommits(p)
    PROVE  /\ RowsOK' /\ Owned' = Owned \cup {what[p]}
           /\ returned' = returned \cup ({what[p]} \ Owned)
<1>1. PICK r \in Row : row[r] = NoContent /\ row' = [row EXCEPT ![r] = what[p]]
  BY DEF CopyCommits
<1>2. RowsOK'
  BY <1>1 DEF ValuesOK, RowsOK, CopyCommits
<1>3. row'[r] = what[p] /\ \A s \in Row \ {r} : row'[s] = row[s]
  BY <1>1 DEF ValuesOK
<1>4. Owned' = Owned \cup {what[p]}
  BY <1>1, <1>3, ConstantsAssumption DEF Owned
<1>. QED
  BY <1>2, <1>4 DEF CopyCommits

LEMMA PurgeEffect ==
    ASSUME ValuesOK, NEW rs \in SUBSET Row, Purge(rs)
    PROVE  RowsOK' /\ Owned' \subseteq Owned /\ returned' = returned
<1>1. \A r \in Row : row'[r] = IF r \in rs THEN NoContent ELSE row[r]
  BY DEF Purge
<1>2. Owned' \subseteq Owned
  BY <1>1 DEF Owned
<1>. QED
  BY <1>2 DEF ValuesOK, RowsOK, Purge

(* The values stay typed.                                                  *)
LEMMA ValuesStep == ValuesOK /\ ControlInv /\ Step => ValuesOK'
<1>. SUFFICES ASSUME ValuesOK, ControlInv, Step
              PROVE  ValuesOK'
  OBVIOUS
<1>1. \A p \in Request : RequestInv(p)
  BY DEF ControlInv
<1>2. ASSUME NEW p \in Request,
             NEW o \in {"create", "resume", "declare", "finish", "hold", "commit"},
             NEW b \in Booking, Begin(p, o, content[b], b)
      PROVE  ValuesOK'
  <2>1. content[b] \in Content
    BY DEF ValuesOK
  <2>. QED
    BY <1>2, <2>1, BeginEffect, KeptTypes, NextTypes DEF Begin
<1>3. ASSUME NEW p \in Request, NEW c \in Content, Begin(p, "upload", c, NoBooking)
      PROVE  ValuesOK'
  BY <1>3, BeginEffect, KeptTypes, NextTypes DEF Begin
<1>4. ASSUME NEW p \in Request, LockSession(p)
      PROVE  ValuesOK'
  BY <1>4, LockSessionEffect, KeptTypes, NextTypes DEF LockSession
<1>5. ASSUME NEW p \in Request, LockUser(p)
      PROVE  ValuesOK'
  BY <1>5, LockUserEffect, KeptTypes, NextTypes DEF LockUser
<1>6. ASSUME NEW p \in Request, Admit(p)
      PROVE  ValuesOK'
  BY <1>1, <1>6, Works, AdmitEffect, KeptTypes, NextTypes DEF Admit
<1>7. ASSUME NEW p \in Request, Abort(p)
      PROVE  ValuesOK'
  BY <1>7, ForgetEffect, KeptTypes, NextTypes DEF Abort
<1>8. ASSUME NEW p \in Request, CommitUpload(p)
      PROVE  ValuesOK'
  BY <1>1, <1>8, Works, AddRowEffect, ForgetEffect, KeptTypes, NextTypes DEF CommitUpload
<1>9. ASSUME NEW p \in Request, CommitCreate(p)
      PROVE  ValuesOK'
  <2>1. who[p] \in Booking /\ need[p] \in Nat /\ declared' \in [Session -> BOOLEAN]
    BY <1>1, <1>9, Works DEF CommitCreate, ValuesOK
  <2>. QED
    BY <1>9, <2>1, BookEffect, ForgetEffect, KeptTypes, NextTypes DEF CommitCreate
<1>10. ASSUME NEW p \in Request, CommitResume(p)
       PROVE  ValuesOK'
  <2>1. who[p] \in Session /\ who[p] \in Booking /\ need[p] \in Nat
    BY <1>1, <1>10, Works DEF CommitResume, ValuesOK
  <2>2. declared' \in [Session -> BOOLEAN]
    BY <1>10, <2>1 DEF CommitResume, ValuesOK
  <2>. QED
    BY <1>10, <2>1, <2>2, BookEffect, ForgetEffect, KeptTypes, NextTypes DEF CommitResume
<1>11. ASSUME NEW p \in Request, CommitHold(p)
       PROVE  ValuesOK'
  <2>1. who[p] \in Booking /\ Size[what[p]] \in Nat /\ declared' \in [Session -> BOOLEAN]
    BY <1>1, <1>11, Works, SizeNat DEF CommitHold, ValuesOK
  <2>. QED
    BY <1>11, <2>1, BookEffect, ForgetEffect, KeptTypes, NextTypes DEF CommitHold
<1>12. ASSUME NEW p \in Request, CommitFile(p)
       PROVE  ValuesOK'
  <2>1. what[p] \in Content /\ who[p] \in Booking
    BY <1>1, <1>12, Works DEF CommitFile
  <2>. QED
    BY <1>12, <2>1, AddRowEffect, CloseEffect, ForgetEffect, KeptTypes, NextTypes DEF CommitFile
<1>13. ASSUME NEW p \in Request, Skip(p)
       PROVE  ValuesOK'
  <2>1. who[p] \in Booking
    BY <1>1, <1>13, Works DEF Skip
  <2>. QED
    BY <1>13, <2>1, CloseEffect, ForgetEffect, KeptTypes, NextTypes DEF Skip
<1>14. ASSUME NEW p \in Request, NEW r \in Row, CopyReads(p, r)
       PROVE  ValuesOK'
  BY <1>14, CopyReadsEffect, KeptTypes, NextTypes DEF CopyReads
<1>15. ASSUME NEW p \in Request, CopyCommits(p)
       PROVE  ValuesOK'
  <2>1. what[p] \in Content
    BY <1>1, <1>15, Works DEF CopyCommits
  <2>. QED
    BY <1>15, <2>1, CopyCommitsEffect, ForgetEffect, KeptTypes, NextTypes DEF CopyCommits
<1>16. ASSUME NEW b \in Booking, Expire(b)
       PROVE  ValuesOK'
  <2>1. BookingsOK'
    BY <1>16 DEF Expire, ValuesOK, BookingsOK
  <2>. QED
    BY <1>16, <2>1, KeptTypes, NextTypes DEF Expire
<1>17. ASSUME NEW b \in Booking, CloseBooking(b)
       PROVE  ValuesOK'
  BY <1>17, CloseEffect, KeptTypes, NextTypes DEF CloseBooking
<1>18. ASSUME NEW rs \in SUBSET Row, Purge(rs)
       PROVE  ValuesOK'
  <2>1. UNCHANGED bookings /\ UNCHANGED request /\ UNCHANGED admin
    BY <1>18 DEF Purge
  <2>. QED
    BY <1>18, <2>1, PurgeEffect, KeptTypes, NextTypes
<1>19. ASSUME NEW q \in Quotas, SetQuota(q)
       PROVE  ValuesOK'
  <2>1. AdminOK' /\ UNCHANGED request /\ UNCHANGED rows
    BY <1>19, ConstantsAssumption DEF SetQuota, ValuesOK, AdminOK
  <2>. QED
    BY <1>19, <2>1, RebuiltEffect, KeptTypes, NextTypes DEF SetQuota
<1>20. ASSUME ServerStart
       PROVE  ValuesOK'
  <2>1. AdminOK' /\ UNCHANGED request /\ UNCHANGED rows
    BY <1>20, ConstantsAssumption DEF ServerStart, ValuesOK, AdminOK
  <2>. QED
    BY <1>20, <2>1, RebuiltEffect, KeptTypes, NextTypes DEF ServerStart
<1>. QED
  BY <1>2, <1>3, <1>4, <1>5, <1>6, <1>7, <1>8, <1>9, <1>10, <1>11, <1>12, <1>13,
     <1>14, <1>15, <1>16, <1>17, <1>18, <1>19, <1>20 DEF Step

-----------------------------------------------------------------------------
(* Locks, bookings and requests                                            *)

(* A booking never becomes none or leaves closed; it is expired as long as *)
(* it is active.                                                           *)
BookingsMove ==
    /\ \A b \in Booking : status[b] # "none" => status'[b] # "none"
    /\ \A b \in Booking : status'[b] = "active" => status[b] \in {"none", "active"}
    /\ \A b \in expired : status'[b] = "active" => b \in expired'
    /\ \A b \in expired' : status'[b] = "active"
    /\ \A b \in Hold : status'[b] = "active" => booked'[b] = Size[content[b]]
    /\ content' = content

LEMMA MoveKeepsBookings == BookingsMove => BookingInv'
BY DEF BookingsMove, BookingInv, Active

LEMMA PastKept ==
    ASSUME ValuesOK, NEW q \in Request, PastInv(q), BookingsMove, Same(q) \/ Forgotten(q)
    PROVE  PastInv(q)'
<1>1. CASE Same(q)
  <2>1. \A b \in gone[q] : b \in Booking
    BY DEF ValuesOK
  <2>2. \A b \in gone'[q] : status'[b] # "none" /\ (Active(b)' => b \in expired')
    BY <1>1, <2>1 DEF Same, PastInv, BookingsMove, Active, ValuesOK
  <2>3. OnSession(q)' => who'[q] \notin gone'[q]
    BY <1>1 DEF Same, PastInv, OnSession
  <2>. QED
    BY <2>2, <2>3 DEF PastInv
<1>2. CASE Forgotten(q)
  BY <1>2 DEF Forgotten, PastInv, OnSession
<1>. QED
  BY <1>1, <1>2

LEMMA RequestKept ==
    ASSUME NEW q \in Request, RequestInv(q), Same(q), content' = content,
           op[q] \in {"create", "hold"} =>
              status'[who[q]] = "none" /\ \A r \in Request \ {q} : who'[r] # who[q],
           LocksSession(q) => status'[who[q]] = "active"
    PROVE  RequestInv(q)'
BY DEF Same, RequestInv, OnSession, LocksSession, Active

LEMMA RequestEnds ==
    ASSUME NEW p \in Request, Forgotten(p)
    PROVE  RequestInv(p)' /\ ~AtUser(p)' /\ ~LocksSession(p)'
BY DEF Forgotten, RequestInv, OnSession, LocksSession, AtUser

LEMMA LockKept ==
    ASSUME LockInv, NEW p \in Request, \A q \in Request \ {p} : Same(q),
           AtUser(p)' => AtUser(p) \/ UserFree,
           LocksSession(p)' => (LocksSession(p) /\ who'[p] = who[p]) \/ SessionFree(who'[p])
    PROVE  LockInv'
<1>. SUFFICES ASSUME NEW q \in Request, NEW r \in Request, q # r
              PROVE  /\ ~(AtUser(q)' /\ AtUser(r)')
                     /\ ~(LocksSession(q)' /\ LocksSession(r)' /\ who'[q] = who'[r])
  BY DEF LockInv
<1>1. ASSUME NEW s \in Request \ {p}
      PROVE  /\ AtUser(s)' = AtUser(s) /\ LocksSession(s)' = LocksSession(s)
             /\ who'[s] = who[s]
  BY DEF Same, AtUser, LocksSession, OnSession
<1>2. ASSUME NEW s \in Request \ {p}
      PROVE  /\ ~(AtUser(p)' /\ AtUser(s)')
             /\ ~(LocksSession(p)' /\ LocksSession(s)' /\ who'[p] = who'[s])
  BY <1>1 DEF LockInv, UserFree, AtUser, SessionFree
<1>3. CASE q = p
  BY <1>2, <1>3
<1>4. CASE r = p
  BY <1>2, <1>4
<1>5. CASE q # p /\ r # p
  BY <1>1, <1>5 DEF LockInv
<1>. QED
  BY <1>3, <1>4, <1>5

LEMMA BookingsStay == BookingInv /\ UNCHANGED bookings => BookingsMove
BY DEF BookingInv, BookingsMove, Active, bookings

(* Steps that no request takes.                                            *)
LEMMA StillControl ==
    ASSUME ValuesOK, ControlInv, \A q \in Request : Same(q), BookingsMove,
           \A b \in Booking : status[b] = "none" => status'[b] = "none",
           \A q \in Request : LocksSession(q) => status'[who[q]] = "active"
    PROVE  ControlInv'
<1>1. LockInv'
  BY DEF ControlInv, LockInv, Same, AtUser, LocksSession, OnSession
<1>2. ASSUME NEW q \in Request
      PROVE  RequestInv(q)'
  <2>1. RequestInv(q) /\ \A r \in Request : who'[r] = who[r]
    BY DEF ControlInv, Same
  <2>2. op[q] \in {"create", "hold"} =>
           status'[who[q]] = "none" /\ \A r \in Request \ {q} : who'[r] # who[q]
    BY <2>1 DEF RequestInv, Booking
  <2>. QED
    BY <2>1, <2>2, RequestKept DEF BookingsMove
<1>3. \A q \in Request : PastInv(q)'
  BY PastKept DEF ControlInv
<1>. QED
  BY <1>1, <1>2, <1>3, MoveKeepsBookings DEF ControlInv

(* Steps of a request before it commits.                                   *)
LEMMA BeforeControl ==
    ASSUME ValuesOK, ControlInv, NEW p \in Request, UNCHANGED bookings,
           \A q \in Request \ {p} : Same(q),
           RequestInv(p)', PastInv(p)',
           AtUser(p)' => AtUser(p) \/ UserFree,
           LocksSession(p)' => (LocksSession(p) /\ who'[p] = who[p]) \/ SessionFree(who'[p]),
           \A q \in Request \ {p} : op[q] \in {"create", "hold"} => who'[p] # who[q]
    PROVE  ControlInv'
<1>1. LockInv'
  BY LockKept DEF ControlInv
<1>2. BookingsMove
  BY BookingsStay DEF ControlInv
<1>3. ASSUME NEW q \in Request \ {p}
      PROVE  RequestInv(q)'
  <2>1. RequestInv(q) /\ Same(q) /\ content' = content /\ status' = status
    BY DEF ControlInv, bookings
  <2>2. op[q] \in {"create", "hold"} =>
           status'[who[q]] = "none" /\ \A r \in Request \ {q} : who'[r] # who[q]
    BY <2>1 DEF RequestInv, Same
  <2>3. LocksSession(q) => status'[who[q]] = "active"
    BY <2>1 DEF RequestInv, Active
  <2>. QED
    BY <2>1, <2>2, <2>3, RequestKept
<1>4. \A q \in Request \ {p} : PastInv(q)'
  BY <1>2, PastKept DEF ControlInv
<1>. QED
  BY <1>1, <1>2, <1>3, <1>4, MoveKeepsBookings DEF ControlInv

(* The end of a request, which changes its own booking only.               *)
LEMMA EndControl ==
    ASSUME ValuesOK, ControlInv, NEW p \in Request, Forgotten(p),
           \A q \in Request \ {p} : Same(q), BookingsMove,
           \A b \in Booking \ {who[p]} : status'[b] = status[b],
           \A q \in Request \ {p} :
              LocksSession(q) => who[q] # who[p] \/ status'[who[p]] = "active"
    PROVE  ControlInv'
<1>1. LockInv'
  BY LockKept, RequestEnds DEF ControlInv
<1>2. ASSUME NEW q \in Request \ {p}
      PROVE  RequestInv(q)'
  <2>1. RequestInv(q) /\ Same(q) /\ content' = content
    BY DEF ControlInv, BookingsMove
  <2>2. op[q] # "upload" => who[q] \in Booking
    BY <2>1, Works
  <2>3. op[q] \in {"create", "hold"} =>
           status'[who[q]] = "none" /\ \A r \in Request \ {q} : who'[r] # who[q]
    <3>. SUFFICES ASSUME op[q] \in {"create", "hold"}
                  PROVE  status'[who[q]] = "none" /\ \A r \in Request \ {q} : who'[r] # who[q]
      OBVIOUS
    <3>1. who[q] \in Booking /\ who[q] # NoBooking
      BY <2>2, ConstantsAssumption
    <3>2. status[who[q]] = "none" /\ \A r \in Request \ {q} : who[r] # who[q]
      BY <2>1 DEF RequestInv
    <3>3. who'[p] = NoBooking /\ \A r \in Request \ {p} : who'[r] = who[r]
      BY DEF Forgotten, Same
    <3>. QED
      BY <3>1, <3>2, <3>3
  <2>4. LocksSession(q) => status'[who[q]] = "active"
    BY <2>1, <2>2 DEF RequestInv, Active, LocksSession, OnSession
  <2>. QED
    BY <2>1, <2>3, <2>4, RequestKept
<1>3. \A q \in Request : PastInv(q)'
  BY PastKept DEF ControlInv
<1>. QED
  BY <1>1, <1>2, <1>3, RequestEnds, MoveKeepsBookings DEF ControlInv

LEMMA CloseMoves ==
    ASSUME ValuesOK, BookingInv, NEW b \in Booking, Close(b)
    PROVE  BookingsMove
<1>1. /\ status'[b] = "closed" /\ expired' = expired \ {b} /\ content' = content
      /\ \A d \in Booking \ {b} : status'[d] = status[d] /\ booked'[d] = booked[d]
  BY CloseEffect
<1>. QED
  BY <1>1 DEF BookingsMove, BookingInv, Active, ValuesOK, Booking

LEMMA BookMoves ==
    ASSUME ValuesOK, BookingInv, NEW b \in Booking, NEW n \in Nat, Book(b, n),
           status[b] \in {"none", "active"}, b \in Hold => n = Size[content[b]]
    PROVE  BookingsMove
<1>1. /\ status'[b] = "active" /\ booked'[b] = n /\ content' = content /\ expired' = expired
      /\ \A d \in Booking \ {b} : status'[d] = status[d] /\ booked'[d] = booked[d]
  BY BookEffect
<1>. QED
  BY <1>1 DEF BookingsMove, BookingInv, Active, ValuesOK, Booking

LEMMA RebuiltMoves ==
    ASSUME ValuesOK, BookingInv, NEW q, booked' = Rebuilt(q),
           UNCHANGED <<status, content, declared, expired>>
    PROVE  BookingsMove
BY RebuiltEffect DEF BookingsMove, BookingInv, Active

(* Locks, bookings and requests stay as the invariant says.                *)
LEMMA ControlStep == ValuesOK /\ ControlInv /\ Step => ControlInv'
<1>. SUFFICES ASSUME ValuesOK, ControlInv, Step
              PROVE  ControlInv'
  OBVIOUS
<1>1. LockInv /\ BookingInv /\ \A p \in Request : RequestInv(p) /\ PastInv(p)
  BY DEF ControlInv
<1>2. ASSUME NEW p \in Request, NEW c \in Content, NEW b \in Booking \cup {NoBooking},
             NEW o \in {"upload", "create", "resume", "declare", "finish", "hold", "commit"},
             Begin(p, o, c, b)
      PROVE  ControlInv'
  <2>1. /\ \A q \in Request \ {p} : Same(q)
        /\ pc'[p] = "begun" /\ op'[p] = o /\ what'[p] = c /\ who'[p] = b
        /\ gone'[p] = expired
    BY <1>2, BeginEffect
  <2>2. UNCHANGED bookings /\ MayBegin(o, c, b) /\ status' = status /\ expired' = expired
        /\ content' = content
    BY <1>2 DEF Begin, bookings
  <2>3. o \in {"create", "hold"} => Fresh(b)
    BY <2>2 DEF MayBegin
  <2>4. o = "upload" => b = NoBooking
    BY <2>2, ConstantsAssumption DEF MayBegin
  <2>5. o # "upload" => /\ b \in IF o \in {"hold", "commit"} THEN Hold ELSE Session
                        /\ c = content[b]
    BY <2>2 DEF MayBegin
  <2>6. RequestInv(p)'
    BY <2>1, <2>2, <2>3, <2>4, <2>5 DEF RequestInv, OnSession, LocksSession, Fresh, Same
  <2>7. o \in {"resume", "declare", "finish"} => b \notin expired
    BY <2>2 DEF MayBegin, Live
  <2>8. PastInv(p)'
    BY <1>1, <2>1, <2>2, <2>7 DEF PastInv, BookingInv, Active, OnSession
  <2>9. ~AtUser(p)' /\ ~LocksSession(p)'
    BY <2>1 DEF AtUser, LocksSession
  <2>10. ASSUME NEW q \in Request \ {p}, op[q] \in {"create", "hold"}
         PROVE  who'[p] # who[q]
    <3>1. status[who[q]] = "none" /\ who[q] # NoBooking
      BY <1>1, <2>10, Works, ConstantsAssumption DEF RequestInv
    <3>2. b = NoBooking \/ Fresh(b) \/ status[b] = "active"
      BY <2>2 DEF MayBegin, Live, Active
    <3>. QED
      BY <2>1, <3>1, <3>2 DEF Fresh
  <2>. QED
    BY <2>1, <2>2, <2>6, <2>8, <2>9, <2>10, BeforeControl
<1>3. ASSUME NEW p \in Request, LockSession(p)
      PROVE  ControlInv'
  <2>1. /\ \A q \in Request \ {p} : Same(q)
        /\ pc'[p] = "session" /\ op' = op /\ what' = what /\ who' = who /\ gone' = gone
    BY <1>3, LockSessionEffect
  <2>2. /\ UNCHANGED bookings /\ status' = status /\ expired' = expired /\ content' = content
        /\ pc[p] = "begun" /\ OnSession(p) /\ SessionFree(who[p]) /\ status[who[p]] = "active"
    BY <1>3 DEF LockSession, bookings, Active
  <2>3. RequestInv(p)'
    BY <1>1, <2>1, <2>2 DEF RequestInv, OnSession, LocksSession, Active
  <2>4. PastInv(p)'
    BY <1>1, <2>1, <2>2 DEF PastInv, OnSession, Active
  <2>5. ~AtUser(p)' /\ SessionFree(who'[p])
    BY <2>1, <2>2 DEF AtUser
  <2>6. \A q \in Request \ {p} : op[q] \in {"create", "hold"} => who'[p] # who[q]
    BY <1>1, <2>1 DEF RequestInv
  <2>. QED
    BY <2>1, <2>2, <2>3, <2>4, <2>5, <2>6, BeforeControl
<1>4. ASSUME NEW p \in Request, LockUser(p)
      PROVE  ControlInv'
  <2>1. /\ \A q \in Request \ {p} : Same(q)
        /\ pc'[p] = "counted" /\ op' = op /\ what' = what /\ who' = who /\ gone'[p] = {}
    BY <1>4, LockUserEffect
  <2>2. /\ UNCHANGED bookings /\ status' = status /\ expired' = expired /\ content' = content
        /\ pc[p] = IF OnSession(p) THEN "session" ELSE "begun"
        /\ UserFree
    BY <1>4 DEF LockUser, bookings
  <2>3. LocksSession(p)' => LocksSession(p)
    BY <2>1, <2>2 DEF LocksSession, OnSession
  <2>4. RequestInv(p)'
    BY <1>1, <2>1, <2>2, <2>3 DEF RequestInv, OnSession, LocksSession, Active
  <2>5. PastInv(p)'
    BY <2>1 DEF PastInv
  <2>6. \A q \in Request \ {p} : op[q] \in {"create", "hold"} => who'[p] # who[q]
    BY <1>1, <2>1 DEF RequestInv
  <2>. QED
    BY <2>1, <2>2, <2>3, <2>4, <2>5, <2>6, BeforeControl
<1>5. ASSUME NEW p \in Request, Admit(p)
      PROVE  ControlInv'
  <2>1. pc[p] = "counted" /\ UNCHANGED bookings /\ what[p] \in Content
        /\ status' = status /\ expired' = expired /\ content' = content
    BY <1>1, <1>5, Works DEF Admit, bookings
  <2>2. /\ \A q \in Request \ {p} : Same(q)
        /\ pc'[p] = "admitted" /\ op' = op /\ what' = what /\ who' = who /\ gone' = gone
    BY <1>5, <2>1, AdmitEffect
  <2>3. AtUser(p) /\ (LocksSession(p)' => LocksSession(p))
    BY <2>1, <2>2 DEF AtUser, LocksSession, OnSession
  <2>4. RequestInv(p)'
    BY <1>1, <2>1, <2>2, <2>3 DEF RequestInv, OnSession, LocksSession, Active
  <2>5. PastInv(p)'
    BY <1>1, <2>1, <2>2 DEF PastInv, OnSession, Active
  <2>6. \A q \in Request \ {p} : op[q] \in {"create", "hold"} => who'[p] # who[q]
    BY <1>1, <2>2 DEF RequestInv
  <2>. QED
    BY <2>1, <2>2, <2>3, <2>4, <2>5, <2>6, BeforeControl
<1>6. ASSUME NEW p \in Request, NEW r \in Row, CopyReads(p, r)
      PROVE  ControlInv'
  <2>1. /\ \A q \in Request \ {p} : Same(q)
        /\ pc'[p] = "copying" /\ op' = op /\ what'[p] \in Content
        /\ who' = who /\ gone' = gone
    BY <1>6, CopyReadsEffect
  <2>2. pc[p] = "idle" /\ UNCHANGED bookings /\ status' = status /\ expired' = expired
        /\ content' = content
    BY <1>6 DEF CopyReads, bookings
  <2>3. ~AtUser(p)' /\ ~LocksSession(p)' /\ op[p] = "upload"
    BY <1>1, <2>1, <2>2 DEF AtUser, LocksSession, RequestInv
  <2>4. RequestInv(p)'
    BY <1>1, <2>1, <2>2, <2>3 DEF RequestInv, OnSession, LocksSession
  <2>5. PastInv(p)'
    BY <1>1, <2>1, <2>2 DEF PastInv, OnSession, Active
  <2>6. \A q \in Request \ {p} : op[q] \in {"create", "hold"} => who'[p] # who[q]
    BY <1>1, <2>1 DEF RequestInv
  <2>. QED
    BY <2>1, <2>2, <2>3, <2>4, <2>5, <2>6, BeforeControl
<1>7. ASSUME NEW p \in Request, Forget(p), UNCHANGED bookings
      PROVE  ControlInv'
  <2>1. BookingsMove /\ status' = status
    BY <1>1, <1>7, BookingsStay DEF bookings
  <2>2. \A q \in Request \ {p} : LocksSession(q) => status'[who[q]] = "active"
    BY <1>1, <2>1 DEF RequestInv, Active
  <2>3. Forgotten(p) /\ \A q \in Request \ {p} : Same(q)
    BY <1>7, ForgetEffect
  <2>. QED
    BY <2>1, <2>2, <2>3, EndControl
<1>8. ASSUME NEW p \in Request, Forget(p), NEW n \in Nat, who[p] \in Booking, Book(who[p], n),
             status[who[p]] \in {"none", "active"},
             who[p] \in Hold => n = Size[content[who[p]]]
      PROVE  ControlInv'
  <2>1. BookingsMove
    BY <1>1, <1>8, BookMoves
  <2>2. status'[who[p]] = "active" /\ \A b \in Booking \ {who[p]} : status'[b] = status[b]
    BY <1>8, BookEffect
  <2>3. Forgotten(p) /\ \A q \in Request \ {p} : Same(q)
    BY <1>8, ForgetEffect
  <2>. QED
    BY <2>1, <2>2, <2>3, EndControl
<1>9. ASSUME NEW p \in Request, Forget(p), who[p] \in Booking, Close(who[p]),
             LocksSession(p) \/ who[p] \in Hold
      PROVE  ControlInv'
  <2>1. BookingsMove
    BY <1>1, <1>9, CloseMoves
  <2>2. \A b \in Booking \ {who[p]} : status'[b] = status[b]
    BY <1>9, CloseEffect
  <2>3. Forgotten(p) /\ \A q \in Request \ {p} : Same(q)
    BY <1>9, ForgetEffect
  <2>4. ASSUME NEW q \in Request \ {p}, LocksSession(q)
        PROVE  who[q] # who[p]
    <3>1. who[q] \in Session
      BY <1>1, <2>4, Works DEF LocksSession, OnSession
    <3>. QED
      BY <1>1, <1>9, <2>4, <3>1, ConstantsAssumption DEF LockInv
  <2>. QED
    BY <2>1, <2>2, <2>3, <2>4, EndControl
<1>10. ASSUME NEW b \in Booking, Expire(b)
       PROVE  ControlInv'
  <2>1. UNCHANGED request /\ expired' = expired \cup {b} /\ status[b] = "active"
        /\ UNCHANGED <<status, content, booked>>
    BY <1>10 DEF Expire, Live, Active
  <2>2. BookingsMove
    BY <1>1, <2>1 DEF BookingsMove, BookingInv, Active
  <2>3. \A q \in Request : LocksSession(q) => status'[who[q]] = "active"
    BY <1>1, <2>1 DEF RequestInv, Active
  <2>. QED
    BY <2>1, <2>2, <2>3, KeptTypes, StillControl
<1>11. ASSUME NEW b \in Booking, CloseBooking(b)
       PROVE  ControlInv'
  <2>1. UNCHANGED request /\ Close(b) /\ status[b] = "active" /\ SessionFree(b)
    BY <1>11 DEF CloseBooking, Active
  <2>2. BookingsMove /\ \A d \in Booking \ {b} : status'[d] = status[d]
    BY <1>1, <2>1, CloseMoves, CloseEffect
  <2>3. ASSUME NEW q \in Request, LocksSession(q)
        PROVE  status'[who[q]] = "active"
    <3>1. who[q] \in Booking /\ status[who[q]] = "active"
      BY <1>1, <2>3, Works DEF LocksSession, OnSession, RequestInv, Active
    <3>. QED
      BY <2>1, <2>2, <2>3, <3>1 DEF SessionFree
  <2>. QED
    BY <2>1, <2>2, <2>3, KeptTypes, StillControl
<1>12. ASSUME UNCHANGED bookings, UNCHANGED request
       PROVE  ControlInv'
  <2>1. BookingsMove /\ status' = status
    BY <1>1, <1>12, BookingsStay DEF bookings
  <2>2. \A q \in Request : LocksSession(q) => status'[who[q]] = "active"
    BY <1>1, <2>1 DEF RequestInv, Active
  <2>. QED
    BY <1>12, <2>1, <2>2, KeptTypes, StillControl
<1>13. ASSUME NEW q, booked' = Rebuilt(q), UNCHANGED <<status, content, declared, expired>>,
              UNCHANGED request
       PROVE  ControlInv'
  <2>1. BookingsMove
    BY <1>1, <1>13, RebuiltMoves
  <2>2. \A p \in Request : LocksSession(p) => status'[who[p]] = "active"
    BY <1>1, <1>13 DEF RequestInv, Active
  <2>. QED
    BY <1>13, <2>1, <2>2, KeptTypes, StillControl
<1>14. ASSUME NEW p \in Request,
              CommitUpload(p) \/ Abort(p) \/ CopyCommits(p)
       PROVE  ControlInv'
  BY <1>7, <1>14 DEF CommitUpload, Abort, CopyCommits
<1>15. ASSUME NEW p \in Request, CommitCreate(p)
       PROVE  ControlInv'
  <2>1. who[p] \in Session /\ who[p] \in Booking /\ status[who[p]] = "none" /\ need[p] \in Nat
    BY <1>1, <1>15, Works DEF CommitCreate, RequestInv, ValuesOK
  <2>. QED
    BY <1>8, <1>15, <2>1, ConstantsAssumption DEF CommitCreate
<1>16. ASSUME NEW p \in Request, CommitResume(p)
       PROVE  ControlInv'
  <2>1. who[p] \in Session /\ who[p] \in Booking /\ need[p] \in Nat /\ LocksSession(p)
    BY <1>1, <1>16, Works DEF CommitResume, ValuesOK, LocksSession, OnSession
  <2>2. status[who[p]] = "active"
    BY <1>1, <2>1 DEF RequestInv, Active
  <2>. QED
    BY <1>8, <1>16, <2>1, <2>2, ConstantsAssumption DEF CommitResume
<1>17. ASSUME NEW p \in Request, CommitHold(p)
       PROVE  ControlInv'
  <2>1. who[p] \in Booking /\ status[who[p]] = "none" /\ what[p] = content[who[p]]
        /\ Size[what[p]] \in Nat
    BY <1>1, <1>17, Works, SizeNat DEF CommitHold, RequestInv
  <2>. QED
    BY <1>8, <1>17, <2>1 DEF CommitHold
<1>18. ASSUME NEW p \in Request, CommitFile(p) \/ Skip(p)
       PROVE  ControlInv'
  <2>1. op[p] \in {"finish", "commit"} /\ pc[p] \in {"admitted", "session"}
        /\ (op[p] = "commit" => pc[p] = "admitted") /\ Close(who[p]) /\ Forget(p)
    BY <1>18 DEF CommitFile, Skip
  <2>2. who[p] \in Booking /\ (LocksSession(p) \/ who[p] \in Hold)
    BY <1>1, <2>1, Works DEF LocksSession, OnSession
  <2>. QED
    BY <1>9, <2>1, <2>2
<1>19. ASSUME NEW q \in Quotas, SetQuota(q)
       PROVE  ControlInv'
  BY <1>13, <1>19 DEF SetQuota
<1>20. ASSUME ServerStart
       PROVE  ControlInv'
  BY <1>13, <1>20 DEF ServerStart
<1>21. ASSUME NEW rs \in SUBSET Row, Purge(rs)
       PROVE  ControlInv'
  BY <1>12, <1>21 DEF Purge
<1>22. ASSUME NEW p \in Request,
              NEW o \in {"create", "resume", "declare", "finish", "hold", "commit"},
              NEW b \in Booking, Begin(p, o, content[b], b)
       PROVE  ControlInv'
  <2>1. content[b] \in Content
    BY DEF ValuesOK
  <2>. QED
    BY <1>2, <1>22, <2>1
<1>23. ASSUME NEW p \in Request, NEW c \in Content, Begin(p, "upload", c, NoBooking)
       PROVE  ControlInv'
  BY <1>2, <1>23
<1>. QED
  BY <1>3, <1>4, <1>5, <1>6, <1>10, <1>11, <1>14, <1>15, <1>16, <1>17, <1>18, <1>19,
     <1>20, <1>21, <1>22, <1>23 DEF Step

-----------------------------------------------------------------------------
(* The quota                                                               *)

LEMMA QuotaNat == ValuesOK => quota \in Nat
BY ConstantsAssumption DEF ValuesOK

LEMMA WithinIs ==
    ASSUME TypeOK
    PROVE  WithinQuota <=> (quota # 0 => NetUsed + Reserved <= quota + excuse)
<1>1. ValuesOK /\ excuse \in Nat
  BY DEF TypeOK
<1>2. NetUsed \in Nat /\ Reserved \in Nat /\ quota \in Nat
  BY <1>1, Amounts, QuotaNat DEF AmountsOK
<1>. QED
  BY <1>1, <1>2, OverIs DEF WithinQuota, Excess

LEMMA ExcuseStep ==
    ASSUME TypeOK, ValuesOK', Excuse
    PROVE  /\ excuse' \in Nat
           /\ changes' # changes => WithinQuota'
<1>1. NetUsed' \in Nat /\ Reserved' \in Nat
  BY AmountsNext
<1>2. (ValuesOK => quota \in Nat)'
  BY QuotaNat, PTL
<1>3. Over' \in Nat
  BY <1>1, <1>2, OverNext DEF Excess
<1>4. excuse' \in Nat
  BY <1>3 DEF Excuse, TypeOK
<1>5. changes' # changes => excuse' = Over'
  BY DEF Excuse
<1>6. changes' # changes => WithinQuota'
  BY <1>3, <1>5 DEF WithinQuota
<1>. QED
  BY <1>4, <1>6

LEMMA WithinKept ==
    ASSUME TypeOK, ValuesOK', Excuse, changes' = changes, quota' = quota,
           quota # 0 => NetUsed' + Reserved' <= quota + excuse
    PROVE  WithinQuota' /\ (~UserFree' => excuse' = excuse)
<1>1. NetUsed' \in Nat /\ Reserved' \in Nat /\ quota \in Nat /\ excuse \in Nat
  BY AmountsNext, QuotaNat DEF TypeOK
<1>2. Over' \in Nat /\ Over' <= excuse
  <2>1. PICK u \in Nat, r \in Nat : u = NetUsed' /\ r = Reserved'
    BY <1>1
  <2>2. Over' = IF quota = 0 THEN 0 ELSE Excess(u + r - quota)
    BY <2>1, OverNext
  <2>3. quota # 0 => u + r <= quota + excuse
    BY <2>1
  <2>. QED
    BY <1>1, <2>2, <2>3 DEF Excess
<1>3. excuse' = IF UserFree' /\ Over' < excuse THEN Over' ELSE excuse
  BY DEF Excuse
<1>4. WithinQuota'
  BY <1>1, <1>2, <1>3 DEF WithinQuota
<1>. QED
  BY <1>3, <1>4

(* Who is not at the user's row has nothing to keep.                       *)
LEMMA NotAtUser ==
    ASSUME NEW q \in Request, ~AtUser(q)'
    PROVE  CountedInv(q)' /\ AdmittedInv(q)'
BY DEF AtUser, CountedInv, AdmittedInv

LEMMA OthersAway ==
    ASSUME NEW p \in Request, \A q \in Request \ {p} : Same(q),
           UserFree \/ (AtUser(p) /\ LockInv)
    PROVE  \A q \in Request \ {p} : CountedInv(q)' /\ AdmittedInv(q)'
<1>. SUFFICES ASSUME NEW q \in Request \ {p}
              PROVE  CountedInv(q)' /\ AdmittedInv(q)'
  OBVIOUS
<1>1. ~AtUser(q)
  BY DEF UserFree, AtUser, LockInv
<1>2. ~AtUser(q)'
  BY <1>1 DEF Same, AtUser
<1>. QED
  BY <1>2, NotAtUser

(* What a step leaves of the sums when it adds no content that counts and  *)
(* books nothing.                                                          *)
WithIt(c) == (Owned \cup {c}) \ returned

Shrinks ==
    /\ Net' \subseteq Net
    /\ \A c \in Content : WithIt(c)' \subseteq WithIt(c)
    /\ LiveBookings' \subseteq LiveBookings
    /\ \A b \in LiveBookings' : booked'[b] = booked[b]
    /\ \A b \in Booking : booked'[b] \in {0, booked[b]}
    /\ quota' = quota /\ changes' = changes

LEMMA ShrinkSums ==
    ASSUME ValuesOK, ValuesOK', Shrinks
    PROVE  /\ NetUsed' <= NetUsed /\ Reserved' <= Reserved
           /\ \A p \in Request : who'[p] = who[p] => Others(p)' <= Others(p)
           /\ \A c \in Content : Sum(Size, WithIt(c)') <= Sum(Size, WithIt(c))
<1>1. NetUsed' <= NetUsed
  <2>1. NetUsed' = Sum(Size, Net')
    BY Zenon DEF NetUsed
  <2>. QED
    BY <2>1, NetLess DEF Shrinks
<1>2. Reserved' <= Reserved
  <2>1. Reserved' = Sum(booked', LiveBookings')
    BY Zenon DEF Reserved
  <2>. QED
    BY <2>1, ReservedLess DEF Shrinks
<1>3. ASSUME NEW p \in Request, who'[p] = who[p]
      PROVE  Others(p)' <= Others(p)
  <2>. DEFINE L == LiveBookings' \ {who[p]}
  <2>1. Others(p)' = Sum(booked', L)
    BY <1>3, Zenon DEF Others
  <2>2. L \subseteq LiveBookings \ {who[p]} /\ \A b \in L : booked'[b] = booked[b]
    BY DEF Shrinks
  <2>3. booked' \in [Booking -> Nat]
    BY DEF ValuesOK
  <2>. HIDE DEF L
  <2>. QED
    BY <2>1, <2>2, <2>3, BookedLess
<1>4. ASSUME NEW c \in Content
      PROVE  Sum(Size, WithIt(c)') <= Sum(Size, WithIt(c))
  <2>1. IsFiniteSet(Owned \cup {c}) /\ Owned \cup {c} \subseteq Content
    BY Amounts, FS_AddElement DEF AmountsOK
  <2>2. IsFiniteSet(WithIt(c)) /\ \A d \in WithIt(c) : Size[d] \in Nat
    BY <2>1, FS_Subset, SizeNat DEF WithIt
  <2>3. WithIt(c)' \in SUBSET WithIt(c)
    BY DEF Shrinks
  <2>. QED
    BY <2>2, <2>3, SumSubset
<1>. QED
  BY <1>1, <1>2, <1>3, <1>4

LEMMA WithItNat ==
    ASSUME ValuesOK, NEW c \in Content
    PROVE  Sum(Size, WithIt(c)) \in Nat
<1>1. IsFiniteSet(Owned \cup {c}) /\ Owned \cup {c} \subseteq Content
  BY Amounts, FS_AddElement DEF AmountsOK
<1>2. IsFiniteSet(WithIt(c)) /\ \A d \in WithIt(c) : Size[d] \in Nat
  BY <1>1, FS_Subset, SizeNat DEF WithIt
<1>. QED
  BY <1>2, BytesFinite

(* Such a step keeps the quota, and the bounds of who does not take it.    *)
LEMMA ShrinkWithin ==
    ASSUME TypeOK, WithinQuota, ValuesOK', Excuse, Shrinks
    PROVE  WithinQuota' /\ (~UserFree' => excuse' = excuse)
<1>1. ValuesOK /\ excuse \in Nat
  BY DEF TypeOK
<1>2. PICK u \in Nat, r \in Nat : u = NetUsed' /\ r = Reserved'
  BY AmountsNext
<1>3. u <= NetUsed /\ r <= Reserved /\ NetUsed \in Nat /\ Reserved \in Nat /\ quota \in Nat
  BY <1>1, <1>2, ShrinkSums, Amounts, QuotaNat DEF AmountsOK
<1>4. quota # 0 => u + r <= quota + excuse
  BY <1>1, <1>3, WithinIs
<1>5. quota # 0 => NetUsed' + Reserved' <= quota + excuse
  BY <1>2, <1>4
<1>. QED
  BY <1>5, WithinKept DEF Shrinks

LEMMA ShrinkCounted ==
    ASSUME ValuesOK, ValuesOK', Shrinks, NEW q \in Request, Same(q), CountedInv(q),
           RequestInv(q)
    PROVE  CountedInv(q)'
<1>. SUFFICES ASSUME pc[q] = "counted"
              PROVE  /\ NetUsed' <= seen[q].used
                     /\ Others(q)' + OwnCounted(q)' <= seen[q].reserved
                     /\ seen[q].clean /\ quota' # 0 => seen[q].used + seen[q].reserved <= quota'
  BY DEF Same, CountedInv
<1>1. seen[q].used \in Nat /\ seen[q].reserved \in Nat
  BY DEF ValuesOK
<1>2. /\ NetUsed <= seen[q].used
      /\ Others(q) + OwnCounted(q) <= seen[q].reserved
      /\ seen[q].clean /\ quota # 0 => seen[q].used + seen[q].reserved <= quota
  BY DEF CountedInv
<1>3. who'[q] = who[q] /\ op'[q] = op[q]
  BY DEF Same
<1>4. NetUsed \in Nat /\ Others(q) \in Nat
  BY Amounts DEF AmountsOK
<1>5. NetUsed' \in Nat /\ NetUsed' <= NetUsed
  BY AmountsNext, ShrinkSums
<1>6. NetUsed' <= seen[q].used
  <2>1. \A a, b, c \in Int : a <= b /\ b <= c => a <= c
    OBVIOUS
  <2>. QED
    BY <1>1, <1>2, <1>4, <1>5, <2>1
<1>7. Others(q)' \in Nat /\ Others(q)' <= Others(q)
  <2>1. (ValuesOK => AmountsOK)'
    BY Amounts, PTL
  <2>. QED
    BY <1>3, <2>1, ShrinkSums DEF AmountsOK
<1>8. OwnCounted(q)' \in Nat /\ OwnCounted(q) \in Nat /\ OwnCounted(q)' <= OwnCounted(q)
  <2>1. (OnSession(q) \/ op[q] = "commit") => /\ who[q] \in Booking
                                             /\ booked[who[q]] \in Nat
                                             /\ booked'[who[q]] \in {0, booked[who[q]]}
    BY Works DEF OnSession, Shrinks, ValuesOK
  <2>2. OnSession(q)' = OnSession(q)
    BY <1>3 DEF OnSession
  <2>3. who[q] \in Booking /\ Live(who[q])' => Live(who[q])
    <3>. SUFFICES ASSUME who[q] \in Booking, Live(who[q])'
                  PROVE  Live(who[q])
      OBVIOUS
    <3>1. who[q] \in LiveBookings'
      BY <1>3 DEF LiveBookings, Live, Active
    <3>2. who[q] \in LiveBookings
      BY <3>1 DEF Shrinks
    <3>. QED
      BY <3>2 DEF LiveBookings
  <2>4. CASE OnSession(q)
    <3>1. OwnCounted(q) = booked[who[q]] /\ OwnCounted(q)' = booked'[who[q]]
      BY <1>3, <2>2, <2>4 DEF OwnCounted
    <3>. QED
      BY <2>1, <2>4, <3>1
  <2>5. CASE ~OnSession(q) /\ op[q] = "commit"
    <3>1. OwnCounted(q) = IF Live(who[q]) THEN booked[who[q]] ELSE 0
      BY <2>5 DEF OwnCounted
    <3>2. OwnCounted(q)' = IF Live(who[q])' THEN booked'[who[q]] ELSE 0
      BY <1>3, <2>2, <2>5 DEF OwnCounted, Live, Active
    <3>. QED
      BY <2>1, <2>3, <2>5, <3>1, <3>2
  <2>6. CASE ~OnSession(q) /\ op[q] # "commit"
    <3>1. OwnCounted(q) = 0 /\ OwnCounted(q)' = 0
      BY <1>3, <2>2, <2>6 DEF OwnCounted
    <3>. QED
      BY <3>1
  <2>. QED
    BY <2>4, <2>5, <2>6
<1>. QED
  BY <1>1, <1>2, <1>4, <1>6, <1>7, <1>8 DEF Shrinks

LEMMA ShrinkAdmitted ==
    ASSUME TypeOK, ValuesOK', Shrinks, NEW q \in Request, Same(q), AdmittedInv(q),
           RequestInv(q), AtUser(q) => excuse' = excuse
    PROVE  AdmittedInv(q)'
<1>. SUFFICES ASSUME pc[q] = "admitted", quota # 0
              PROVE  AdmittedInv(q)'
  BY DEF AdmittedInv, Same, Shrinks
<1>. PICK c \in Content : c = what[q]
  BY Works DEF TypeOK
<1>1. /\ pc'[q] = pc[q] /\ op'[q] = op[q] /\ what'[q] = c /\ who'[q] = who[q]
      /\ need'[q] = need[q] /\ quota' = quota
  BY DEF Same, Shrinks
<1>2. ValuesOK /\ c \in Content /\ excuse' = excuse /\ quota \in Nat /\ excuse \in Nat
      /\ need[q] \in Nat
  BY Works, QuotaNat DEF TypeOK, AtUser, ValuesOK
<1>3. PICK u, o, r, s \in Nat : u = NetUsed' /\ o = Others(q)' /\ r = Reserved'
                                /\ s = Sum(Size, WithIt(c)')
  <2>1. (ValuesOK => AmountsOK)'
    BY Amounts, PTL
  <2>2. NetUsed' \in Nat /\ Others(q)' \in Nat /\ Reserved' \in Nat
    BY <2>1 DEF AmountsOK
  <2>3. IsFiniteSet(WithIt(c)) /\ \A d \in WithIt(c) : Size[d] \in Nat
    <3>1. IsFiniteSet(Owned \cup {c}) /\ Owned \cup {c} \subseteq Content
      BY <1>2, Amounts, FS_AddElement DEF AmountsOK
    <3>. QED
      BY <3>1, FS_Subset, SizeNat DEF WithIt
  <2>4. WithIt(c)' \subseteq WithIt(c)
    BY <1>2 DEF Shrinks
  <2>5. Sum(Size, WithIt(c)') \in Nat
    BY <2>3, <2>4, SumSubset
  <2>. QED
    BY <2>2, <2>5
<1>4. /\ NetUsed \in Nat /\ Others(q) \in Nat /\ Reserved \in Nat
      /\ Sum(Size, WithIt(c)) \in Nat
      /\ u <= NetUsed /\ o <= Others(q) /\ r <= Reserved /\ s <= Sum(Size, WithIt(c))
  BY <1>1, <1>2, <1>3, ShrinkSums, Amounts, WithItNat DEF AmountsOK
<1>5. CASE need[q] = Size[c] /\ NetUsed + Others(q) + need[q] <= quota
  <2>1. u + o + need[q] <= quota
    BY <1>2, <1>4, <1>5
  <2>2. NetUsed' + Others(q)' + need[q] <= quota
    BY <1>3, <2>1
  <2>. QED
    BY <1>1, <1>5, <2>2 DEF AdmittedInv
<1>6. CASE /\ need[q] = 0 /\ op[q] \notin {"hold", "commit"}
           /\ op[q] \in {"upload", "finish"} =>
                Sum(Size, WithIt(c)) + Reserved <= quota + excuse
  <2>1. op[q] \in {"upload", "finish"} => s + r <= quota + excuse
    BY <1>2, <1>4, <1>6
  <2>2. Sum(Size, WithIt(c)') = Sum(Size, (Owned' \cup {c}) \ returned')
    BY <1>1, Zenon DEF WithIt
  <2>3. op[q] \in {"upload", "finish"} =>
           Sum(Size, (Owned' \cup {c}) \ returned') + Reserved' <= quota + excuse
    BY <1>3, <2>1, <2>2
  <2>. QED
    BY <1>1, <1>2, <1>6, <2>3 DEF AdmittedInv
<1>7. \/ need[q] = Size[c] /\ NetUsed + Others(q) + need[q] <= quota
      \/ /\ need[q] = 0 /\ op[q] \notin {"hold", "commit"}
         /\ op[q] \in {"upload", "finish"} =>
              Sum(Size, WithIt(c)) + Reserved <= quota + excuse
  BY Zenon DEF AdmittedInv, WithIt
<1>. QED
  BY <1>5, <1>6, <1>7

(* What the invariant says of amounts.                                     *)
Bounds == WithinQuota /\ \A p \in Request : CountedInv(p) /\ AdmittedInv(p)

LEMMA IInvParts == IInv <=> TypeOK /\ ControlInv /\ Bounds
BY DEF IInv, Bounds

LEMMA ShrinkBounds ==
    ASSUME IInv, ValuesOK', Excuse, Shrinks,
           \A q \in Request :
              Same(q) \/ ~AtUser(q)' \/ (CountedInv(q)' /\ AdmittedInv(q)')
    PROVE  Bounds'
<1>1. TypeOK /\ ValuesOK /\ ControlInv /\ WithinQuota
  BY DEF IInv, TypeOK
<1>2. WithinQuota' /\ (~UserFree' => excuse' = excuse)
  BY <1>1, ShrinkWithin
<1>3. ASSUME NEW q \in Request
      PROVE  CountedInv(q)' /\ AdmittedInv(q)'
  <2>1. CASE ~AtUser(q)'
    BY <2>1, NotAtUser
  <2>2. CASE CountedInv(q)' /\ AdmittedInv(q)'
    BY <2>2
  <2>3. CASE Same(q) /\ AtUser(q)'
    <3>1. RequestInv(q) /\ CountedInv(q) /\ AdmittedInv(q)
      BY DEF IInv, ControlInv
    <3>2. excuse' = excuse
      BY <1>2, <2>3 DEF UserFree, AtUser
    <3>. QED
      BY <1>1, <2>3, <3>1, <3>2, ShrinkCounted, ShrinkAdmitted
  <2>. QED
    BY <2>1, <2>2, <2>3
<1>. QED
  BY <1>2, <1>3 DEF Bounds

LEMMA StaysShrinks ==
    ASSUME UNCHANGED <<bookings, rows, admin>>
    PROVE  Shrinks
BY DEF Shrinks, Net, WithIt, Owned, LiveBookings, Live, Active, bookings, rows, admin

LEMMA CloseShrinks ==
    ASSUME ValuesOK, NEW b \in Booking, Close(b), UNCHANGED <<rows, admin>>
    PROVE  Shrinks
<1>1. /\ status'[b] = "closed" /\ booked'[b] = 0 /\ expired' = expired \ {b}
      /\ \A d \in Booking \ {b} : status'[d] = status[d] /\ booked'[d] = booked[d]
  BY CloseEffect
<1>2. /\ LiveBookings' \subseteq LiveBookings
      /\ \A d \in LiveBookings' : booked'[d] = booked[d]
      /\ \A d \in Booking : booked'[d] \in {0, booked[d]}
  BY <1>1 DEF LiveBookings, Live, Active
<1>3. Net' = Net /\ (\A c \in Content : WithIt(c)' = WithIt(c)) /\ quota' = quota
      /\ changes' = changes
  BY DEF Net, WithIt, Owned, rows, admin
<1>. QED
  BY <1>2, <1>3 DEF Shrinks

LEMMA ExpireShrinks ==
    ASSUME NEW b \in Booking, Expire(b)
    PROVE  Shrinks
<1>1. /\ LiveBookings' \subseteq LiveBookings
      /\ booked' = booked
  BY DEF Expire, LiveBookings, Live, Active
<1>2. Net' = Net /\ (\A c \in Content : WithIt(c)' = WithIt(c)) /\ quota' = quota
      /\ changes' = changes
  BY DEF Expire, Net, WithIt, Owned, rows, admin
<1>. QED
  BY <1>1, <1>2 DEF Shrinks

LEMMA RowsShrink ==
    ASSUME UNCHANGED <<bookings, admin>>,
           Owned' \ returned' \subseteq Owned \ returned,
           \A c \in Content : (Owned' \cup {c}) \ returned' \subseteq (Owned \cup {c}) \ returned
    PROVE  Shrinks
<1>1. LiveBookings' = LiveBookings /\ booked' = booked /\ quota' = quota /\ changes' = changes
  BY DEF LiveBookings, Live, Active, bookings, admin
<1>. QED
  BY <1>1 DEF Shrinks, Net, WithIt

LEMMA PurgeShrinks ==
    ASSUME ValuesOK, NEW rs \in SUBSET Row, Purge(rs)
    PROVE  Shrinks
<1>1. Owned' \subseteq Owned /\ returned' = returned
  BY PurgeEffect
<1>2. UNCHANGED <<bookings, admin>>
  BY DEF Purge
<1>. QED
  BY <1>1, <1>2, RowsShrink

LEMMA CopyShrinks ==
    ASSUME ValuesOK, NEW p \in Request, what[p] \in Content, CopyCommits(p)
    PROVE  Shrinks
<1>1. Owned' = Owned \cup {what[p]} /\ returned' = returned \cup ({what[p]} \ Owned)
  BY CopyCommitsEffect
<1>2. UNCHANGED <<bookings, admin>>
  BY DEF CopyCommits
<1>. QED
  BY <1>1, <1>2, RowsShrink

(* What usage says when a request reads it, and what that leaves room for. *)
LEMMA ReservedAtCounts ==
    ASSUME ValuesOK, ControlInv, NEW p \in Request,
           pc[p] = IF OnSession(p) THEN "session" ELSE "begun"
    PROVE  /\ Others(p) + OwnCounted(p) <= ReservedAt(gone[p])
           /\ expired \subseteq gone[p] => ReservedAt(gone[p]) = Reserved
<1>. DEFINE A == {b \in Booking : Active(b) /\ b \notin gone[p]}
            O == LiveBookings \ {who[p]}
            U == O \cup {who[p]}
<1>1. RequestInv(p) /\ PastInv(p)
  BY DEF ControlInv
<1>2. LiveBookings \subseteq A
  BY <1>1 DEF PastInv, LiveBookings, Live
<1>3. ReservedAt(gone[p]) = Sum(booked, A) /\ Others(p) = Sum(booked, O)
      /\ Reserved = Sum(booked, LiveBookings)
  BY Zenon DEF ReservedAt, Others, Reserved
<1>4. expired \subseteq gone[p] => A = LiveBookings
  BY <1>2 DEF LiveBookings, Live
<1>5. /\ OnSession(p) => who[p] \in A
      /\ op[p] = "commit" /\ Live(who[p]) => who[p] \in A
      /\ OnSession(p) \/ op[p] = "commit" => who[p] \in Booking
  BY <1>1, <1>2, Works DEF RequestInv, PastInv, LocksSession, OnSession, LiveBookings
<1>6. /\ IsFiniteSet(A) /\ IsFiniteSet(O) /\ O \subseteq A /\ A \subseteq Booking
      /\ O \subseteq Booking /\ who[p] \notin O
  BY <1>2, FS_Subset, ConstantsAssumption DEF LiveBookings
<1>7. \A b \in Booking : booked[b] \in Nat
  BY DEF ValuesOK
<1>. HIDE DEF A, O
<1>8. Sum(booked, A) \in Nat /\ Sum(booked, O) \in Nat /\ Sum(booked, O) <= Sum(booked, A)
  BY <1>6, <1>7, SumSubset, BytesFinite
<1>9. Others(p) + OwnCounted(p) <= ReservedAt(gone[p])
  <2>1. CASE OnSession(p) \/ (op[p] = "commit" /\ Live(who[p]))
    <3>1. OwnCounted(p) = booked[who[p]] /\ who[p] \in A /\ who[p] \in Booking
      BY <1>5, <2>1 DEF OwnCounted
    <3>2. U \subseteq A /\ U \subseteq Booking
      BY <1>6, <3>1
    <3>3. U = O \cup {who[p]}
      OBVIOUS
    <3>. HIDE DEF U
    <3>4. Sum(booked, U) = Sum(booked, O) + booked[who[p]]
      BY <1>6, <1>7, <3>2, <3>3, SumAdd
    <3>5. Sum(booked, U) <= Sum(booked, A)
      BY <1>6, <1>7, <3>2, SumSubset
    <3>. QED
      BY <1>3, <3>1, <3>4, <3>5
  <2>2. CASE ~(OnSession(p) \/ (op[p] = "commit" /\ Live(who[p])))
    <3>1. OwnCounted(p) = 0
      BY <2>2 DEF OwnCounted
    <3>. QED
      BY <1>3, <1>8, <3>1
  <2>. QED
    BY <2>1, <2>2
<1>10. expired \subseteq gone[p] => ReservedAt(gone[p]) = Reserved
  BY <1>3, <1>4, Zenon
<1>. QED
  BY <1>9, <1>10

LEMMA LockUserCounts ==
    ASSUME IInv, NEW p \in Request, LockUser(p)
    PROVE  CountedInv(p)'
<1>1. TypeOK /\ ValuesOK /\ ControlInv /\ WithinQuota /\ excuse \in Nat
  BY DEF IInv, TypeOK
<1>2. /\ pc'[p] = "counted" /\ op' = op /\ who' = who
      /\ seen'[p].used = Used /\ seen'[p].reserved = ReservedAt(gone[p])
      /\ seen'[p].clean = (/\ excuse = 0 /\ returned \cap Owned = {}
                           /\ expired \subseteq gone[p])
  BY <1>1, LockUserEffect
<1>3. UNCHANGED <<bookings, rows, admin>> /\ pc[p] = IF OnSession(p) THEN "session" ELSE "begun"
  BY DEF LockUser
<1>4. NetUsed' = NetUsed /\ Others(p)' = Others(p) /\ OwnCounted(p)' = OwnCounted(p)
      /\ quota' = quota
  BY <1>2, <1>3 DEF NetUsed, Net, Owned, Others, LiveBookings, Live, Active, OwnCounted, OnSession,
     bookings, rows, admin
<1>5. NetUsed <= Used
  <2>1. IsFiniteSet(Owned) /\ Net \subseteq Owned /\ \A c \in Owned : Size[c] \in Nat
    BY <1>1, Amounts, SizeNat DEF AmountsOK, Net
  <2>. QED
    BY <2>1, SumSubset DEF NetUsed, Used
<1>6. Others(p) + OwnCounted(p) <= ReservedAt(gone[p])
  BY <1>1, <1>3, ReservedAtCounts
<1>7. ASSUME seen'[p].clean, quota # 0
      PROVE  Used + ReservedAt(gone[p]) <= quota
  <2>1. excuse = 0 /\ returned \cap Owned = {} /\ expired \subseteq gone[p]
    BY <1>2, <1>7
  <2>2. Net = Owned
    BY <2>1 DEF Net
  <2>3. NetUsed = Used
    BY <2>2, Zenon DEF NetUsed, Used
  <2>4. ReservedAt(gone[p]) = Reserved
    BY <1>1, <1>3, <2>1, ReservedAtCounts
  <2>5. NetUsed + Reserved <= quota + excuse /\ NetUsed \in Nat /\ Reserved \in Nat /\ quota \in Nat
    BY <1>1, <1>7, WithinIs, Amounts, QuotaNat DEF AmountsOK
  <2>. QED
    BY <2>1, <2>3, <2>4, <2>5
<1>. QED
  BY <1>2, <1>4, <1>5, <1>6, <1>7 DEF CountedInv

(* A request that fits has the room it was admitted with.                  *)
LEMMA FitsLeavesRoom ==
    ASSUME IInv, NEW p \in Request, pc[p] = "counted", NewContent(p), Fits(p), quota # 0,
           what[p] \in Content
    PROVE  \/ /\ Additional(p) = Size[what[p]]
              /\ NetUsed + Others(p) + Additional(p) <= quota
           \/ /\ Additional(p) = 0 /\ op[p] \notin {"hold", "commit"}
              /\ op[p] \in {"upload", "finish"} =>
                   Sum(Size, WithIt(what[p])) + Reserved <= quota + excuse
<1>1. TypeOK /\ ValuesOK /\ ControlInv /\ WithinQuota /\ excuse \in Nat /\ quota \in Nat
  BY QuotaNat DEF IInv, TypeOK
<1>2. RequestInv(p) /\ BookingInv
  BY <1>1 DEF ControlInv
<1>3. /\ NetUsed <= seen[p].used
      /\ Others(p) + OwnCounted(p) <= seen[p].reserved
      /\ seen[p].used \in Nat /\ seen[p].reserved \in Nat
  BY <1>1 DEF IInv, CountedInv, ValuesOK
<1>4. NetUsed \in Nat /\ Others(p) \in Nat /\ Reserved \in Nat
  BY <1>1, Amounts DEF AmountsOK
<1>5. /\ Additional(p) = Size[what[p]] \/ (Additional(p) = 0 /\ what[p] \in Owned)
      /\ Additional(p) \in Nat /\ Size[what[p]] \in Nat \ {0}
  BY <1>1, AdditionalIs, ConstantsAssumption
<1>6. ASSUME Additional(p) = 0
      PROVE  Sum(Size, WithIt(what[p])) + Reserved <= quota + excuse
  <2>1. what[p] \in Owned
    BY <1>5, <1>6
  <2>2. WithIt(what[p]) = Net
    BY <2>1 DEF WithIt, Net
  <2>3. Sum(Size, WithIt(what[p])) = NetUsed
    BY <2>2, Zenon DEF NetUsed
  <2>. QED
    BY <1>1, <2>3, WithinIs
<1>7. op[p] \in {"hold", "commit"} => Additional(p) = Size[what[p]]
  BY <1>5 DEF NewContent
<1>8. CASE op[p] \in {"upload", "finish"} /\ Additional(p) = 0
  BY <1>6, <1>8
<1>9. OnSession(p) \/ op[p] = "commit" => who[p] \in Booking /\ booked[who[p]] \in Nat
  BY <1>1, <1>2, Works DEF OnSession, ValuesOK
<1>10. CASE op[p] # "commit" /\ Additional(p) <= Remaining(p)
  <2>1. Own(p) \in Nat /\ Own(p) <= OwnCounted(p)
    <3>1. CASE op[p] \in {"resume", "declare"}
      BY <1>9, <3>1 DEF Own, OwnCounted, OnSession
    <3>2. CASE op[p] = "finish" /\ Live(who[p])
      BY <1>9, <3>2 DEF Own, OwnCounted, OnSession
    <3>3. CASE ~(op[p] \in {"resume", "declare"}) /\ ~(op[p] = "finish" /\ Live(who[p]))
      <4>1. Own(p) = 0
        BY <3>3, Zenon DEF Own
      <4>2. OwnCounted(p) \in Nat
        BY <1>9, <1>10 DEF OwnCounted
      <4>. QED
        BY <4>1, <4>2
    <3>. QED
      BY <3>1, <3>2, <3>3
  <2>2. OwnCounted(p) \in Nat
    BY <1>9 DEF OwnCounted
  <2>3. Others(p) <= Excess(seen[p].reserved - Own(p)) /\ Excess(seen[p].reserved - Own(p)) \in Nat
    BY <1>3, <1>4, <2>1, <2>2 DEF Excess
  <2>4. NetUsed + Others(p) + Additional(p) <= quota
    BY <1>1, <1>3, <1>4, <1>5, <1>10, <2>3 DEF Remaining
  <2>. QED
    BY <1>5, <1>6, <1>7, <2>4
<1>11. CASE op[p] = "commit" /\ 0 <= Remaining(p)
  <2>1. Own(p) = 0
    BY <1>11, Zenon DEF Own
  <2>2. seen[p].reserved <= Excess(seen[p].reserved) /\ Excess(seen[p].reserved) \in Nat
    BY <1>3 DEF Excess
  <2>3. seen[p].used + seen[p].reserved <= quota
    <3>1. seen[p].reserved - 0 = seen[p].reserved
      BY <1>3
    <3>2. Remaining(p) = quota - seen[p].used - Excess(seen[p].reserved)
      BY <2>1, <3>1 DEF Remaining
    <3>. QED
      BY <1>1, <1>3, <1>11, <2>2, <3>2
  <2>4. who[p] \in Hold /\ what[p] = content[who[p]] /\ Live(who[p])
    BY <1>2, <1>11 DEF RequestInv, NewContent
  <2>5. OwnCounted(p) = Size[what[p]]
    BY <1>2, <1>11, <2>4 DEF OwnCounted, BookingInv, Live
  <2>. QED
    BY <1>1, <1>3, <1>4, <1>5, <1>7, <1>11, <2>3, <2>5
<1>. QED
  BY <1>8, <1>10, <1>11 DEF Fits

LEMMA AdmitLeavesRoom ==
    ASSUME IInv, ValuesOK', Excuse, NEW p \in Request, Admit(p)
    PROVE  AdmittedInv(p)'
<1>1. TypeOK /\ ValuesOK /\ ControlInv /\ WithinQuota /\ RequestInv(p)
  BY DEF IInv, TypeOK, ControlInv
<1>2. pc[p] = "counted" /\ NewContent(p) /\ Fits(p) /\ UNCHANGED <<bookings, rows, admin>>
  BY DEF Admit
<1>. PICK c \in Content : c = what[p]
  BY <1>1, <1>2, Works
<1>3. /\ pc'[p] = "admitted" /\ op' = op /\ what' = what /\ who' = who
      /\ need'[p] = IF quota = 0 THEN 0 ELSE Additional(p)
  BY <1>1, AdmitEffect
<1>4. excuse' = excuse
  BY <1>1, <1>2, <1>3, StaysShrinks, ShrinkWithin DEF UserFree
<1>5. /\ NetUsed' = NetUsed /\ Others(p)' = Others(p) /\ Reserved' = Reserved
      /\ quota' = quota /\ what'[p] = c
      /\ Sum(Size, (Owned' \cup {c}) \ returned') = Sum(Size, WithIt(c))
  BY <1>2, <1>3 DEF NetUsed, Net, Owned, Others, Reserved, LiveBookings, Live, Active, WithIt,
     bookings, rows, admin
<1>. SUFFICES ASSUME quota # 0
              PROVE  AdmittedInv(p)'
  BY <1>5 DEF AdmittedInv
<1>6. \/ /\ Additional(p) = Size[c]
         /\ NetUsed + Others(p) + Additional(p) <= quota
      \/ /\ Additional(p) = 0 /\ op[p] \notin {"hold", "commit"}
         /\ op[p] \in {"upload", "finish"} =>
              Sum(Size, WithIt(c)) + Reserved <= quota + excuse
  BY <1>2, FitsLeavesRoom
<1>. QED
  BY <1>3, <1>4, <1>5, <1>6 DEF AdmittedInv

(* What a commit does to usage and to the booked bytes.                    *)
LEMMA AddRowUses ==
    ASSUME ValuesOK, NEW p \in Request, what[p] \in Content, AddRow(p)
    PROVE  /\ need[p] # 0 => NetUsed' <= NetUsed + Size[what[p]]
           /\ need[p] = 0 => NetUsed' = Sum(Size, WithIt(what[p]))
<1>1. /\ Owned' = Owned \cup {what[p]}
      /\ returned' = IF need[p] = 0 THEN returned ELSE returned \ {what[p]}
  BY AddRowEffect
<1>2. NetUsed' = Sum(Size, Net') /\ Net' = Owned' \ returned'
  BY Zenon DEF NetUsed, Net
<1>3. ASSUME need[p] # 0
      PROVE  NetUsed' <= NetUsed + Size[what[p]]
  <2>1. Net' \subseteq Net \cup {what[p]}
    BY <1>1, <1>2, <1>3 DEF Net
  <2>. QED
    BY <1>2, <2>1, NetOneMore
<1>4. ASSUME need[p] = 0
      PROVE  NetUsed' = Sum(Size, WithIt(what[p]))
  <2>1. Net' = WithIt(what[p])
    BY <1>1, <1>2, <1>4 DEF WithIt
  <2>. QED
    BY <1>2, <2>1, Zenon
<1>. QED
  BY <1>3, <1>4

LEMMA BookUses ==
    ASSUME ValuesOK, ValuesOK', NEW p \in Request, who[p] \in Booking, NEW n \in Nat,
           Book(who[p], n)
    PROVE  Reserved' <= Others(p) + n
<1>1. /\ booked'[who[p]] = n /\ expired' = expired
      /\ \A d \in Booking \ {who[p]} : status'[d] = status[d] /\ booked'[d] = booked[d]
  BY BookEffect
<1>2. LiveBookings' \ {who[p]} \subseteq LiveBookings
      /\ LiveBookings' \subseteq Booking
  BY <1>1 DEF LiveBookings, Live, Active
<1>3. \A b \in LiveBookings' : booked'[b] = IF b = who[p] THEN n ELSE booked[b]
  BY <1>1, <1>2
<1>4. booked' \in [Booking -> Nat]
  BY DEF ValuesOK
<1>5. Reserved' = Sum(booked', LiveBookings')
  BY Zenon DEF Reserved
<1>. QED
  BY <1>2, <1>3, <1>4, <1>5, BookedByOne

LEMMA CloseUses ==
    ASSUME ValuesOK, ValuesOK', NEW p \in Request, who[p] \in Booking, Close(who[p])
    PROVE  Reserved' <= Others(p)
<1>1. /\ status'[who[p]] = "closed" /\ expired' = expired \ {who[p]}
      /\ \A d \in Booking \ {who[p]} : status'[d] = status[d] /\ booked'[d] = booked[d]
  BY CloseEffect
<1>2. LiveBookings' \subseteq LiveBookings \ {who[p]} /\ LiveBookings \subseteq Booking
  BY <1>1 DEF LiveBookings, Live, Active
<1>3. \A b \in LiveBookings' : booked'[b] = booked[b]
  BY <1>1, <1>2
<1>4. booked' \in [Booking -> Nat]
  BY DEF ValuesOK
<1>5. Reserved' = Sum(booked', LiveBookings')
  BY Zenon DEF Reserved
<1>. QED
  BY <1>2, <1>3, <1>4, <1>5, BookedLess

LEMMA OthersReserved ==
    ASSUME ValuesOK, NEW p \in Request
    PROVE  /\ Others(p) \in Nat /\ Reserved \in Nat /\ Others(p) <= Reserved
           /\ who[p] = NoBooking => Others(p) = Reserved
<1>. DEFINE O == LiveBookings \ {who[p]}
<1>1. Others(p) = Sum(booked, O) /\ Reserved = Sum(booked, LiveBookings)
  BY Zenon DEF Others, Reserved
<1>2. Others(p) \in Nat /\ Reserved \in Nat
  BY Amounts DEF AmountsOK
<1>3. O \in SUBSET LiveBookings
  OBVIOUS
<1>4. Sum(booked, O) <= Reserved
  <2>. HIDE DEF O
  <2>. QED
    BY <1>3, ReservedLess
<1>5. who[p] = NoBooking => O = LiveBookings
  BY ConstantsAssumption DEF LiveBookings
<1>6. who[p] = NoBooking => Others(p) = Reserved
  <2>. HIDE DEF O
  <2>. QED
    BY <1>1, <1>5, Zenon
<1>. QED
  BY <1>1, <1>2, <1>4, <1>6

(* A commit of the request that has the row of the user.                   *)
LEMMA CommitBounds ==
    ASSUME IInv, ValuesOK', Excuse, UNCHANGED admin, NEW p \in Request, AtUser(p),
           Forgotten(p), \A q \in Request \ {p} : Same(q),
           quota # 0 => NetUsed' + Reserved' <= quota + excuse
    PROVE  Bounds'
<1>1. TypeOK /\ LockInv /\ quota' = quota /\ changes' = changes
  BY DEF IInv, ControlInv, admin
<1>2. WithinQuota'
  BY <1>1, WithinKept
<1>3. CountedInv(p)' /\ AdmittedInv(p)'
  BY NotAtUser, RequestEnds
<1>4. \A q \in Request \ {p} : CountedInv(q)' /\ AdmittedInv(q)'
  BY <1>1, OthersAway
<1>. QED
  BY <1>2, <1>3, <1>4 DEF Bounds

(* The three ways a commit takes what it was admitted with.                *)
LEMMA CommitUses ==
    ASSUME IInv, ValuesOK', NEW p \in Request, pc[p] = "admitted", UNCHANGED admin,
           \/ op[p] = "upload" /\ AddRow(p) /\ UNCHANGED bookings
           \/ op[p] \in {"finish", "commit"} /\ AddRow(p) /\ Close(who[p])
           \/ op[p] \in {"create", "resume", "declare"} /\ Book(who[p], need[p]) /\ UNCHANGED rows
           \/ op[p] = "hold" /\ Book(who[p], Size[what[p]]) /\ UNCHANGED rows
    PROVE  quota # 0 => NetUsed' + Reserved' <= quota + excuse
<1>. SUFFICES ASSUME quota # 0
              PROVE  NetUsed' + Reserved' <= quota + excuse
  OBVIOUS
<1>1. TypeOK /\ ValuesOK /\ RequestInv(p) /\ AdmittedInv(p) /\ WithinQuota
  BY DEF IInv, TypeOK, ControlInv
<1>. PICK c \in Content : c = what[p]
  BY <1>1, Works
<1>2. excuse \in Nat /\ quota \in Nat /\ need[p] \in Nat /\ Size[c] \in Nat \ {0}
  BY <1>1, QuotaNat, ConstantsAssumption DEF TypeOK, ValuesOK
<1>3. PICK u \in Nat, r \in Nat : u = NetUsed' /\ r = Reserved'
  BY AmountsNext
<1>4. NetUsed \in Nat /\ Reserved \in Nat /\ Others(p) \in Nat /\ Others(p) <= Reserved
      /\ (who[p] = NoBooking => Others(p) = Reserved) /\ Sum(Size, WithIt(c)) \in Nat
  BY <1>1, Amounts, OthersReserved, WithItNat DEF AmountsOK
<1>5. NetUsed + Reserved <= quota + excuse
  BY <1>1, WithinIs
<1>6. \/ need[p] = Size[c] /\ NetUsed + Others(p) + need[p] <= quota
      \/ /\ need[p] = 0 /\ op[p] \notin {"hold", "commit"}
         /\ op[p] \in {"upload", "finish"} =>
              Sum(Size, WithIt(c)) + Reserved <= quota + excuse
  BY <1>1, Zenon DEF AdmittedInv, WithIt
<1>7. op[p] # "upload" => who[p] \in Booking
  BY <1>1, Works
<1>8. UNCHANGED rows => u = NetUsed
  BY <1>3 DEF NetUsed, Net, Owned, rows
<1>9. AddRow(p) => /\ need[p] # 0 => u <= NetUsed + Size[c]
                   /\ need[p] = 0 => u = Sum(Size, WithIt(c))
  BY <1>1, <1>3, AddRowUses
<1>10. CASE op[p] = "upload" /\ AddRow(p) /\ UNCHANGED bookings
  <2>1. who[p] = NoBooking
    BY <1>1, <1>10 DEF RequestInv
  <2>2. r = Reserved
    BY <1>3, <1>10 DEF Reserved, LiveBookings, Live, Active, bookings
  <2>3. u + r <= quota + excuse
    BY <1>2, <1>4, <1>6, <1>9, <1>10, <2>1, <2>2
  <2>. QED
    BY <1>3, <2>3
<1>11. CASE op[p] \in {"finish", "commit"} /\ AddRow(p) /\ Close(who[p])
  <2>1. r <= Others(p)
    BY <1>1, <1>3, <1>7, <1>11, CloseUses
  <2>2. u + r <= quota + excuse
    BY <1>2, <1>4, <1>6, <1>9, <1>11, <2>1
  <2>. QED
    BY <1>3, <2>2
<1>12. CASE op[p] \in {"create", "resume", "declare"} /\ Book(who[p], need[p]) /\ UNCHANGED rows
  <2>1. r <= Others(p) + need[p]
    BY <1>1, <1>2, <1>3, <1>7, <1>12, BookUses
  <2>2. u + r <= quota + excuse
    BY <1>2, <1>4, <1>5, <1>6, <1>8, <1>12, <2>1
  <2>. QED
    BY <1>3, <2>2
<1>13. CASE op[p] = "hold" /\ Book(who[p], Size[what[p]]) /\ UNCHANGED rows
  <2>1. r <= Others(p) + Size[c]
    BY <1>1, <1>2, <1>3, <1>7, <1>13, BookUses
  <2>2. u + r <= quota + excuse
    BY <1>2, <1>4, <1>6, <1>8, <1>13, <2>1
  <2>. QED
    BY <1>3, <2>2
<1>. QED
  BY <1>10, <1>11, <1>12, <1>13

(* The quota, and what requests know of it, after any step.                *)
LEMMA BoundsStep == IInv /\ ValuesOK' /\ Next => Bounds'
<1>. SUFFICES ASSUME IInv, ValuesOK', Step, Excuse
              PROVE  Bounds'
  BY DEF Next
<1>1. TypeOK /\ ValuesOK /\ ControlInv /\ \A p \in Request : RequestInv(p)
  BY DEF IInv, TypeOK, ControlInv
<1>2. ASSUME NEW p \in Request, NEW o, NEW c \in Content, NEW b \in Booking \cup {NoBooking},
             o \in {"upload", "create", "resume", "declare", "finish", "hold", "commit"},
             Begin(p, o, c, b)
      PROVE  Bounds'
  <2>1. pc'[p] = "begun" /\ \A q \in Request \ {p} : Same(q)
    BY <1>1, <1>2, BeginEffect
  <2>2. Shrinks
    BY <1>2, StaysShrinks DEF Begin
  <2>. QED
    BY <2>1, <2>2, ShrinkBounds DEF AtUser
<1>3. ASSUME NEW p \in Request, LockSession(p)
      PROVE  Bounds'
  <2>1. pc'[p] = "session" /\ \A q \in Request \ {p} : Same(q)
    BY <1>1, <1>3, LockSessionEffect
  <2>2. Shrinks
    BY <1>3, StaysShrinks DEF LockSession
  <2>. QED
    BY <2>1, <2>2, ShrinkBounds DEF AtUser
<1>4. ASSUME NEW p \in Request, LockUser(p)
      PROVE  Bounds'
  <2>1. pc'[p] = "counted" /\ \A q \in Request \ {p} : Same(q)
    BY <1>1, <1>4, LockUserEffect
  <2>2. Shrinks
    BY <1>4, StaysShrinks DEF LockUser
  <2>3. CountedInv(p)' /\ AdmittedInv(p)'
    BY <1>4, <2>1, LockUserCounts DEF AdmittedInv
  <2>. QED
    BY <2>1, <2>2, <2>3, ShrinkBounds
<1>5. ASSUME NEW p \in Request, Admit(p)
      PROVE  Bounds'
  <2>1. what[p] \in Content
    BY <1>1, <1>5, Works DEF Admit
  <2>2. pc'[p] = "admitted" /\ \A q \in Request \ {p} : Same(q)
    BY <1>1, <1>5, <2>1, AdmitEffect
  <2>3. Shrinks
    BY <1>5, StaysShrinks DEF Admit
  <2>4. CountedInv(p)' /\ AdmittedInv(p)'
    BY <1>5, <2>2, AdmitLeavesRoom DEF CountedInv
  <2>. QED
    BY <2>2, <2>3, <2>4, ShrinkBounds
<1>6. ASSUME NEW p \in Request, NEW r \in Row, CopyReads(p, r)
      PROVE  Bounds'
  <2>1. pc'[p] = "copying" /\ \A q \in Request \ {p} : Same(q)
    BY <1>1, <1>6, CopyReadsEffect
  <2>2. Shrinks
    BY <1>6, StaysShrinks DEF CopyReads
  <2>. QED
    BY <2>1, <2>2, ShrinkBounds DEF AtUser
<1>7. ASSUME NEW p \in Request, Forget(p), Shrinks
      PROVE  Bounds'
  <2>1. ~AtUser(p)' /\ \A q \in Request \ {p} : Same(q)
    BY <1>1, <1>7, ForgetEffect, RequestEnds
  <2>. QED
    BY <1>7, <2>1, ShrinkBounds
<1>8. ASSUME UNCHANGED request, Shrinks
      PROVE  Bounds'
  BY <1>1, <1>8, KeptTypes, ShrinkBounds
<1>9. ASSUME NEW p \in Request, Forget(p), pc[p] = "admitted", UNCHANGED admin,
             \/ op[p] = "upload" /\ AddRow(p) /\ UNCHANGED bookings
             \/ op[p] \in {"finish", "commit"} /\ AddRow(p) /\ Close(who[p])
             \/ op[p] \in {"create", "resume", "declare"} /\ Book(who[p], need[p])
                  /\ UNCHANGED rows
             \/ op[p] = "hold" /\ Book(who[p], Size[what[p]]) /\ UNCHANGED rows
      PROVE  Bounds'
  <2>1. Forgotten(p) /\ \A q \in Request \ {p} : Same(q)
    BY <1>1, <1>9, ForgetEffect
  <2>2. quota # 0 => NetUsed' + Reserved' <= quota + excuse
    BY <1>9, CommitUses
  <2>3. AtUser(p)
    BY <1>9 DEF AtUser
  <2>. QED
    BY <1>9, <2>1, <2>2, <2>3, CommitBounds
<1>10. ASSUME changes' = changes + 1, UNCHANGED request, \A q \in Request : ~AtUser(q)
       PROVE  Bounds'
  <2>1. changes' # changes
    BY <1>1, <1>10, ConstantsAssumption DEF ValuesOK
  <2>2. \A q \in Request : ~AtUser(q)'
    BY <1>10 DEF AtUser, request
  <2>. QED
    BY <1>1, <2>1, <2>2, ExcuseStep, NotAtUser DEF Bounds
<1>11. ASSUME NEW p \in Request, Abort(p)
       PROVE  Bounds'
  BY <1>7, <1>11, StaysShrinks DEF Abort
<1>12. ASSUME NEW p \in Request, CommitUpload(p) \/ CommitCreate(p) \/ CommitResume(p)
                                 \/ CommitHold(p) \/ CommitFile(p)
       PROVE  Bounds'
  BY <1>9, <1>12 DEF CommitUpload, CommitCreate, CommitResume, CommitHold, CommitFile
<1>13. ASSUME NEW p \in Request, Skip(p)
       PROVE  Bounds'
  <2>1. who[p] \in Booking
    BY <1>1, <1>13, Works DEF Skip
  <2>2. Shrinks
    BY <1>1, <1>13, <2>1, CloseShrinks DEF Skip
  <2>. QED
    BY <1>7, <1>13, <2>2 DEF Skip
<1>14. ASSUME NEW p \in Request, CopyCommits(p)
       PROVE  Bounds'
  <2>1. what[p] \in Content
    BY <1>1, <1>14, Works DEF CopyCommits
  <2>2. Shrinks
    BY <1>1, <1>14, <2>1, CopyShrinks
  <2>. QED
    BY <1>7, <1>14, <2>2 DEF CopyCommits
<1>15. ASSUME NEW b \in Booking, Expire(b)
       PROVE  Bounds'
  BY <1>8, <1>15, ExpireShrinks DEF Expire
<1>16. ASSUME NEW b \in Booking, CloseBooking(b)
       PROVE  Bounds'
  BY <1>1, <1>8, <1>16, CloseShrinks DEF CloseBooking
<1>17. ASSUME NEW rs \in SUBSET Row, Purge(rs)
       PROVE  Bounds'
  <2>1. UNCHANGED request
    BY <1>17 DEF Purge
  <2>. QED
    BY <1>1, <1>8, <1>17, <2>1, PurgeShrinks
<1>18. ASSUME NEW q \in Quotas, SetQuota(q)
       PROVE  Bounds'
  BY <1>10, <1>18 DEF SetQuota, UserFree, AtUser
<1>19. ASSUME ServerStart
       PROVE  Bounds'
  BY <1>10, <1>19 DEF ServerStart, AtUser
<1>20. ASSUME NEW p \in Request,
              NEW o \in {"create", "resume", "declare", "finish", "hold", "commit"},
              NEW b \in Booking, Begin(p, o, content[b], b)
       PROVE  Bounds'
  <2>1. content[b] \in Content
    BY <1>1 DEF ValuesOK
  <2>. QED
    BY <1>2, <1>20, <2>1
<1>21. ASSUME NEW p \in Request, NEW c \in Content, Begin(p, "upload", c, NoBooking)
       PROVE  Bounds'
  BY <1>2, <1>21
<1>. QED
  BY <1>3, <1>4, <1>5, <1>6, <1>11, <1>12, <1>13, <1>14, <1>15, <1>16, <1>17, <1>18, <1>19,
     <1>20, <1>21 DEF Step

-----------------------------------------------------------------------------
(* Theorems                                                                *)

LEMMA InvInit == Init => IInv
<1>. SUFFICES ASSUME Init
              PROVE  IInv
  OBVIOUS
<1>1. TypeOK
  BY ConstantsAssumption DEF Init, TypeOK, ValuesOK, NothingSeen
<1>2. ControlInv
  <2>1. ASSUME NEW p \in Request
        PROVE  /\ pc[p] = "idle" /\ op[p] = "upload" /\ who[p] = NoBooking /\ gone[p] = {}
               /\ ~AtUser(p) /\ ~LocksSession(p) /\ ~OnSession(p)
    BY DEF Init, AtUser, LocksSession, OnSession
  <2>2. LockInv
    BY <2>1 DEF LockInv
  <2>3. BookingInv
    BY DEF Init, BookingInv, Active, Booking
  <2>4. \A p \in Request : RequestInv(p) /\ PastInv(p)
    BY <2>1 DEF RequestInv, PastInv
  <2>. QED
    BY <2>2, <2>3, <2>4 DEF ControlInv
<1>3. Owned = {} /\ LiveBookings = {}
  BY DEF Init, Owned, LiveBookings, Live, Active
<1>4. Bytes(Size, {}) = {} /\ Bytes(booked, {}) = {}
  BY DEF Bytes
<1>5. NetUsed = 0 /\ Reserved = 0
  <2>1. Net = {}
    BY <1>3 DEF Net
  <2>2. NetUsed = Cardinality({}) /\ Reserved = Cardinality({})
    BY <1>3, <1>4, <2>1, Zenon DEF NetUsed, Reserved, Sum
  <2>. QED
    BY <2>2, FS_EmptySet
<1>6. WithinQuota
  BY <1>1, <1>5, WithinIs, QuotaNat DEF TypeOK
<1>7. \A p \in Request : CountedInv(p) /\ AdmittedInv(p)
  BY DEF Init, CountedInv, AdmittedInv
<1>. QED
  BY <1>1, <1>2, <1>6, <1>7 DEF IInv

LEMMA InvNext == IInv /\ [Next]_vars => IInv'
<1>. SUFFICES ASSUME IInv, [Next]_vars
              PROVE  IInv'
  OBVIOUS
<1>1. CASE Next
  <2>1. TypeOK /\ ValuesOK /\ ControlInv /\ Step /\ Excuse
    BY <1>1 DEF IInv, TypeOK, Next
  <2>2. ValuesOK'
    BY <2>1, ValuesStep
  <2>3. TypeOK'
    BY <2>1, <2>2, ExcuseStep DEF TypeOK
  <2>4. ControlInv'
    BY <2>1, ControlStep
  <2>5. Bounds'
    BY <1>1, <2>2, BoundsStep
  <2>. QED
    BY <2>3, <2>4, <2>5 DEF IInv, Bounds
<1>2. CASE UNCHANGED vars
  <2>1. /\ UNCHANGED <<quota, row, status, content, declared, booked, expired>>
        /\ UNCHANGED <<pc, op, what, who, gone, seen, need, returned, excuse, changes>>
    BY <1>2 DEF vars, bookings, request
  <2>2. TypeOK'
    BY <2>1 DEF IInv, TypeOK, ValuesOK
  <2>3. ControlInv'
    BY <2>1 DEF IInv, ControlInv, LockInv, BookingInv, RequestInv, PastInv, AtUser,
       LocksSession, OnSession, Active
  <2>4. /\ Owned' = Owned /\ LiveBookings' = LiveBookings /\ Net' = Net /\ Reserved' = Reserved
        /\ NetUsed' = NetUsed /\ Used' = Used /\ Over' = Over
    BY <2>1 DEF Owned, LiveBookings, Live, Active, Net, Reserved, NetUsed, Used, Over
  <2>5. WithinQuota'
    BY <2>1, <2>4 DEF IInv, WithinQuota
  <2>6. ASSUME NEW p \in Request
        PROVE  CountedInv(p)' /\ AdmittedInv(p)'
    <3>1. Others(p)' = Others(p) /\ OwnCounted(p)' = OwnCounted(p)
      BY <2>1, <2>4 DEF Others, OwnCounted, OnSession, Live, Active
    <3>2. CountedInv(p) /\ AdmittedInv(p)
      BY DEF IInv
    <3>. QED
      BY <2>1, <2>4, <3>1, <3>2 DEF CountedInv, AdmittedInv
  <2>. QED
    BY <2>2, <2>3, <2>5, <2>6 DEF IInv
<1>. QED
  BY <1>1, <1>2

(* The inductive invariant: types, locks and bookings, the quota, and what *)
(* requests at the row of the user know of it.                             *)
THEOREM InvariantHolds == Spec => []IInv
<1>1. Init => IInv
  BY InvInit
<1>2. IInv /\ [Next]_vars => IInv'
  BY InvNext
<1>. QED
  BY <1>1, <1>2, PTL DEF Spec

(* Used and reserved bytes exceed the quota only by what they exceeded it  *)
(* by when it was last changed and by what copies brought back.            *)
THEOREM WithinQuotaAlways == Spec => []WithinQuota
<1>1. IInv => WithinQuota
  BY DEF IInv
<1>. QED
  BY <1>1, InvariantHolds, PTL

(* A finalize whose session holds its whole size is not refused.           *)
THEOREM ReservationHonouredAlways == Spec => []ReservationHonoured
<1>1. IInv => ReservationHonoured
  <2>. SUFFICES ASSUME IInv, NEW p \in Request, pc[p] = "counted", op[p] = "finish",
                       seen[p].clean, Live(who[p]), booked[who[p]] = Size[what[p]], quota # 0
                PROVE  Additional(p) <= Remaining(p)
    BY Zenon DEF ReservationHonoured, Fits
  <2>1. ValuesOK /\ RequestInv(p) /\ CountedInv(p) /\ what[p] \in Content
    BY Works DEF IInv, TypeOK, ControlInv
  <2>2. Own(p) = Size[what[p]] /\ OwnCounted(p) = Size[what[p]]
    BY DEF Own, OwnCounted, OnSession
  <2>3. Others(p) + Size[what[p]] <= seen[p].reserved /\ seen[p].used + seen[p].reserved <= quota
    BY <2>1, <2>2 DEF CountedInv
  <2>4. /\ Others(p) \in Nat /\ Size[what[p]] \in Nat /\ quota \in Nat
        /\ seen[p].used \in Nat /\ seen[p].reserved \in Nat
    BY <2>1, Amounts, SizeNat, QuotaNat DEF AmountsOK, ValuesOK
  <2>5. Additional(p) \in Nat /\ Additional(p) <= Size[what[p]]
    BY <2>1, <2>4, AdditionalIs
  <2>6. Excess(seen[p].reserved - Size[what[p]]) = seen[p].reserved - Size[what[p]]
    BY <2>3, <2>4 DEF Excess
  <2>. QED
    BY <2>2, <2>3, <2>4, <2>5, <2>6 DEF Remaining
<1>. QED
  BY <1>1, InvariantHolds, PTL

(* The commit of a push whose hold has not expired is not refused.         *)
THEOREM HoldHonouredAlways == Spec => []HoldHonoured
<1>1. IInv => HoldHonoured
  <2>. SUFFICES ASSUME IInv, NEW p \in Request, pc[p] = "counted", op[p] = "commit",
                       seen[p].clean, Live(who[p]), quota # 0
                PROVE  0 <= Remaining(p)
    BY Zenon DEF HoldHonoured, Fits
  <2>1. ValuesOK /\ CountedInv(p)
    BY DEF IInv, TypeOK
  <2>2. /\ quota \in Nat /\ seen[p].used \in Nat /\ seen[p].reserved \in Nat
        /\ seen[p].used + seen[p].reserved <= quota
    BY <2>1, QuotaNat DEF CountedInv, ValuesOK
  <2>3. Own(p) = 0
    BY Zenon DEF Own
  <2>4. Remaining(p) = quota - seen[p].used - Excess(seen[p].reserved)
    <3>1. seen[p].reserved - 0 = seen[p].reserved
      BY <2>2
    <3>. QED
      BY <2>3, <3>1 DEF Remaining
  <2>. QED
    BY <2>2, <2>4 DEF Excess
<1>. QED
  BY <1>1, InvariantHolds, PTL

===============================================================================
