----------------------------- MODULE CopiesProofs -----------------------------
(***************************************************************************)
(* What is proved of the copies of a message: only its author makes them.  *)
(***************************************************************************)
EXTENDS ConversationProofs, FiniteSetTheorems

USE WireAssumption, SystemAssumption

-----------------------------------------------------------------------------
(* Occurrences in a sequence *)

(* They are finitely many. *)
LEMMA OccurrencesAreFinite ==
  ASSUME NEW T, NEW s \in Seq(T), NEW X
  PROVE  IsFiniteSet(Places(s, X)) /\ Occurrences(s, X) \in Nat
<1> DEFINE A == Places(s, X)
<1>1. Len(s) \in Nat
  OBVIOUS
<1>2. IsFiniteSet(1..Len(s))
  BY <1>1, FS_Interval
<1>3. A \in SUBSET (1..Len(s))
  BY DEF Places
<1>4. IsFiniteSet(A)
  BY <1>2, <1>3, FS_Subset
<1> QED
  BY <1>4, FS_CardinalityType DEF Occurrences

(* An empty sequence has none. *)
LEMMA NoOccurrences == \A X : Occurrences(<<>>, X) = 0
<1> TAKE X
<1>1. Places(<<>>, X) = {}
  BY DEF Places
<1> QED
  BY <1>1, FS_EmptySet DEF Occurrences

(* An item at the end counts if it is in X. *)
LEMMA OccurrencesAppend ==
  ASSUME NEW T, NEW s \in Seq(T), NEW e \in T, NEW X
  PROVE  Occurrences(Append(s, e), X) =
           IF e \in X THEN Occurrences(s, X) + 1 ELSE Occurrences(s, X)
<1> DEFINE t == Append(s, e)
           n == Len(s) + 1
           A == Places(s, X)
           B == Places(t, X)
<1>1. /\ Len(t) = n /\ Len(s) \in Nat
      /\ \A i \in 1..Len(s) : t[i] = s[i]
      /\ t[n] = e
  BY AppendProperties
<1> HIDE DEF t
<1>2. 1..n = (1..Len(s)) \cup {n} /\ n \notin 1..Len(s)
  BY <1>1
<1> HIDE DEF n
<1>3. n \notin A
  BY <1>2 DEF Places
<1>4. B = IF e \in X THEN A \cup {n} ELSE A
  BY <1>1, <1>2 DEF Places
<1>5. /\ IsFiniteSet(A)
      /\ Occurrences(s, X) = Cardinality(A) /\ Occurrences(t, X) = Cardinality(B)
  <2>1. IsFiniteSet(A)
    BY OccurrencesAreFinite
  <2>2. Occurrences(s, X) = Cardinality(A) /\ Occurrences(t, X) = Cardinality(B)
    BY DEF Occurrences
  <2> QED
    BY <2>1, <2>2
<1> HIDE DEF A, B
<1>6. Cardinality(B) = IF e \in X THEN Cardinality(A) + 1 ELSE Cardinality(A)
  BY <1>3, <1>4, <1>5, FS_AddElement
<1> QED
  BY <1>5, <1>6 DEF t

(* The first counts if it is in X, and the others are those of the tail. *)
LEMMA OccurrencesTail ==
  ASSUME NEW T, NEW s \in Seq(T), s # <<>>, NEW X
  PROVE  Occurrences(s, X) =
           IF Head(s) \in X THEN Occurrences(Tail(s), X) + 1 ELSE Occurrences(Tail(s), X)
<1> DEFINE t == Tail(s)
           A == Places(s, X)
           B == Places(t, X)
           R == A \ {1}
           f == [i \in B |-> i + 1]
<1>1. /\ t \in Seq(T) /\ Head(s) = s[1] /\ Len(s) \in Nat /\ Len(s) >= 1
      /\ Len(t) = Len(s) - 1
      /\ \A i \in 1..Len(t) : t[i] = s[i + 1] /\ i + 1 \in 1..Len(s)
  BY TailItems
<1> HIDE DEF t
<1>2. \A i \in B : i \in Nat /\ i + 1 \in R
  <2> SUFFICES ASSUME NEW i \in B PROVE i \in Nat /\ i + 1 \in R
    OBVIOUS
  <2>1. i \in 1..Len(t) /\ t[i] \in X
    BY DEF Places
  <2>2. i \in Nat /\ i + 1 # 1 /\ i + 1 \in 1..Len(s) /\ s[i + 1] = t[i]
    <3>1. i \in 1..Len(t)
      BY <2>1
    <3> QED
      BY <1>1, <3>1
  <2> QED
    BY <2>1, <2>2 DEF Places
<1>3. \A j \in R : j - 1 \in B /\ (j - 1) + 1 = j
  <2> SUFFICES ASSUME NEW j \in R PROVE j - 1 \in B /\ (j - 1) + 1 = j
    OBVIOUS
  <2>1. j \in 1..Len(s) /\ j # 1 /\ s[j] \in X
    BY DEF Places
  <2>2. j - 1 \in 1..Len(t) /\ (j - 1) + 1 = j
    BY <1>1, <2>1
  <2>3. t[j - 1] = s[j]
    BY <1>1, <2>2
  <2> QED
    BY <2>1, <2>2, <2>3 DEF Places
<1>4. f \in Bijection(B, R)
  <2> HIDE DEF B, R
  <2>1. f \in [B -> R]
    BY <1>2
  <2>2. \A i, j \in B : f[i] = f[j] => i = j
    BY <1>2
  <2>3. \A j \in R : \E i \in B : f[i] = j
    <3> TAKE j \in R
    <3>1. j - 1 \in B /\ f[j - 1] = j
      BY <1>3
    <3> QED
      BY <3>1
  <2> QED
    BY <2>1, <2>2, <2>3 DEF Bijection, Injection, Surjection, IsInjective
<1>5. /\ IsFiniteSet(B) /\ IsFiniteSet(A)
      /\ Occurrences(s, X) = Cardinality(A) /\ Occurrences(t, X) = Cardinality(B)
      /\ Occurrences(s, X) \in Nat /\ Occurrences(t, X) \in Nat
  <2>1. /\ IsFiniteSet(B) /\ Occurrences(t, X) \in Nat
        /\ IsFiniteSet(A) /\ Occurrences(s, X) \in Nat
    BY <1>1, OccurrencesAreFinite
  <2>2. Occurrences(s, X) = Cardinality(A) /\ Occurrences(t, X) = Cardinality(B)
    BY DEF Occurrences
  <2> QED
    BY <2>1, <2>2
<1>6. Cardinality(R) = Cardinality(B)
  BY <1>4, <1>5, FS_Bijection DEF ExistsBijection
<1>7. 1 \in A <=> Head(s) \in X
  BY <1>1 DEF Places
<1>8. Cardinality(R) = IF 1 \in A THEN Cardinality(A) - 1 ELSE Cardinality(A)
  BY <1>5, FS_RemoveElement
<1> DEFINE x == Occurrences(s, X)
           y == Occurrences(t, X)
<1>9. x \in Nat /\ y \in Nat /\ y = IF 1 \in A THEN x - 1 ELSE x
  BY <1>5, <1>6, <1>8
<1> HIDE DEF x, y
<1>10. x = IF 1 \in A THEN y + 1 ELSE y
  BY <1>9
<1> QED
  BY <1>7, <1>10 DEF t, x, y

-----------------------------------------------------------------------------
(* The three places *)

(* Where a's message n is: with a, with c, and what c has heard. *)
AtAuthor(a, n)    == Occurrences(toServer[a], Messages(a, n))
AtHearer(a, c, n) == Occurrences(toClient[c], Messages(a, n))
Heard(a, c, n)    == Occurrences(heard[c], {<<KeyOf[a], n>>})

(* The copy a makes. *)
Copy(a, n) == IF Writes(a, n) THEN 1 ELSE 0

(* They are numbers. *)
LEMMA CountsTypes ==
  ASSUME SystemTypes, NEW a \in Clients, NEW c \in Clients, NEW n
  PROVE  AtAuthor(a, n) \in Nat /\ AtHearer(a, c, n) \in Nat /\ Heard(a, c, n) \in Nat
<1> DEFINE T == (Keys \cup {NoKey}) \X Nat
<1>1. toServer[a] \in Seq(Datum) /\ toClient[c] \in Seq(Datum) /\ heard[c] \in Seq(T)
  BY DEF SystemTypes
<1> HIDE DEF T
<1> QED
  BY <1>1, OccurrencesAreFinite DEF AtAuthor, AtHearer, Heard

(* A client's step adds to what it has written one datum, or none. *)
LEMMA TalkWrites ==
  ASSUME SystemTypes, NEW x \in Clients, TalkStep(x), NEW a \in Clients, NEW n
  PROVE  AtAuthor(a, n)' <= AtAuthor(a, n) + Copy(a, n)
<1>1. toServer[a] \in Seq(Datum) /\ AtAuthor(a, n) \in Nat
  BY CountsTypes DEF SystemTypes
<1>2. Copy(a, n) \in Nat
  BY DEF Copy
<1>3. CASE toServer'[a] = toServer[a]
  <2>1. AtAuthor(a, n)' = AtAuthor(a, n)
    BY <1>3 DEF AtAuthor, Messages
  <2> QED
    BY <1>1, <1>2, <2>1
<1>4. ASSUME NEW d \in Datum, toServer'[a] = Append(toServer[a], d)
      PROVE  AtAuthor(a, n)' <= AtAuthor(a, n) + Copy(a, n)
  <2>1. AtAuthor(a, n)' = IF d \in Messages(a, n) THEN AtAuthor(a, n) + 1
                          ELSE AtAuthor(a, n)
    BY <1>1, <1>4, OccurrencesAppend DEF AtAuthor, Messages
  <2>2. Writes(a, n) <=> d \in Messages(a, n)
    <3>1. /\ Len(toServer'[a]) = Len(toServer[a]) + 1 /\ Len(toServer[a]) \in Nat
          /\ toServer'[a][Len(toServer[a]) + 1] = d
      BY <1>1, <1>4, AppendProperties
    <3>2. Len(toServer'[a]) > Len(toServer[a]) /\ Last(toServer'[a]) = d
      BY <3>1 DEF Last
    <3> QED
      BY <3>2 DEF Writes
  <2>3. CASE d \in Messages(a, n)
    BY <1>1, <2>1, <2>2, <2>3 DEF Copy
  <2>4. CASE d \notin Messages(a, n)
    BY <1>1, <1>2, <2>1, <2>4
  <2> QED
    BY <2>3, <2>4
<1>5. CASE UNCHANGED toServer
  BY <1>3, <1>5
<1>6. ASSUME NEW d, Wrote(x, d), Says(x, d)
      PROVE  AtAuthor(a, n)' <= AtAuthor(a, n) + Copy(a, n)
  <2>1. toServer'[a] = IF a = x THEN Append(toServer[a], d) ELSE toServer[a]
    BY <1>6 DEF Says, SystemTypes
  <2>2. d \in Datum
    BY <1>6 DEF Wrote
  <2> QED
    BY <1>3, <1>4, <2>1, <2>2
<1> QED
  BY <1>5, <1>6 DEF TalkStep, SaysHead

(* A client hears what it takes off its socket, and hears it once. *)
LEMMA TalkHears ==
  ASSUME SystemTypes, NEW x \in Clients, TalkStep(x),
         NEW a \in Clients, NEW c \in Clients, NEW n
  PROVE  AtHearer(a, c, n)' + Heard(a, c, n)' <= AtHearer(a, c, n) + Heard(a, c, n)
<1> DEFINE T == (Keys \cup {NoKey}) \X Nat
           r == Head(toClient[x])
           h == <<r.from, r.msg>>
<1>1. /\ toClient[c] \in Seq(Datum) /\ heard[c] \in Seq(T)
      /\ AtHearer(a, c, n) \in Nat /\ Heard(a, c, n) \in Nat
  BY CountsTypes DEF SystemTypes
<1>2. CASE toClient'[c] = toClient[c] /\ heard'[c] = heard[c]
  <2>1. AtHearer(a, c, n)' = AtHearer(a, c, n) /\ Heard(a, c, n)' = Heard(a, c, n)
    BY <1>2 DEF AtHearer, Heard, Messages
  <2> QED
    BY <1>1, <2>1
<1>3. ASSUME c = x, toClient[x] # <<>>, toClient'[c] = Tail(toClient[c]),
             \/ heard'[c] = heard[c]
             \/ r.type = "msg" /\ heard'[c] = Append(heard[c], h)
      PROVE  AtHearer(a, c, n)' + Heard(a, c, n)' <= AtHearer(a, c, n) + Heard(a, c, n)
  <2>1. r \in Datum /\ Tail(toClient[c]) \in Seq(Datum)
    BY <1>1, <1>3, TailItems
  <2>2. h \in T
    BY <2>1 DEF Datum
  <2> HIDE DEF T
  <2>3. /\ AtHearer(a, c, n)' \in Nat
        /\ AtHearer(a, c, n) = IF r \in Messages(a, n) THEN AtHearer(a, c, n)' + 1
                               ELSE AtHearer(a, c, n)'
    <3>1. AtHearer(a, c, n)' = Occurrences(Tail(toClient[c]), Messages(a, n))
      BY <1>3 DEF AtHearer, Messages
    <3>2. Occurrences(toClient[c], Messages(a, n)) =
            IF r \in Messages(a, n) THEN Occurrences(Tail(toClient[c]), Messages(a, n)) + 1
            ELSE Occurrences(Tail(toClient[c]), Messages(a, n))
      BY <1>1, <1>3, OccurrencesTail
    <3> QED
      BY <2>1, <3>1, <3>2, OccurrencesAreFinite DEF AtHearer
  <2>4. CASE heard'[c] = heard[c]
    <3>1. Heard(a, c, n)' = Heard(a, c, n)
      BY <2>4 DEF Heard
    <3> QED
      BY <1>1, <2>3, <3>1
  <2>5. CASE r.type = "msg" /\ heard'[c] = Append(heard[c], h)
    <3>1. h = <<KeyOf[a], n>> => r \in Messages(a, n)
      BY <2>1, <2>5 DEF Messages
    <3> HIDE DEF h
    <3>2. Heard(a, c, n)' = IF h \in {<<KeyOf[a], n>>} THEN Heard(a, c, n) + 1
                            ELSE Heard(a, c, n)
      BY <1>1, <2>2, <2>5, OccurrencesAppend DEF Heard
    <3> HIDE DEF r
    <3>3. CASE h = <<KeyOf[a], n>>
      <4>1. /\ Heard(a, c, n)' = Heard(a, c, n) + 1
            /\ AtHearer(a, c, n) = AtHearer(a, c, n)' + 1
        BY <2>3, <3>1, <3>2, <3>3
      <4> QED
        BY <1>1, <2>3, <4>1
    <3>4. CASE h # <<KeyOf[a], n>>
      <4>1. Heard(a, c, n)' = Heard(a, c, n)
        BY <3>2, <3>4
      <4> QED
        BY <1>1, <2>3, <4>1
    <3> QED
      BY <3>3, <3>4
  <2> QED
    BY <1>3, <2>4, <2>5
<1>4. CASE UNCHANGED <<toClient, heard>>
  BY <1>2, <1>4
<1>5. CASE /\ toClient[x] # <<>>
           /\ toClient' = [toClient EXCEPT ![x] = Tail(@)]
           /\ HearsOrNot(x, r)
  <2>1. toClient'[c] = IF c = x THEN Tail(toClient[c]) ELSE toClient[c]
    BY <1>5 DEF SystemTypes
  <2>2. \/ heard'[c] = heard[c]
        \/ c = x /\ r.type = "msg" /\ heard'[c] = Append(heard[c], h)
    <3>1. CASE UNCHANGED heard
      BY <3>1
    <3>2. CASE r.type = "msg" /\ heard' = [heard EXCEPT ![x] = Append(@, h)]
      <4> HIDE DEF r
      <4> QED
        BY <3>2 DEF SystemTypes
    <3> QED
      BY <1>5, <3>1, <3>2 DEF HearsOrNot
  <2> HIDE DEF r, h
  <2>3. CASE c = x
    BY <1>3, <1>5, <2>1, <2>2, <2>3
  <2>4. CASE c # x
    BY <1>2, <2>1, <2>2, <2>4
  <2> QED
    BY <2>3, <2>4
<1> QED
  BY <1>4, <1>5 DEF TalkStep

(* The server takes a datum off its author's socket, and writes it to each
   recipient once. *)
LEMMA ServePasses ==
  ASSUME OwnKeys, SystemTypes, ClientsInv, TablesInv, NEW x \in Clients, ServerReceives(x),
         NEW a \in Clients, NEW c \in Clients, NEW n
  PROVE  AtAuthor(a, n)' + AtHearer(a, c, n)' <= AtAuthor(a, n) + AtHearer(a, c, n)
<1> DEFINE d == Head(toServer[x])
           M == Messages(a, n)
           b == IF d \in M THEN 1 ELSE 0
<1>1. /\ Wrote(x, d) /\ IsWritten(x, d, c) /\ toServer[x] # <<>>
      /\ toServer' = [toServer EXCEPT ![x] = Tail(@)]
  BY Handled, Served DEF ServerReceives
<1>2. /\ toServer[a] \in Seq(Datum) /\ toServer[x] \in Seq(Datum)
      /\ toClient[c] \in Seq(Datum) /\ d \in Datum
      /\ AtAuthor(a, n) \in Nat /\ AtHearer(a, c, n) \in Nat
  BY <1>1, CountsTypes DEF SystemTypes, Wrote
<1>3. M' = M
  BY DEF Messages
<1>4. d \in M => a = x
  BY <1>1 DEF Wrote, OwnKeys, Messages
<1>5. \A r \in Datum : r.type # "msg" => r \notin M
  BY DEF Messages
<1>6. AtAuthor(a, n)' \in Nat /\ AtAuthor(a, n)' + b <= AtAuthor(a, n)
  <2>1. CASE a = x
    <3>1. toServer'[a] = Tail(toServer[a]) /\ Tail(toServer[a]) \in Seq(Datum)
      BY <1>1, <1>2, <2>1, TailItems DEF SystemTypes
    <3>2. AtAuthor(a, n)' = Occurrences(Tail(toServer[a]), M)
      BY <1>3, <3>1 DEF AtAuthor
    <3>3. AtAuthor(a, n) = IF d \in M THEN Occurrences(Tail(toServer[a]), M) + 1
                           ELSE Occurrences(Tail(toServer[a]), M)
      <4> HIDE DEF M
      <4> QED
        BY <1>1, <1>2, <2>1, OccurrencesTail DEF AtAuthor, M
    <3> HIDE DEF d, M
    <3>4. AtAuthor(a, n)' \in Nat
      <4>1. Occurrences(Tail(toServer[a]), M) \in Nat
        BY <3>1, OccurrencesAreFinite
      <4> QED
        BY <3>2, <4>1
    <3>5. AtAuthor(a, n) = IF d \in M THEN AtAuthor(a, n)' + 1 ELSE AtAuthor(a, n)'
      BY <3>2, <3>3
    <3> QED
      BY <1>2, <3>4, <3>5
  <2>2. CASE a # x
    <3>1. toServer'[a] = toServer[a]
      BY <1>1, <2>2 DEF SystemTypes
    <3>2. AtAuthor(a, n)' = AtAuthor(a, n)
      BY <1>3, <3>1 DEF AtAuthor
    <3>3. b = 0
      BY <1>4, <2>2
    <3> QED
      BY <1>2, <3>2, <3>3
  <2> QED
    BY <2>1, <2>2
<1>7. AtHearer(a, c, n)' \in Nat /\ AtHearer(a, c, n)' <= AtHearer(a, c, n) + b
  <2>1. PICK q : /\ \/ q = toClient[c]
                    \/ d.type = "msg" /\ IsSentTo(x, c) /\ q = Append(toClient[c], d)
                 /\ \/ toClient'[c] = q
                    \/ \E r \in Datum : r.type # "msg" /\ toClient'[c] = Append(q, r)
    BY <1>1 DEF IsWritten
  <2> HIDE DEF d, M
  <2>2. /\ q \in Seq(Datum)
        /\ Occurrences(q, M) <= Occurrences(toClient[c], M) + b
    <3>1. Occurrences(toClient[c], M) \in Nat
      BY <1>2 DEF AtHearer, M
    <3>2. CASE q = toClient[c]
      BY <1>2, <3>1, <3>2
    <3>3. CASE q = Append(toClient[c], d)
      <4>1. Append(toClient[c], d) \in Seq(Datum)
        BY <1>2, AppendProperties
      <4>2. Occurrences(q, M) = IF d \in M THEN Occurrences(toClient[c], M) + 1
                                ELSE Occurrences(toClient[c], M)
        BY <1>2, <3>3, OccurrencesAppend
      <4> QED
        BY <3>1, <3>3, <4>1, <4>2
    <3> QED
      BY <2>1, <3>2, <3>3
  <2>3. Occurrences(toClient'[c], M) = Occurrences(q, M)
    <3>1. ASSUME NEW r \in Datum, r.type # "msg", toClient'[c] = Append(q, r)
          PROVE  Occurrences(toClient'[c], M) = Occurrences(q, M)
      BY <1>5, <2>2, <3>1, OccurrencesAppend
    <3> QED
      BY <2>1, <3>1
  <2>4. AtHearer(a, c, n)' = Occurrences(q, M)
    BY <1>3, <2>3 DEF AtHearer, M
  <2>5. AtHearer(a, c, n) = Occurrences(toClient[c], M)
    BY DEF AtHearer, M
  <2>6. Occurrences(q, M) \in Nat
    BY <2>2, OccurrencesAreFinite
  <2> QED
    BY <2>2, <2>4, <2>5, <2>6
<1>8. b \in Nat
  OBVIOUS
<1> HIDE DEF b
<1> QED
  BY <1>2, <1>6, <1>7, <1>8

(* What is lost is not copied. *)
LEMMA LossCopiesNothing ==
  ASSUME SystemTypes, LosesSome, NEW a \in Clients, NEW c \in Clients, NEW n
  PROVE  /\ AtAuthor(a, n)' <= AtAuthor(a, n)
         /\ AtHearer(a, c, n)' <= AtHearer(a, c, n)
         /\ Heard(a, c, n)' = Heard(a, c, n)
<1>1. AtAuthor(a, n) \in Nat /\ AtHearer(a, c, n) \in Nat
  BY CountsTypes
<1>2. /\ toServer'[a] = toServer[a] \/ toServer'[a] = <<>>
      /\ toClient'[c] = toClient[c] \/ toClient'[c] = <<>>
      /\ heard' = heard
  BY DEF LosesSome, clientVars
<1>3. Messages(a, n)' = Messages(a, n)
  BY DEF Messages
<1>4. AtAuthor(a, n)' = AtAuthor(a, n) \/ AtAuthor(a, n)' = 0
  BY <1>2, <1>3, NoOccurrences DEF AtAuthor
<1>5. AtHearer(a, c, n)' = AtHearer(a, c, n) \/ AtHearer(a, c, n)' = 0
  BY <1>2, <1>3, NoOccurrences DEF AtHearer
<1>6. Heard(a, c, n)' = Heard(a, c, n)
  BY <1>2 DEF Heard
<1> QED
  BY <1>1, <1>4, <1>5, <1>6

(* Whatever happens, a message is copied by its author, or by nobody. *)
LEMMA CopiesStep ==
  ASSUME OwnKeys, SystemTypes, SystemTypes', ClientsInv, TablesInv, [Next]_vars,
         NEW a \in Clients, NEW c \in Clients, NEW n
  PROVE  Copies(a, c, n)' <= Copies(a, c, n) + (IF Writes(a, n) THEN 1 ELSE 0)
<1> DEFINE x  == AtAuthor(a, n)
           y  == AtHearer(a, c, n)
           z  == Heard(a, c, n)
           xx == AtAuthor(a, n)'
           yy == AtHearer(a, c, n)'
           zz == Heard(a, c, n)'
           w  == Copy(a, n)
<1>1. x \in Nat /\ y \in Nat /\ z \in Nat
  BY CountsTypes
<1>2. xx \in Nat /\ yy \in Nat /\ zz \in Nat
  <2> DEFINE T == (Keys \cup {NoKey}) \X Nat
  <2>1. toServer'[a] \in Seq(Datum) /\ toClient'[c] \in Seq(Datum) /\ heard'[c] \in Seq(T)
    BY DEF SystemTypes
  <2> HIDE DEF T
  <2> QED
    BY <2>1, OccurrencesAreFinite DEF AtAuthor, AtHearer, Heard
<1>3. w \in Nat
  BY DEF Copy
<1>4. Copies(a, c, n) = x + y + z /\ Copies(a, c, n)' = xx + yy + zz
  BY DEF Copies, AtAuthor, AtHearer, Heard
<1>5. xx + yy + zz <= x + y + z + w
  <2>1. ASSUME NEW e \in Clients, TalkStep(e)
        PROVE  xx + yy + zz <= x + y + z + w
    <3>1. xx <= x + w /\ yy + zz <= y + z
      BY <2>1, TalkWrites, TalkHears
    <3> HIDE DEF x, y, z, xx, yy, zz, w
    <3> QED
      BY <1>1, <1>2, <1>3, <3>1
  <2>2. ASSUME NEW e \in Clients, ServerReceives(e)
        PROVE  xx + yy + zz <= x + y + z + w
    <3>1. xx + yy <= x + y
      BY <2>2, ServePasses
    <3>2. zz = z
      BY <2>2 DEF ServerReceives, clientVars, Heard
    <3> HIDE DEF x, y, z, xx, yy, zz, w
    <3> QED
      BY <1>1, <1>2, <1>3, <3>1, <3>2
  <2>3. CASE LosesSome
    <3>1. xx <= x /\ yy <= y /\ zz = z
      BY <2>3, LossCopiesNothing
    <3> HIDE DEF x, y, z, xx, yy, zz, w
    <3> QED
      BY <1>1, <1>2, <1>3, <3>1
  <2> QED
    BY <2>1, <2>2, <2>3, StepKinds
<1> QED
  BY <1>4, <1>5 DEF Copy

(* Whatever clients, server and network do, breaks, crashes and repeated sends
   included, a message is multiplied by nobody but its author, if clients have
   a key each. *)
THEOREM OnlyAuthorsRepeat ==
  ASSUME OwnKeys
  PROVE  Spec => NothingIsMultiplied
<1>1. Spec => []SystemInv
  BY SystemInvariant
<1>2. SystemInv /\ SystemInv' /\ [Next]_vars =>
        [\A a, c \in Clients, n \in 1..MaxMessages :
           Copies(a, c, n)' <= Copies(a, c, n) + (IF Writes(a, n) THEN 1 ELSE 0)]_vars
  BY CopiesStep DEF SystemInv
<1> QED
  BY <1>1, <1>2, PTL DEF Spec, NothingIsMultiplied
=============================================================================
