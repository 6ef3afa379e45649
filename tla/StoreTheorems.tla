----------------------------- MODULE StoreTheorems -----------------------------
(***************************************************************************)
(* The order of list_by_phone, for every finite table: the ranks of the    *)
(* conversations of a number are 0, 1, 2 and so on without a gap or a      *)
(* repetition, so a page holds no more than its limit, and fewer only at   *)
(* the end of the list.                                                    *)
(***************************************************************************)
EXTENDS ConversationStore, FiniteSetTheorems, TLAPS

\* The part of a table the order is computed from.
Listable(s) ==
    /\ IsFiniteSet(DOMAIN s)
    /\ DOMAIN s \subseteq Nat
    /\ \A c \in DOMAIN s : s[c].created_at \in Nat

\* The conversations listed before c.
Before(s, c) == {d \in OfPhone(s, s[c].phone_number) : Newer(s, d, c)}

\* The conversations of a number are finitely many, and so are those before one.
LEMMA FiniteLists ==
    ASSUME NEW s, Listable(s), NEW phone, NEW c
    PROVE  IsFiniteSet(OfPhone(s, phone)) /\ IsFiniteSet(Before(s, c))
    BY FS_Subset DEF Listable, OfPhone, Before

\* Any two conversations are ordered, by the id if by nothing else.
LEMMA NewerTotal ==
    ASSUME NEW s, Listable(s), NEW c \in DOMAIN s, NEW d \in DOMAIN s
    PROVE  /\ ~Newer(s, c, c)
           /\ c # d => Newer(s, c, d) \/ Newer(s, d, c)
    BY DEF Listable, Newer

\* The order is transitive.
LEMMA NewerTransitive ==
    ASSUME NEW s, Listable(s), NEW c \in DOMAIN s, NEW d \in DOMAIN s, NEW e \in DOMAIN s,
           Newer(s, c, d), Newer(s, d, e)
    PROVE  Newer(s, c, e)
    BY DEF Listable, Newer

\* A rank is a number, below the length of the list.
LEMMA RankBound ==
    ASSUME NEW s, Listable(s), NEW c \in DOMAIN s
    PROVE  /\ Rank(s, c) \in Nat
           /\ Rank(s, c) < Cardinality(OfPhone(s, s[c].phone_number))
<1> DEFINE list == OfPhone(s, s[c].phone_number)
<1>1. IsFiniteSet(list) /\ IsFiniteSet(Before(s, c))
    BY FiniteLists
<1>2. Before(s, c) \subseteq list /\ c \in list \ Before(s, c)
    BY NewerTotal DEF Before, OfPhone
<1>3. Cardinality(Before(s, c)) <= Cardinality(list) /\ Cardinality(list) # Cardinality(Before(s, c))
    BY <1>1, <1>2, FS_Subset
<1>4. Cardinality(Before(s, c)) \in Nat /\ Cardinality(list) \in Nat
    BY <1>1, FS_CardinalityType
<1> QED
    BY <1>3, <1>4 DEF Rank, Before

\* What comes before has the smaller rank.
LEMMA RankOrdered ==
    ASSUME NEW s, Listable(s), NEW c \in DOMAIN s, NEW d \in DOMAIN s,
           s[c].phone_number = s[d].phone_number, Newer(s, c, d)
    PROVE  Rank(s, c) < Rank(s, d)
<1>1. Before(s, c) \subseteq Before(s, d)
    BY NewerTransitive DEF Before, OfPhone
<1>2. c \in Before(s, d) \ Before(s, c)
    BY NewerTotal DEF Before, OfPhone
<1>3. IsFiniteSet(Before(s, c)) /\ IsFiniteSet(Before(s, d))
    BY FiniteLists
<1>4. /\ Cardinality(Before(s, c)) <= Cardinality(Before(s, d))
      /\ Cardinality(Before(s, d)) # Cardinality(Before(s, c))
    BY <1>1, <1>2, <1>3, FS_Subset
<1>5. Cardinality(Before(s, c)) \in Nat /\ Cardinality(Before(s, d)) \in Nat
    BY <1>3, FS_CardinalityType
<1> QED
    BY <1>4, <1>5 DEF Rank, Before

\* No two conversations of a number have one rank.
LEMMA RankUnique ==
    ASSUME NEW s, Listable(s), NEW c \in DOMAIN s, NEW d \in DOMAIN s,
           s[c].phone_number = s[d].phone_number, Rank(s, c) = Rank(s, d)
    PROVE  c = d
<1>1. Rank(s, c) \in Nat /\ Rank(s, d) \in Nat
    BY RankBound
<1> QED
    BY <1>1, NewerTotal, RankOrdered

\* No rank below the length of the list is missing.
LEMMA RankOnto ==
    ASSUME NEW s, Listable(s), NEW phone, NEW k \in Nat,
           k < Cardinality(OfPhone(s, phone))
    PROVE  \E c \in OfPhone(s, phone) : Rank(s, c) = k
<1> DEFINE list == OfPhone(s, phone)
           n == Cardinality(list)
           ranks == [c \in list |-> Rank(s, c)]
<1>1. IsFiniteSet(list) /\ n \in Nat /\ n # 0
    BY FiniteLists, FS_CardinalityType
<1> HIDE DEF n
<1>2. IsFiniteSet(0 .. n - 1) /\ Cardinality(0 .. n - 1) = n
    BY <1>1, FS_Interval
<1>3. \A c \in list : Rank(s, c) \in 0 .. n - 1
  <2> SUFFICES ASSUME NEW c \in list PROVE Rank(s, c) \in 0 .. n - 1
    OBVIOUS
  <2>1. c \in DOMAIN s /\ s[c].phone_number = phone
    BY DEF OfPhone
  <2>2. Rank(s, c) \in Nat /\ Rank(s, c) < n
    BY <2>1, RankBound DEF n
  <2> QED
    BY <1>1, <2>2
<1>4. \A c, d \in list : Rank(s, c) = Rank(s, d) => c = d
    BY RankUnique DEF OfPhone
<1> HIDE DEF list
<1>5. ranks \in Injection(list, 0 .. n - 1)
    BY <1>3, <1>4 DEF Injection, IsInjective
<1>6. ranks \in Surjection(list, 0 .. n - 1)
    BY <1>1, <1>2, <1>5, FS_Injection DEF n
<1>7. k \in 0 .. n - 1
    BY <1>1 DEF n, list
<1>8. \E c \in list : ranks[c] = k
    BY <1>6, <1>7 DEF Surjection
<1> QED
    BY <1>8 DEF list

\* A page is finite and within its limit; it is full unless the list ends in it.
LEMMA PageSize ==
    ASSUME NEW s, Listable(s), NEW phone, NEW limit \in Nat, NEW offset \in Nat
    PROVE  /\ IsFiniteSet(ListByPhone(s, phone, limit, offset))
           /\ Cardinality(ListByPhone(s, phone, limit, offset)) <= limit
           /\ Cardinality(ListByPhone(s, phone, limit, offset)) < limit =>
                  \A c \in OfPhone(s, phone) : Rank(s, c) < offset + limit
<1> DEFINE list == OfPhone(s, phone)
           page == ListByPhone(s, phone, limit, offset)
           span == offset .. offset + limit - 1
           ranks == [c \in page |-> Rank(s, c)]
<1>1. \A c \in list : /\ c \in DOMAIN s /\ s[c].phone_number = phone
                      /\ Rank(s, c) \in Nat /\ Rank(s, c) < Cardinality(list)
    BY RankBound DEF OfPhone
<1>2. page \subseteq list /\ \A c \in page : Rank(s, c) \in span
    BY <1>1 DEF ListByPhone
<1>3. IsFiniteSet(span) /\ Cardinality(span) = limit
    BY FS_Interval
<1>4. IsFiniteSet(page)
    BY <1>2, FiniteLists, FS_Subset
<1> HIDE DEF page, span
<1>5. ranks \in Injection(page, span)
    BY <1>1, <1>2, RankUnique DEF Injection, IsInjective
<1>6. Cardinality(page) <= limit
    BY <1>3, <1>5, FS_Injection
<1>7. ASSUME NEW c \in list, ~(Rank(s, c) < offset + limit)
      PROVE  Cardinality(page) = limit
  <2>1. Cardinality(list) \in Nat
    BY FiniteLists, FS_CardinalityType
  <2>2. \A k \in span : k \in Nat /\ k < Cardinality(list) /\ offset <= k /\ k < offset + limit
    BY <1>1, <1>7, <2>1 DEF span
  <2>3. ASSUME NEW k \in span PROVE \E d \in page : Rank(s, d) = k
    <3>1. PICK d \in list : Rank(s, d) = k
      BY <2>2, RankOnto
    <3>2. d \in page
      BY <2>2, <3>1 DEF page, ListByPhone
    <3> QED
      BY <3>1, <3>2
  <2>4. ranks \in Surjection(page, span)
    BY <1>2, <2>3 DEF Surjection
  <2> QED
    BY <1>3, <1>5, <2>4, FS_Injection
<1>8. Cardinality(page) < limit => \A c \in list : Rank(s, c) < offset + limit
    BY <1>7
<1> QED
    BY <1>4, <1>6, <1>8 DEF page

\* Between two tables, rows have joined a list, and none has left it or moved in it.
Grows(s, new) ==
    /\ DOMAIN s \subseteq DOMAIN new
    /\ \A c \in DOMAIN s :
           /\ new[c].phone_number = s[c].phone_number
           /\ new[c].created_at = s[c].created_at

\* What was in a list stays there, and stays in its order.
LEMMA ListsGrow ==
    ASSUME NEW s, NEW new, Grows(s, new), NEW phone
    PROVE  /\ OfPhone(s, phone) \subseteq OfPhone(new, phone)
           /\ \A c, d \in DOMAIN s : Newer(new, c, d) <=> Newer(s, c, d)
    BY DEF Grows, OfPhone, Newer

\* So a rank never gets smaller, and changes only if a row has joined the list.
LEMMA RanksGrow ==
    ASSUME NEW s, NEW new, Listable(s), Listable(new), Grows(s, new), NEW c \in DOMAIN s
    PROVE  /\ Rank(s, c) <= Rank(new, c)
           /\ OfPhone(new, s[c].phone_number) = OfPhone(s, s[c].phone_number) =>
                  Rank(new, c) = Rank(s, c)
<1>1. c \in DOMAIN new /\ new[c].phone_number = s[c].phone_number
    BY DEF Grows
<1>2. Before(s, c) \subseteq Before(new, c)
    BY <1>1, ListsGrow DEF Before, OfPhone
<1>3. IsFiniteSet(Before(new, c))
    BY FiniteLists
<1>4. Rank(s, c) <= Rank(new, c)
    BY <1>2, <1>3, FS_Subset DEF Rank, Before
<1>5. ASSUME OfPhone(new, s[c].phone_number) = OfPhone(s, s[c].phone_number)
      PROVE  Before(new, c) = Before(s, c)
    BY <1>1, <1>5, ListsGrow DEF Before, OfPhone
<1> QED
    BY <1>4, <1>5 DEF Rank, Before
=============================================================================
