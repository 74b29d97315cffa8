---------------------------- MODULE FiguresProofs ----------------------------
(***************************************************************************)
(* Theorems about the datasets and the figures in them: Figures for any    *)
(* threads, universes, datasets and uploads, and MonthEnd for any books,   *)
(* feeds, budget files, contexts and texts.                                *)
(***************************************************************************)
EXTENDS Figures, MonthEnd, FiniteSetTheorems, SequenceTheorems, WellFoundedInduction, TLAPS

-----------------------------------------------------------------------------
(* What a request may still have to do.                                    *)

Steps ==
    {"read rows", "set active", "create", "find", "delete", "write values", "write budgets",
     "read values", "write facts", "define", "read facts", "write derived",
     "write all derived"}

\* k comes after h where h is the first of n steps left.
Follows(h, n, k) ==
    \/ h = "read values" /\ n \in {2, 6} /\ k = "write facts"
    \/ h = "write values" /\ n \in {3, 7} /\ k = "read values"
    \/ h = "create" /\ n = 4 /\ k = "write values"
    \/ h = "read rows" /\ n = 5 /\ k = "create"
    \/ h = "read rows" /\ n = 2 /\ k = "set active"
    \/ h = "find" /\ n = 8 /\ k = "write values"
    \/ h \in {"write budgets", "write derived", "write all derived"} /\ n = 3 /\ k = "read values"
    \/ h = "define" /\ n = 5 /\ k = "read facts"
    \/ h = "read facts" /\ n = 4 /\ k \in {"write derived", "write all derived"}
    \/ h = "write facts" /\ n = 5 /\ k = "read facts"

Ends == {"write facts", "set active", "delete"}

Plans ==
    {p \in Seq(Steps) :
        /\ p # <<>> => p[Len(p)] \in Ends
        /\ \A i \in 1 .. Len(p) - 1 : Follows(p[i], Len(p) - i + 1, p[i + 1])}

(* Concatenations of lists of given lengths. *)
LEMMA Join1And2 ==
    ASSUME NEW a, NEW b, NEW c
    PROVE  <<a>> \o <<b, c>> = <<a, b, c>>
<1> DEFINE S == {a, b, c}
<1>1. <<a>> \in Seq(S) /\ <<b, c>> \in Seq(S) /\ <<a, b, c>> \in Seq(S)
  OBVIOUS
<1>2. /\ <<a>> \o <<b, c>> \in Seq(S)
      /\ Len(<<a>> \o <<b, c>>) = 3 /\ Len(<<a, b, c>>) = 3
      /\ \A i \in 1 .. 3 : (<<a>> \o <<b, c>>)[i] = <<a, b, c>>[i]
  BY <1>1, ConcatProperties
<1>3. QED
  BY <1>1, <1>2, SeqEqual

LEMMA Join2And2 ==
    ASSUME NEW a, NEW b, NEW c, NEW d
    PROVE  <<a, b>> \o <<c, d>> = <<a, b, c, d>>
<1> DEFINE S == {a, b, c, d}
<1>1. <<a, b>> \in Seq(S) /\ <<c, d>> \in Seq(S) /\ <<a, b, c, d>> \in Seq(S)
  OBVIOUS
<1>2. /\ <<a, b>> \o <<c, d>> \in Seq(S)
      /\ Len(<<a, b>> \o <<c, d>>) = 4 /\ Len(<<a, b, c, d>>) = 4
      /\ \A i \in 1 .. 4 : (<<a, b>> \o <<c, d>>)[i] = <<a, b, c, d>>[i]
  BY <1>1, ConcatProperties
<1>3. QED
  BY <1>1, <1>2, SeqEqual

LEMMA Join2And6 ==
    ASSUME NEW a, NEW b, NEW c, NEW d, NEW e, NEW f, NEW g, NEW h
    PROVE  <<a, b>> \o <<c, d, e, f, g, h>> = <<a, b, c, d, e, f, g, h>>
<1> DEFINE S == {a, b, c, d, e, f, g, h}
<1>1. <<a, b>> \in Seq(S) /\ <<c, d, e, f, g, h>> \in Seq(S) /\ <<a, b, c, d, e, f, g, h>> \in Seq(S)
  OBVIOUS
<1>2. /\ <<a, b>> \o <<c, d, e, f, g, h>> \in Seq(S)
      /\ Len(<<a, b>> \o <<c, d, e, f, g, h>>) = 8 /\ Len(<<a, b, c, d, e, f, g, h>>) = 8
      /\ \A i \in 1 .. 8 : (<<a, b>> \o <<c, d, e, f, g, h>>)[i] = <<a, b, c, d, e, f, g, h>>[i]
  BY <1>1, ConcatProperties
<1>3. QED
  BY <1>1, <1>2, SeqEqual

LEMMA Join3And2 ==
    ASSUME NEW a, NEW b, NEW c, NEW d, NEW e
    PROVE  <<a, b, c>> \o <<d, e>> = <<a, b, c, d, e>>
<1> DEFINE S == {a, b, c, d, e}
<1>1. <<a, b, c>> \in Seq(S) /\ <<d, e>> \in Seq(S) /\ <<a, b, c, d, e>> \in Seq(S)
  OBVIOUS
<1>2. /\ <<a, b, c>> \o <<d, e>> \in Seq(S)
      /\ Len(<<a, b, c>> \o <<d, e>>) = 5 /\ Len(<<a, b, c, d, e>>) = 5
      /\ \A i \in 1 .. 5 : (<<a, b, c>> \o <<d, e>>)[i] = <<a, b, c, d, e>>[i]
  BY <1>1, ConcatProperties
<1>3. QED
  BY <1>1, <1>2, SeqEqual

LEMMA JoinTwice ==
    ASSUME NEW a, NEW b, NEW c, NEW d
    PROVE  <<a, b, c, d>> \o <<a, b>> = <<a, b, c, d, a, b>>
<1> DEFINE S == {a, b, c, d}
<1>1. <<a, b, c, d>> \in Seq(S) /\ <<a, b>> \in Seq(S) /\ <<a, b, c, d, a, b>> \in Seq(S)
  OBVIOUS
<1>2. /\ <<a, b, c, d>> \o <<a, b>> \in Seq(S)
      /\ Len(<<a, b, c, d>> \o <<a, b>>) = 6 /\ Len(<<a, b, c, d, a, b>>) = 6
      /\ \A i \in 1 .. 6 : (<<a, b, c, d>> \o <<a, b>>)[i] = <<a, b, c, d, a, b>>[i]
  BY <1>1, ConcatProperties
<1>3. QED
  BY <1>1, <1>2, SeqEqual

\* What requests set out to do.
LEMMA RequestLists ==
    /\ compute_and_store = <<"read values", "write facts">>
    /\ Refresh = <<"read values", "write facts", "read facts", "write derived", "read values",
                   "write facts">>
    /\ <<"read rows", "create", "write values">> \o compute_and_store
          = <<"read rows", "create", "write values", "read values", "write facts">>
    /\ <<"write budgets">> \o compute_and_store
          = <<"write budgets", "read values", "write facts">>
    /\ <<"define", "read facts", "write all derived">> \o compute_and_store
          = <<"define", "read facts", "write all derived", "read values", "write facts">>
    /\ <<"find", "write values">> \o Refresh
          = <<"find", "write values", "read values", "write facts", "read facts",
              "write derived", "read values", "write facts">>
<1>1. compute_and_store = <<"read values", "write facts">>
  BY DEF compute_and_store
<1>2. Refresh = <<"read values", "write facts", "read facts", "write derived", "read values",
                  "write facts">>
  <2>1. <<"read values", "write facts">> \o <<"read facts", "write derived">>
           = <<"read values", "write facts", "read facts", "write derived">>
    BY Join2And2, ZenonT(60)
  <2>2. <<"read values", "write facts", "read facts", "write derived">> \o <<"read values", "write facts">>
           = <<"read values", "write facts", "read facts", "write derived", "read values",
                  "write facts">>
    BY JoinTwice, ZenonT(60)
  <2>3. QED
    BY <2>1, <2>2, Zenon DEF Refresh, compute_and_store, materialize
<1>3. <<"read rows", "create", "write values">> \o <<"read values", "write facts">>
         = <<"read rows", "create", "write values", "read values", "write facts">>
  BY Join3And2, ZenonT(30)
<1>4. <<"write budgets">> \o <<"read values", "write facts">>
         = <<"write budgets", "read values", "write facts">>
  BY Join1And2, ZenonT(60)
<1>5. <<"define", "read facts", "write all derived">> \o <<"read values", "write facts">>
         = <<"define", "read facts", "write all derived", "read values", "write facts">>
  BY Join3And2, ZenonT(30)
<1>6. <<"find", "write values">> \o <<"read values", "write facts", "read facts", "write derived",
                                     "read values", "write facts">>
         = <<"find", "write values", "read values", "write facts", "read facts",
             "write derived", "read values", "write facts">>
  <2>1. ASSUME NEW a, NEW b, NEW c, NEW d, NEW e, NEW f
        PROVE  <<a, b>> \o <<c, d, e, f, c, d>> = <<a, b, c, d, e, f, c, d>>
    BY Join2And6
  <2>2. QED
    BY <2>1, ZenonT(60)
<1>7. QED
  BY <1>1, <1>2, <1>3, <1>4, <1>5, <1>6, Zenon

LEMMA PlanOf2 ==
    ASSUME NEW a \in Steps, NEW b \in Steps,
           Follows(a, 2, b), b \in Ends
    PROVE  <<a, b>> \in Plans
<1> DEFINE p == <<a, b>>
<1>1. p \in Seq(Steps) /\ Len(p) = 2 /\ p[1] = a /\ p[2] = b
  OBVIOUS
<1> HIDE DEF p
<1>2. \A i \in 1 .. Len(p) - 1 : Follows(p[i], Len(p) - i + 1, p[i + 1])
  BY <1>1
<1>3. p \in Plans
  BY <1>1, <1>2 DEF Plans
<1>4. QED
  BY <1>3 DEF p

LEMMA PlanOf3 ==
    ASSUME NEW a \in Steps, NEW b \in Steps, NEW c \in Steps,
           Follows(a, 3, b), Follows(b, 2, c), c \in Ends
    PROVE  <<a, b, c>> \in Plans
<1> DEFINE p == <<a, b, c>>
<1>1. p \in Seq(Steps) /\ Len(p) = 3 /\ p[1] = a /\ p[2] = b /\ p[3] = c
  OBVIOUS
<1> HIDE DEF p
<1>2. \A i \in 1 .. Len(p) - 1 : Follows(p[i], Len(p) - i + 1, p[i + 1])
  BY <1>1
<1>3. p \in Plans
  BY <1>1, <1>2 DEF Plans
<1>4. QED
  BY <1>3 DEF p

LEMMA PlanOf5 ==
    ASSUME NEW a \in Steps, NEW b \in Steps, NEW c \in Steps, NEW d \in Steps,
           NEW e \in Steps,
           Follows(a, 5, b), Follows(b, 4, c), Follows(c, 3, d), Follows(d, 2, e), e \in Ends
    PROVE  <<a, b, c, d, e>> \in Plans
<1> DEFINE p == <<a, b, c, d, e>>
<1>1. p \in Seq(Steps) /\ Len(p) = 5 /\ p[1] = a /\ p[2] = b /\ p[3] = c /\ p[4] = d /\ p[5] = e
  OBVIOUS
<1> HIDE DEF p
<1>2. \A i \in 1 .. Len(p) - 1 : Follows(p[i], Len(p) - i + 1, p[i + 1])
  BY <1>1
<1>3. p \in Plans
  BY <1>1, <1>2 DEF Plans
<1>4. QED
  BY <1>3 DEF p

LEMMA PlanOf6 ==
    ASSUME NEW a \in Steps, NEW b \in Steps, NEW c \in Steps, NEW d \in Steps,
           NEW e \in Steps, NEW f \in Steps,
           Follows(a, 6, b), Follows(b, 5, c), Follows(c, 4, d), Follows(d, 3, e), Follows(e, 2, f), f \in Ends
    PROVE  <<a, b, c, d, e, f>> \in Plans
<1> DEFINE p == <<a, b, c, d, e, f>>
<1>1. p \in Seq(Steps) /\ Len(p) = 6 /\ p[1] = a /\ p[2] = b /\ p[3] = c /\ p[4] = d /\ p[5] = e /\ p[6] = f
  OBVIOUS
<1> HIDE DEF p
<1>2. \A i \in 1 .. Len(p) - 1 : Follows(p[i], Len(p) - i + 1, p[i + 1])
  BY <1>1
<1>3. p \in Plans
  BY <1>1, <1>2 DEF Plans
<1>4. QED
  BY <1>3 DEF p

LEMMA PlanOf8 ==
    ASSUME NEW a \in Steps, NEW b \in Steps, NEW c \in Steps, NEW d \in Steps,
           NEW e \in Steps, NEW f \in Steps, NEW g \in Steps, NEW h \in Steps,
           Follows(a, 8, b), Follows(b, 7, c), Follows(c, 6, d), Follows(d, 5, e), Follows(e, 4, f), Follows(f, 3, g), Follows(g, 2, h), h \in Ends
    PROVE  <<a, b, c, d, e, f, g, h>> \in Plans
<1> DEFINE p == <<a, b, c, d, e, f, g, h>>
<1>1. p \in Seq(Steps) /\ Len(p) = 8 /\ p[1] = a /\ p[2] = b /\ p[3] = c /\ p[4] = d /\ p[5] = e /\ p[6] = f /\ p[7] = g /\ p[8] = h
  OBVIOUS
<1> HIDE DEF p
<1>2. \A i \in 1 .. Len(p) - 1 : Follows(p[i], Len(p) - i + 1, p[i + 1])
  BY <1>1
<1>3. p \in Plans
  BY <1>1, <1>2 DEF Plans
<1>4. QED
  BY <1>3 DEF p

LEMMA PlansBegin ==
    /\ <<>> \in Plans /\ <<"delete">> \in Plans /\ SetActive \in Plans
    /\ compute_and_store \in Plans /\ Refresh \in Plans
    /\ <<"read rows", "create", "write values">> \o compute_and_store \in Plans
    /\ <<"write budgets">> \o compute_and_store \in Plans
    /\ <<"define", "read facts", "write all derived">> \o compute_and_store \in Plans
    /\ <<"find", "write values">> \o Refresh \in Plans
<1>1. <<>> \in Plans
  BY DEF Plans
<1>2. <<"delete">> \in Plans
  <2> DEFINE p == <<"delete">>
  <2>1. p \in Seq(Steps) /\ Len(p) = 1 /\ p[1] = "delete" /\ p[1] \in Ends
    BY DEF Steps, Ends
  <2> HIDE DEF p
  <2>2. \A i \in 1 .. Len(p) - 1 : FALSE
    BY <2>1
  <2>3. p \in Plans
    <3>1. p[Len(p)] \in Ends
      BY <2>1
    <3>2. QED
      BY <2>1, <2>2, <3>1, Zenon DEF Plans
  <2>4. QED
    BY <2>3 DEF p
<1>3. /\ "read rows" \in Steps /\ "create" \in Steps /\ "write values" \in Steps
      /\ "read values" \in Steps /\ "write facts" \in Steps /\ "read facts" \in Steps
      /\ "write derived" \in Steps /\ "write budgets" \in Steps /\ "define" \in Steps
      /\ "write all derived" \in Steps /\ "find" \in Steps /\ "set active" \in Steps
      /\ "write facts" \in Ends /\ "set active" \in Ends
  BY DEF Steps, Ends
<1>4. /\ Follows("create", 4, "write values")
      /\ Follows("define", 5, "read facts")
      /\ Follows("find", 8, "write values")
      /\ Follows("read facts", 4, "write all derived")
      /\ Follows("read facts", 4, "write derived")
      /\ Follows("read rows", 2, "set active")
      /\ Follows("read rows", 5, "create")
      /\ Follows("read values", 2, "write facts")
      /\ Follows("read values", 6, "write facts")
      /\ Follows("write all derived", 3, "read values")
      /\ Follows("write budgets", 3, "read values")
      /\ Follows("write derived", 3, "read values")
      /\ Follows("write facts", 5, "read facts")
      /\ Follows("write values", 3, "read values")
      /\ Follows("write values", 7, "read values")
  BY DEF Follows
<1>5. <<"read rows", "set active">> \in Plans
  BY <1>3, <1>4, PlanOf2, ZenonT(60)
<1>6. <<"read values", "write facts">> \in Plans
  BY <1>3, <1>4, PlanOf2, ZenonT(60)
<1>7. <<"write budgets", "read values", "write facts">> \in Plans
  BY <1>3, <1>4, PlanOf3, ZenonT(60)
<1>8. <<"read rows", "create", "write values", "read values", "write facts">> \in Plans
  BY <1>3, <1>4, PlanOf5, ZenonT(60)
<1>9. <<"define", "read facts", "write all derived", "read values", "write facts">> \in Plans
  BY <1>3, <1>4, PlanOf5, ZenonT(60)
<1>10. <<"read values", "write facts", "read facts", "write derived", "read values", "write facts">> \in Plans
  BY <1>3, <1>4, PlanOf6, ZenonT(60)
<1>11. <<"find", "write values", "read values", "write facts", "read facts", "write derived", "read values", "write facts">> \in Plans
  BY <1>3, <1>4, PlanOf8, ZenonT(60)
<1>12. QED
  BY <1>1, <1>2, <1>5, <1>6, <1>7, <1>8, <1>9, <1>10, <1>11, RequestLists, Zenon DEF SetActive

\* What is left of a request is again something a request may have to do.
LEMMA PlanSteps ==
    ASSUME NEW p \in Plans, p # <<>>
    PROVE  /\ Tail(p) \in Plans
           /\ Len(p) \in Nat /\ Len(Tail(p)) = Len(p) - 1 /\ Head(p) \in Steps
           /\ Tail(p) = <<>> => Len(p) = 1 /\ Head(p) \in Ends
           /\ Tail(p) # <<>> => Follows(Head(p), Len(p), Head(Tail(p)))
<1>1. p \in Seq(Steps)
  BY DEF Plans
<1>2. /\ Tail(p) \in Seq(Steps) /\ Head(p) \in Steps /\ Head(p) = p[1]
      /\ Len(p) \in Nat \ {0} /\ Len(Tail(p)) = Len(p) - 1
      /\ \A i \in 1 .. Len(Tail(p)) : Tail(p)[i] = p[i + 1]
  BY <1>1, HeadTailProperties, EmptySeq
<1>3. ASSUME Tail(p) = <<>>
      PROVE  Len(p) = 1
  <2>1. Len(<<>>) = 0
    OBVIOUS
  <2>2. Len(Tail(p)) = 0
    BY <1>3, <2>1, ZenonT(60)
  <2>3. Len(p) \in Nat /\ Len(Tail(p)) = Len(p) - 1
    BY <1>2
  <2>4. QED
    BY <2>2, <2>3
<1>4. ASSUME Tail(p) # <<>>
      PROVE  Len(Tail(p)) \in Nat \ {0} /\ Head(Tail(p)) = p[2]
  BY <1>2, <1>4, EmptySeq, HeadTailProperties
<1>5. Tail(p) \in Plans
  <2>1. Tail(p) # <<>> => Tail(p)[Len(Tail(p))] = p[Len(p)]
    BY <1>2, <1>4
  <2>2. ASSUME NEW i \in 1 .. Len(Tail(p)) - 1
        PROVE  Follows(Tail(p)[i], Len(Tail(p)) - i + 1, Tail(p)[i + 1])
    <3>1. Tail(p)[i] = p[i + 1] /\ Tail(p)[i + 1] = p[(i + 1) + 1] /\ i + 1 \in 1 .. Len(p) - 1
      BY <1>2
    <3>2. Len(Tail(p)) - i + 1 = Len(p) - (i + 1) + 1
      BY <1>2
    <3>3. Follows(p[i + 1], Len(p) - (i + 1) + 1, p[(i + 1) + 1])
      BY <3>1, Zenon DEF Plans
    <3>4. QED
      BY <3>1, <3>2, <3>3
  <2>3. QED
    BY <1>2, <2>1, <2>2 DEF Plans
<1>6. Tail(p) = <<>> => Head(p) \in Ends
  BY <1>2, <1>3 DEF Plans
<1>7. ASSUME Tail(p) # <<>>
      PROVE  Follows(Head(p), Len(p), Head(Tail(p)))
  <2>1. Follows(p[1], Len(p) - 1 + 1, p[1 + 1])
    BY <1>2, <1>4, <1>7 DEF Plans
  <2>2. QED
    BY <1>2, <1>4, <1>7, <2>1
<1>8. QED
  BY <1>2, <1>3, <1>5, <1>6, <1>7

-----------------------------------------------------------------------------
(* The largest number of a bounded set.                                    *)

LEMMA LeastIsIn ==
    ASSUME NEW S \in SUBSET Nat, S # {}
    PROVE  \E m \in S : \A v \in S : m <= v
<1>1. PICK m \in S : \A v \in S : <<v, m>> \notin OpToRel(<, Nat)
  BY WFMin, NatLessThanWellFounded, Zenon
<1>2. \A v \in S : ~(v < m)
  BY <1>1, Zenon DEF OpToRel
<1>3. QED
  BY <1>2

LEMMA LargestExists ==
    ASSUME NEW S \in SUBSET Nat, S # {}, NEW b \in Nat, \A v \in S : v <= b
    PROVE  \E m \in S : \A v \in S : v <= m
<1> DEFINE Bounds == {m \in Nat : \A v \in S : v <= m}
<1>1. PICK m \in Bounds : \A n \in Bounds : m <= n
  <2>1. b \in Bounds
    OBVIOUS
  <2>2. Bounds \in SUBSET Nat /\ Bounds # {}
    BY <2>1
  <2> HIDE DEF Bounds
  <2>3. QED
    BY <2>2, LeastIsIn
<1>2. m \in Nat /\ \A v \in S : v <= m
  BY <1>1
<1>3. CASE m \in S
  BY <1>2, <1>3
<1>4. CASE m \notin S
  <2>1. \A v \in S : v < m
    BY <1>2, <1>4
  <2>2. m # 0
    <3>1. PICK v \in S : v \in Nat
      OBVIOUS
    <3>2. QED
      BY <1>2, <2>1, <3>1
  <2>3. m - 1 \in Nat /\ \A v \in S : v <= m - 1
    BY <1>2, <2>1, <2>2
  <2>4. m - 1 \in Bounds
    BY <2>3
  <2>5. m <= m - 1
    BY <1>1, <2>4
  <2>6. QED
    BY <1>2, <2>5
<1>5. QED
  BY <1>3, <1>4

LEMMA NewestIn ==
    ASSUME NEW S, NEW n \in Nat, S \subseteq 1 .. n, S # {}
    PROVE  Newest(S) \in S
<1>1. S \in SUBSET Nat /\ \A v \in S : v <= n
  OBVIOUS
<1>2. \E m \in S : \A v \in S : v <= m
  BY <1>1, LargestExists
<1>3. QED
  BY <1>2 DEF Newest

-----------------------------------------------------------------------------
(* Types.                                                                  *)

DatasetTypes ==
    /\ overlap \in Modes
    /\ universe \in Seq(Universes) /\ Len(universe) <= MaxDatasets
    /\ alive \subseteq DOMAIN universe /\ active \subseteq alive
    /\ synced \in [Universes -> {0} \cup DOMAIN universe]

ContentTypes ==
    /\ stamp \in Stamps
    /\ values \in [Ids -> Stamps] /\ budgets \in [Ids -> Stamps]
    /\ facts \in [Ids -> Stamps \X Stamps]
    /\ derived \subseteq Ids
    /\ dvalues \in [Ids -> Stamps] /\ dfacts \in [Ids -> Stamps]

ThreadTypes ==
    /\ todo \in [Threads -> Plans]
    /\ home \in [Threads -> Universes \cup {NoOne}]
    /\ \A t \in Threads : todo[t] # <<>> => home[t] \in Universes
    /\ on \in [Threads -> SUBSET DOMAIN universe]
    /\ rows \in [Threads -> SUBSET DOMAIN universe]
    /\ read \in [Threads -> [Ids -> Stamps \X Stamps \X Stamps]]
    /\ alone \in [Threads -> BOOLEAN]
    /\ unclean \subseteq Ids

\* A request works on datasets that were made, and goes on as its code does.
FigureTypes == DatasetTypes /\ ContentTypes /\ ThreadTypes

LEMMA StampFacts ==
    MaxDatasets \in Nat /\ MaxStamp \in Nat /\ 0 \in Stamps
BY FiguresAssumption DEF Stamps

LEMMA DatasetIds ==
    ASSUME DatasetTypes
    PROVE  /\ Len(universe) \in Nat /\ DOMAIN universe = 1 .. Len(universe)
           /\ DOMAIN universe \subseteq Ids /\ alive \subseteq Ids
           /\ \A d \in DOMAIN universe : universe[d] \in Universes
           /\ \A u : InScope(u) \subseteq alive
BY StampFacts DEF DatasetTypes, Ids, InScope

LEMMA UnreadType == Unread \in [Ids -> Stamps \X Stamps \X Stamps]
BY StampFacts DEF Unread

LEMMA InitTypes == Init => FigureTypes
<1> SUFFICES ASSUME Init PROVE FigureTypes
  OBVIOUS
<1>1. /\ universe \in [1 .. Cardinality(ReadOnly) -> ReadOnly]
      /\ Cardinality(ReadOnly) \in Nat /\ Cardinality(ReadOnly) <= MaxDatasets
  <2>1. Cardinality(ReadOnly) \in Nat
    BY FiguresAssumption, FS_CardinalityType
  <2>2. QED
    BY <2>1, FiguresAssumption DEF Init
<1>2. universe \in Seq(Universes) /\ Len(universe) = Cardinality(ReadOnly)
  BY <1>1, FiguresAssumption
<1>3. DatasetTypes
  BY <1>1, <1>2 DEF Init, DatasetTypes
<1>4. ContentTypes
  BY StampFacts DEF Init, ContentTypes
<1>5. ThreadTypes
  BY UnreadType, PlansBegin DEF Init, ThreadTypes
<1>6. QED
  BY <1>3, <1>4, <1>5 DEF FigureTypes

\* A row is added after the others.
LEMMA AppendedRow ==
    ASSUME DatasetTypes, NEW t \in Threads, home[t] \in Universes, Inserts(t)
    PROVE  /\ universe' \in Seq(Universes) /\ Len(universe') <= MaxDatasets
           /\ DOMAIN universe' = DOMAIN universe \cup {NewDataset(t)}
           /\ NewDataset(t) \notin DOMAIN universe /\ NewDataset(t) # 0
           /\ universe'[NewDataset(t)] = home[t]
           /\ \A d \in DOMAIN universe : universe'[d] = universe[d]
<1>1. universe \in Seq(Universes) /\ universe' = Append(universe, home[t])
  BY DEF DatasetTypes, Inserts
<1>2. NewDataset(t) = Len(universe) + 1 /\ NewDataset(t) <= MaxDatasets
  BY StampFacts, <1>1 DEF Inserts, NewDataset, Ids
<1>3. QED
  BY <1>1, <1>2

\* A step ends, or goes on to one of its next.
LEMMA ContinueTypes ==
    ASSUME ThreadTypes, NEW t \in Threads, todo[t] # <<>>, NEW S \in SUBSET Ids,
           NEW steps \in Plans, Continue(t, S, steps), universe' = universe
    PROVE  ThreadTypes'
<1>1. /\ todo' \in [Threads -> Plans]
      /\ home' \in [Threads -> Universes \cup {NoOne}]
      /\ on' \in [Threads -> SUBSET DOMAIN universe']
      /\ rows' \in [Threads -> SUBSET DOMAIN universe']
  BY DEF ThreadTypes, Continue
<1>2. read' \in [Threads -> [Ids -> Stamps \X Stamps \X Stamps]]
  BY UnreadType DEF ThreadTypes, Continue
<1>3. alone' \in [Threads -> BOOLEAN]
  <2>1. \A s \in Threads : alone[s] \in BOOLEAN
    BY DEF ThreadTypes
  <2>2. QED
    BY <2>1, Zenon DEF Continue
<1>4. unclean' \subseteq Ids
  BY DEF ThreadTypes, Continue
<1>5. \A s \in Threads : todo'[s] # <<>> => home'[s] \in Universes
  BY DEF ThreadTypes, Continue
<1>6. QED
  BY <1>1, <1>2, <1>3, <1>4, <1>5 DEF ThreadTypes

LEMMA AtStep ==
    ASSUME ThreadTypes, NEW t \in Threads, todo[t] # <<>>
    PROVE  /\ todo[t] \in Plans /\ Tail(todo[t]) \in Plans /\ home[t] \in Universes
           /\ on[t] \subseteq DOMAIN universe /\ rows[t] \subseteq DOMAIN universe
BY PlanSteps DEF ThreadTypes

LEMMA DoneTypes ==
    ASSUME ThreadTypes, NEW t \in Threads, todo[t] # <<>>, NEW S \in SUBSET Ids,
           Done(t, S), universe' = universe
    PROVE  ThreadTypes'
BY AtStep, ContinueTypes DEF Done

\* A request begins with a list of steps and datasets in scope.
LEMMA StartTypes ==
    ASSUME FigureTypes, NEW t \in Threads, NEW u \in Universes, NEW S \in SUBSET DOMAIN universe,
           NEW steps \in Plans, NEW repairs \in BOOLEAN, Starts(t, u, S, steps, repairs),
           overlap' = overlap
    PROVE  FigureTypes'
<1>1. DatasetTypes'
  BY DEF FigureTypes, DatasetTypes, Starts, datasetVars
<1>2. ContentTypes'
  BY DEF FigureTypes, ContentTypes, Starts, contentVars
<1>3. ThreadTypes'
  <2>1. /\ todo' \in [Threads -> Plans] /\ home' \in [Threads -> Universes \cup {NoOne}]
        /\ on' \in [Threads -> SUBSET DOMAIN universe'] /\ rows' \in [Threads -> SUBSET DOMAIN universe']
        /\ alone' \in [Threads -> BOOLEAN]
    BY DEF FigureTypes, ThreadTypes, Starts, datasetVars
  <2>2. read' \in [Threads -> [Ids -> Stamps \X Stamps \X Stamps]] /\ unclean' \subseteq Ids
    BY DEF FigureTypes, ThreadTypes, Starts
  <2>3. \A s \in Threads : todo'[s] # <<>> => home'[s] \in Universes
    BY DEF FigureTypes, ThreadTypes, Starts
  <2>4. QED
    BY <2>1, <2>2, <2>3 DEF ThreadTypes
<1>4. QED
  BY <1>1, <1>2, <1>3 DEF FigureTypes

LEMMA ActiveInScope ==
    ASSUME DatasetTypes, NEW u
    PROVE  /\ InScope(u) = {} => active_dataset_id(u) = 0
           /\ InScope(u) # {} => active_dataset_id(u) \in InScope(u)
<1>1. InScope(u) \subseteq 1 .. Len(universe) /\ Len(universe) \in Nat
  BY DatasetIds DEF DatasetTypes
<1>2. CASE InScope(u) \cap active # {}
  <2>1. Newest(InScope(u) \cap active) \in InScope(u) \cap active
    BY <1>1, <1>2, NewestIn
  <2>2. QED
    BY <1>2, <2>1 DEF active_dataset_id
<1>3. CASE InScope(u) \cap active = {} /\ InScope(u) # {}
  <2>1. Newest(InScope(u)) \in InScope(u)
    BY <1>1, <1>3, NewestIn
  <2>2. QED
    BY <1>3, <2>1 DEF active_dataset_id
<1>4. CASE InScope(u) = {}
  BY <1>4 DEF active_dataset_id
<1>5. QED
  BY <1>2, <1>3, <1>4

\* What a request sets out to do, and where.
LEMMA RequestStarts ==
    ASSUME FigureTypes, NEW t \in Threads, NEW u \in Universes, Request(t, u)
    PROVE  \E S \in SUBSET DOMAIN universe, steps \in Plans, repairs \in BOOLEAN :
              Starts(t, u, S, steps, repairs)
<1>1. {} \in SUBSET DOMAIN universe /\ TRUE \in BOOLEAN /\ FALSE \in BOOLEAN
  OBVIOUS
<1>2. \A d \in InScope(u) : {d} \in SUBSET DOMAIN universe
  BY DatasetIds DEF FigureTypes, DatasetTypes
<1>3. ASSUME NEW d \in InScope(u), activate_dataset(t, u, d) \/ delete_dataset(t, u, d) \/ JoinBudget(t, u, d)
      PROVE  \E S \in SUBSET DOMAIN universe, steps \in Plans, repairs \in BOOLEAN :
                Starts(t, u, S, steps, repairs)
  BY <1>1, <1>2, <1>3, PlansBegin, Zenon DEF activate_dataset, delete_dataset, JoinBudget
<1>4. ASSUME Ingest(t, u) \/ Sync(t, u)
      PROVE  \E S \in SUBSET DOMAIN universe, steps \in Plans, repairs \in BOOLEAN :
                Starts(t, u, S, steps, repairs)
  BY <1>1, <1>4, PlansBegin, Zenon DEF Ingest, Sync
<1>5. ASSUME Compute(t, u)
      PROVE  \E S \in SUBSET DOMAIN universe, steps \in Plans, repairs \in BOOLEAN :
                Starts(t, u, S, steps, repairs)
  <2>1. alive \in SUBSET DOMAIN universe
    BY DEF FigureTypes, DatasetTypes
  <2>2. CASE InScope(u) = {}
    BY <1>1, <1>5, <2>1, <2>2, PlansBegin, Zenon DEF Compute
  <2>3. CASE InScope(u) # {}
    <3>1. active_dataset_id(u) \in InScope(u)
      BY <2>3, ActiveInScope DEF FigureTypes
    <3>2. QED
      BY <1>1, <1>2, <1>5, <2>3, <3>1, PlansBegin, Zenon DEF Compute
  <2>4. QED
    BY <2>2, <2>3
<1>6. ASSUME CreateDerived(t, u)
      PROVE  \E S \in SUBSET DOMAIN universe, steps \in Plans, repairs \in BOOLEAN :
                Starts(t, u, S, steps, repairs)
  <2>1. active_dataset_id(u) \in InScope(u)
    BY <1>6, ActiveInScope DEF CreateDerived, FigureTypes
  <2>2. QED
    BY <1>1, <1>2, <1>6, <2>1, PlansBegin, Zenon DEF CreateDerived
<1>7. QED
  BY <1>3, <1>4, <1>5, <1>6 DEF Request

\* Every step keeps the types.
LEMMA ReadTypes ==
    ASSUME FigureTypes, NEW t \in Threads, todo[t] # <<>>, overlap' = overlap,
           NEW content \in [Ids -> Stamps \X Stamps \X Stamps], ReadsFrom(t, content)
    PROVE  FigureTypes'
<1>1. DatasetTypes' /\ ContentTypes'
  BY DEF FigureTypes, DatasetTypes, ContentTypes, ReadsFrom, datasetVars, contentVars
<1>2. todo' \in [Threads -> Plans] /\ \A s \in Threads : todo'[s] # <<>> => todo[s] # <<>>
  BY AtStep DEF FigureTypes, ThreadTypes, ReadsFrom
<1>3. /\ home' \in [Threads -> Universes \cup {NoOne}]
      /\ on' \in [Threads -> SUBSET DOMAIN universe'] /\ rows' \in [Threads -> SUBSET DOMAIN universe']
      /\ alone' \in [Threads -> BOOLEAN] /\ unclean' \subseteq Ids
  BY DEF FigureTypes, ThreadTypes, ReadsFrom, datasetVars, historyVars
<1>4. read' \in [Threads -> [Ids -> Stamps \X Stamps \X Stamps]]
  <2>1. [d \in Ids |-> IF d \in on[t] THEN content[d] ELSE Unread[d]] \in [Ids -> Stamps \X Stamps \X Stamps]
    BY UnreadType
  <2>2. QED
    BY <2>1 DEF FigureTypes, ThreadTypes, ReadsFrom
<1>5. \A s \in Threads : todo'[s] # <<>> => home'[s] \in Universes
  BY <1>2 DEF FigureTypes, ThreadTypes, ReadsFrom
<1>6. QED
  BY <1>1, <1>2, <1>3, <1>4, <1>5 DEF FigureTypes, ThreadTypes

LEMMA SwitchTypes ==
    ASSUME FigureTypes, NEW t \in Threads, overlap' = overlap,
           ReadRows(t) \/ SetsActive(t) \/ CreateDataset(t) \/ FindDataset(t)
    PROVE  FigureTypes'
<1>1. todo[t] # <<>> /\ ThreadTypes /\ DatasetTypes
  BY DEF ReadRows, SetsActive, CreateDataset, FindDataset, At, FigureTypes
<1>2. /\ todo[t] \in Plans /\ Tail(todo[t]) \in Plans /\ home[t] \in Universes
      /\ on[t] \subseteq DOMAIN universe /\ rows[t] \subseteq DOMAIN universe
  BY <1>1, AtStep
<1>3. ContentTypes'
  BY DEF ReadRows, SetsActive, CreateDataset, FindDataset, FigureTypes, ContentTypes, contentVars
<1>4. ASSUME ReadRows(t)
      PROVE  FigureTypes'
  <2>1. DatasetTypes'
    BY <1>1, <1>4 DEF DatasetTypes, ReadRows, datasetVars
  <2>2. ScopeRows(home[t]) \subseteq DOMAIN universe
    BY <1>1, DatasetIds DEF ScopeRows, DatasetTypes
  <2>3. ThreadTypes'
    BY <1>1, <1>2, <1>4, <2>2 DEF ThreadTypes, ReadRows, datasetVars, historyVars
  <2>4. QED
    BY <1>3, <2>1, <2>3 DEF FigureTypes
<1>5. ASSUME SetsActive(t)
      PROVE  FigureTypes'
  <2>1. ThreadTypes'
    BY <1>1, <1>5, DoneTypes DEF SetsActive
  <2>2. DatasetTypes'
    BY <1>1, <1>5 DEF DatasetTypes, SetsActive, Activates
  <2>3. QED
    BY <1>3, <2>1, <2>2 DEF FigureTypes
<1>6. ASSUME CreateDataset(t)
      PROVE  FigureTypes'
  <2>1. /\ universe' \in Seq(Universes) /\ Len(universe') <= MaxDatasets
        /\ DOMAIN universe' = DOMAIN universe \cup {NewDataset(t)}
    BY <1>1, <1>2, <1>6, AppendedRow DEF CreateDataset
  <2>2. DatasetTypes'
    BY <1>1, <1>6, <2>1 DEF DatasetTypes, CreateDataset, Inserts, Activates
  <2>3. ThreadTypes'
    BY <1>1, <1>2, <1>6, <2>1 DEF ThreadTypes, CreateDataset, historyVars
  <2>4. QED
    BY <1>3, <2>2, <2>3 DEF FigureTypes
<1>7. ASSUME FindDataset(t)
      PROVE  FigureTypes'
  <2>1. CASE synced[home[t]] # 0
    <3>1. synced[home[t]] \in DOMAIN universe
      BY <1>1, <1>2, <2>1 DEF DatasetTypes
    <3>2. DatasetTypes'
      BY <1>1, <1>7, <2>1 DEF DatasetTypes, FindDataset
    <3>3. /\ todo' = [todo EXCEPT ![t] = Tail(todo[t])]
          /\ on' = [on EXCEPT ![t] = {synced[home[t]]}] /\ universe' = universe
          /\ UNCHANGED <<home, rows, read, alone, unclean>>
      BY <1>7, <2>1, Zenon DEF FindDataset, historyVars
    <3>4. ThreadTypes'
      BY <1>1, <1>2, <3>1, <3>3, SMTT(30) DEF ThreadTypes
    <3>5. QED
      BY <1>3, <3>2, <3>4 DEF FigureTypes
  <2>2. CASE synced[home[t]] = 0
    <3>1. /\ universe' \in Seq(Universes) /\ Len(universe') <= MaxDatasets
          /\ DOMAIN universe' = DOMAIN universe \cup {NewDataset(t)}
      BY <1>1, <1>2, <1>7, <2>2, AppendedRow DEF FindDataset
    <3>2. DatasetTypes'
      BY <1>1, <1>2, <1>7, <2>2, <3>1 DEF DatasetTypes, FindDataset, Inserts
    <3>3. /\ todo' = [todo EXCEPT ![t] = Tail(todo[t])]
          /\ on' = [on EXCEPT ![t] = {NewDataset(t)}]
          /\ UNCHANGED <<home, rows, read, alone, unclean>>
      BY <1>7, <2>2, Zenon DEF FindDataset, historyVars
    <3>4. ThreadTypes'
      BY <1>1, <1>2, <3>1, <3>3, SMTT(30) DEF ThreadTypes
    <3>5. QED
      BY <1>3, <3>2, <3>4 DEF FigureTypes
  <2>3. QED
    BY <2>1, <2>2
<1>8. QED
  BY <1>4, <1>5, <1>6, <1>7

LEMMA DeleteTypes ==
    ASSUME FigureTypes, NEW t \in Threads, overlap' = overlap, Delete(t)
    PROVE  FigureTypes'
<1> DEFINE d == CHOOSE x \in on[t] : TRUE
           left == InScope(home[t]) \ {d}
           next == IF d \in active /\ left # {} THEN {Newest(left)} ELSE {}
<1>1. todo[t] # <<>> /\ ThreadTypes /\ DatasetTypes
  BY DEF Delete, At, FigureTypes
<1>2. next \subseteq DOMAIN universe
  <2>1. left \subseteq 1 .. Len(universe) /\ Len(universe) \in Nat /\ DOMAIN universe = 1 .. Len(universe)
    BY <1>1, DatasetIds DEF DatasetTypes
  <2>2. QED
    BY <2>1, NewestIn
<1>3. SetActive \in Plans /\ <<>> \in Plans
  BY PlansBegin
<1>4. /\ alive' = alive \ {d} /\ active' = active \ {d} /\ universe' = universe
      /\ synced' = [u \in Universes |-> IF synced[u] = d THEN 0 ELSE synced[u]]
  BY Zenon DEF Delete
<1>5. DatasetTypes'
  BY <1>1, <1>4 DEF DatasetTypes
<1>6. /\ values' = [values EXCEPT ![d] = 0] /\ budgets' = [budgets EXCEPT ![d] = 0]
      /\ facts' = [facts EXCEPT ![d] = <<0, 0>>] /\ derived' = derived \ {d}
      /\ dvalues' = [dvalues EXCEPT ![d] = 0] /\ dfacts' = [dfacts EXCEPT ![d] = 0]
      /\ stamp' = stamp
  BY Zenon DEF Delete
<1>7. /\ unclean' = unclean \ {d}
      /\ todo' = [todo EXCEPT ![t] = IF next = {} THEN <<>> ELSE SetActive]
      /\ home' = [home EXCEPT ![t] = IF next = {} THEN NoOne ELSE @]
      /\ on' = [on EXCEPT ![t] = next]
      /\ alone' = [alone EXCEPT ![t] = FALSE] /\ rows' = rows /\ read' = read
  BY Zenon DEF Delete
<1> HIDE DEF next, d
<1>8. ContentTypes'
  BY <1>6, StampFacts DEF FigureTypes, ContentTypes
<1>9. ThreadTypes'
  <2>1. /\ todo' \in [Threads -> Plans] /\ home' \in [Threads -> Universes \cup {NoOne}]
        /\ on' \in [Threads -> SUBSET DOMAIN universe'] /\ rows' \in [Threads -> SUBSET DOMAIN universe']
        /\ alone' \in [Threads -> BOOLEAN] /\ unclean' \subseteq Ids
    BY <1>1, <1>2, <1>3, <1>4, <1>7 DEF ThreadTypes
  <2>2. read' \in [Threads -> [Ids -> Stamps \X Stamps \X Stamps]]
    BY <1>1, <1>7 DEF ThreadTypes
  <2>3. \A s \in Threads : todo'[s] # <<>> => home'[s] \in Universes
    BY <1>1, <1>7 DEF ThreadTypes
  <2>4. QED
    BY <2>1, <2>2, <2>3 DEF ThreadTypes
<1>10. QED
  BY <1>5, <1>8, <1>9 DEF FigureTypes

LEMMA WriteTypes ==
    ASSUME FigureTypes, NEW t \in Threads, overlap' = overlap,
           \/ WriteValues(t) \/ WriteBudgets(t) \/ WriteFacts(t) \/ Define(t)
           \/ WriteDerived(t) \/ Fails(t)
    PROVE  FigureTypes'
<1>1. todo[t] # <<>> /\ ThreadTypes /\ DatasetTypes /\ universe' = universe
  BY DEF WriteValues, WriteBudgets, WriteFacts, Define, WriteDerived, Fails, At, FigureTypes, datasetVars
<1>2. /\ Tail(todo[t]) \in Plans /\ <<>> \in Plans /\ on[t] \subseteq Ids /\ {} \subseteq Ids
      /\ read[t] \in [Ids -> Stamps \X Stamps \X Stamps]
  BY <1>1, AtStep, DatasetIds, PlansBegin DEF ThreadTypes
<1>3. DatasetTypes'
  BY <1>1 DEF DatasetTypes, WriteValues, WriteBudgets, WriteFacts, Define, WriteDerived, Fails, datasetVars
<1>4. ThreadTypes'
  <2>1. CASE WriteValues(t) \/ WriteBudgets(t) \/ WriteFacts(t) \/ Define(t)
    BY <1>1, <1>2, <2>1, DoneTypes DEF WriteValues, WriteBudgets, WriteFacts, Define
  <2>2. CASE WriteDerived(t)
    <3>1. PICK rest \in Plans : Continue(t, on[t], rest)
      BY <1>2, <2>2, Zenon DEF WriteDerived
    <3>2. QED
      BY <1>1, <1>2, <3>1, ContinueTypes
  <2>3. CASE Fails(t)
    BY <1>1, <1>2, <2>3, ContinueTypes DEF Fails
  <2>4. QED
    BY <2>1, <2>2, <2>3
<1>5. ContentTypes'
  <2>1. CASE WriteValues(t) \/ WriteBudgets(t)
    <3>1. stamp' \in Stamps
      <4>1. stamp < MaxStamp /\ stamp' = stamp + 1
        BY <2>1 DEF WriteValues, WriteBudgets
      <4>2. QED
        BY <4>1, StampFacts DEF FigureTypes, ContentTypes, Stamps
    <3>2. QED
      BY <2>1, <3>1 DEF WriteValues, WriteBudgets, FigureTypes, ContentTypes
  <2>2. CASE WriteFacts(t)
    <3>1. facts' \in [Ids -> Stamps \X Stamps]
      BY <1>2, <2>2 DEF WriteFacts, FigureTypes, ContentTypes
    <3>2. dfacts' \in [Ids -> Stamps]
      BY <1>2, <2>2 DEF WriteFacts, FigureTypes, ContentTypes
    <3>3. QED
      BY <2>2, <3>1, <3>2 DEF WriteFacts, FigureTypes, ContentTypes
  <2>3. CASE Define(t)
    BY <1>2, <2>3 DEF Define, FigureTypes, ContentTypes
  <2>4. CASE WriteDerived(t)
    <3>1. \A s \in Stamps : Formula(s) \in Stamps
      BY StampFacts DEF Formula
    <3>2. \A d \in Ids : read[t][d][1] \in Stamps
      BY <1>2
    <3>3. dvalues' = [d \in Ids |-> IF d \in on[t] \cap derived THEN Formula(read[t][d][1]) ELSE dvalues[d]]
      BY <2>4, Zenon DEF WriteDerived
    <3>4. dfacts' = [d \in Ids |-> IF d \in on[t] \cap derived THEN 0 ELSE dfacts[d]]
      BY <2>4, Zenon DEF WriteDerived
    <3>5. dvalues' \in [Ids -> Stamps] /\ dfacts' \in [Ids -> Stamps]
      BY <3>1, <3>2, <3>3, <3>4, StampFacts DEF FigureTypes, ContentTypes
    <3>6. QED
      BY <2>4, <3>5 DEF WriteDerived, FigureTypes, ContentTypes
  <2>5. CASE Fails(t)
    BY <2>5 DEF Fails, FigureTypes, ContentTypes, contentVars
  <2>6. QED
    BY <2>1, <2>2, <2>3, <2>4, <2>5
<1>6. QED
  BY <1>3, <1>4, <1>5 DEF FigureTypes

Acts(t) == Step(t) \/ Fails(t) \/ \E u \in Universes : Request(t, u)

LEMMA NextActs == Next => \E t \in Threads : Acts(t)
BY DEF Next, Acts

LEMMA ActsTypes ==
    ASSUME FigureTypes, NEW t \in Threads, Acts(t), overlap' = overlap
    PROVE  FigureTypes'
<1>1. ASSUME NEW u \in Universes, Request(t, u)
      PROVE  FigureTypes'
  <2>1. PICK S \in SUBSET DOMAIN universe, steps \in Plans, repairs \in BOOLEAN :
                Starts(t, u, S, steps, repairs)
    BY <1>1, RequestStarts
  <2>2. QED
    BY <2>1, StartTypes
<1>2. CASE ReadValues(t)
  <2>1. [d \in Ids |-> <<values[d], budgets[d], dvalues[d]>>] \in [Ids -> Stamps \X Stamps \X Stamps]
    BY DEF FigureTypes, ContentTypes
  <2>2. QED
    BY <1>2, <2>1, ReadTypes DEF ReadValues, At
<1>3. CASE ReadFacts(t)
  <2>1. [d \in Ids |-> <<facts[d][1], 0, 0>>] \in [Ids -> Stamps \X Stamps \X Stamps]
    BY StampFacts DEF FigureTypes, ContentTypes
  <2>2. QED
    BY <1>3, <2>1, ReadTypes DEF ReadFacts, At
<1>4. QED
  BY <1>1, <1>2, <1>3, SwitchTypes, DeleteTypes, WriteTypes DEF Acts, Step

LEMMA NextTypes == FigureTypes /\ Next => FigureTypes'
BY NextActs, ActsTypes DEF Next

LEMMA StutterTypes == FigureTypes /\ UNCHANGED vars => FigureTypes'
BY DEF FigureTypes, DatasetTypes, ContentTypes, ThreadTypes, vars, datasetVars, contentVars,
       threadVars, historyVars, InScope

\* Requests work on datasets that were made, and always know what they have still to do.
THEOREM FiguresTyped == Spec => []FigureTypes
<1>1. FigureTypes /\ [Next]_vars => FigureTypes'
  BY NextTypes, StutterTypes
<1>2. QED
  BY InitTypes, <1>1, PTL DEF Spec

-----------------------------------------------------------------------------
(* What a request leaves to the others.                                    *)

\* What t does changes nothing of what s has to do, and no row of datasets.
LEMMA OthersStay ==
    ASSUME FigureTypes, NEW t \in Threads, Acts(t)
    PROVE  /\ \A s \in Threads \ {t} :
                 /\ todo'[s] = todo[s] /\ home'[s] = home[s] /\ on'[s] = on[s]
                 /\ rows'[s] = rows[s] /\ read'[s] = read[s]
                 /\ alone'[s] => alone[s]
           /\ DOMAIN universe \subseteq DOMAIN universe'
           /\ \A d \in DOMAIN universe : universe'[d] = universe[d]
<1> DEFINE Stays == /\ \A s \in Threads \ {t} :
                          /\ todo'[s] = todo[s] /\ home'[s] = home[s] /\ on'[s] = on[s]
                          /\ rows'[s] = rows[s] /\ read'[s] = read[s]
                          /\ alone'[s] => alone[s]
                    /\ DOMAIN universe \subseteq DOMAIN universe'
                    /\ \A d \in DOMAIN universe : universe'[d] = universe[d]
<1>1. ThreadTypes /\ DatasetTypes
  BY DEF FigureTypes
<1>2. ASSUME NEW S, NEW steps, Continue(t, S, steps), universe' = universe
      PROVE  Stays
  BY <1>1, <1>2 DEF Continue, ThreadTypes
<1>3. ASSUME NEW content, ReadsFrom(t, content)
      PROVE  Stays
  BY <1>1, <1>3 DEF ReadsFrom, ThreadTypes, datasetVars, historyVars
<1>4. ASSUME NEW u \in Universes, Request(t, u)
      PROVE  Stays
  <2>1. PICK S \in SUBSET DOMAIN universe, steps \in Plans, repairs \in BOOLEAN :
                Starts(t, u, S, steps, repairs)
    BY <1>4, RequestStarts
  <2>2. QED
    BY <1>1, <2>1 DEF Starts, ThreadTypes, datasetVars
<1>5. CASE SetsActive(t) \/ WriteValues(t) \/ WriteBudgets(t) \/ WriteFacts(t) \/ Define(t) \/ Fails(t)
  <2>1. universe' = universe
    BY <1>5 DEF SetsActive, WriteValues, WriteBudgets, WriteFacts, Define, Fails, datasetVars
  <2>2. \E S, steps : Continue(t, S, steps)
    BY <1>5, Zenon DEF SetsActive, WriteValues, WriteBudgets, WriteFacts, Define, Fails, Done
  <2>3. QED
    BY <2>1, <2>2, <1>2
<1>6. CASE WriteDerived(t)
  <2>1. universe' = universe
    BY <1>6 DEF WriteDerived, datasetVars
  <2>2. \E S, steps : Continue(t, S, steps)
    BY <1>6, Zenon DEF WriteDerived
  <2>3. QED
    BY <2>1, <2>2, <1>2
<1>7. CASE ReadValues(t) \/ ReadFacts(t)
  BY <1>3, <1>7, Zenon DEF ReadValues, ReadFacts
<1>8. CASE ReadRows(t)
  BY <1>1, <1>8 DEF ReadRows, ThreadTypes, datasetVars, historyVars
<1>9. CASE CreateDataset(t) \/ FindDataset(t)
  <2>1. todo[t] # <<>>
    BY <1>9 DEF CreateDataset, FindDataset, At
  <2>2. home[t] \in Universes
    BY <1>1, <2>1, AtStep
  <2>3. Inserts(t) \/ universe' = universe
    BY <1>9 DEF CreateDataset, FindDataset
  <2>4. /\ DOMAIN universe \subseteq DOMAIN universe'
        /\ \A d \in DOMAIN universe : universe'[d] = universe[d]
    BY <1>1, <2>2, <2>3, AppendedRow
  <2>5. QED
    BY <1>1, <1>9, <2>4 DEF CreateDataset, FindDataset, ThreadTypes, historyVars
<1>10. CASE Delete(t)
  BY <1>1, <1>10 DEF Delete, ThreadTypes
<1>11. QED
  BY <1>4, <1>5, <1>6, <1>7, <1>8, <1>9, <1>10 DEF Acts, Step

\* A step goes on to the next or ends; only a deletion may go on to something else.
LEMMA GoesOrEnds ==
    ASSUME FigureTypes, NEW t \in Threads, Step(t) \/ Fails(t), ~Delete(t)
    PROVE  todo'[t] \in {<<>>, Tail(todo[t])}
<1>1. ThreadTypes
  BY DEF FigureTypes
<1>2. CASE SetsActive(t) \/ WriteValues(t) \/ WriteBudgets(t) \/ WriteFacts(t) \/ Define(t)
  <2>1. \E S : Continue(t, S, Tail(todo[t]))
    BY <1>2, Zenon DEF SetsActive, WriteValues, WriteBudgets, WriteFacts, Define, Done
  <2>2. QED
    BY <1>1, <2>1 DEF Continue, ThreadTypes
<1>3. CASE WriteDerived(t)
  <2> DEFINE none == \A d \in on[t] \cap derived : Formula(read[t][d][1]) = 0
  <2>1. Continue(t, on[t], IF none /\ At(t, "write derived") THEN <<>> ELSE Tail(todo[t]))
    BY <1>3, Zenon DEF WriteDerived
  <2> HIDE DEF none
  <2>2. QED
    BY <1>1, <2>1 DEF Continue, ThreadTypes
<1>4. CASE Fails(t)
  BY <1>1, <1>4 DEF Fails, Continue, ThreadTypes
<1>5. CASE ReadValues(t) \/ ReadFacts(t)
  BY <1>1, <1>5 DEF ReadValues, ReadFacts, ReadsFrom, ThreadTypes
<1>6. CASE CreateDataset(t) \/ FindDataset(t) \/ ReadRows(t)
  BY <1>1, <1>6 DEF CreateDataset, FindDataset, ReadRows, ThreadTypes
<1>7. QED
  BY <1>2, <1>3, <1>4, <1>5, <1>6 DEF Step

-----------------------------------------------------------------------------
(* Universes are apart.                                                    *)

\* What t has still to do is about which dataset of its universe is active.
Switches(t) ==
    /\ todo[t] # <<>>
    /\ Head(todo[t]) \in {"delete", "set active"} \/ (Head(todo[t]) = "read rows" /\ Len(todo[t]) = 2)

Begins(t, h, n) == todo[t] # <<>> /\ Head(todo[t]) = h /\ Len(todo[t]) = n

\* The rows t has read, and the dataset it deletes or activates, are of its universe.
HomeOf(t) ==
    /\ rows[t] # {} => todo[t] # <<>> /\ Head(todo[t]) \in {"create", "set active"}
    /\ \A d \in rows[t] : universe[d] = home[t]
    /\ Switches(t) => \E d \in on[t] : on[t] = {d} /\ universe[d] = home[t]

HomeInv == \A t \in Threads : HomeOf(t)

LEMMA OthersHome ==
    ASSUME FigureTypes, HomeInv, NEW t \in Threads, Acts(t), NEW s \in Threads \ {t}
    PROVE  HomeOf(s)'
<1>1. /\ todo'[s] = todo[s] /\ home'[s] = home[s] /\ on'[s] = on[s] /\ rows'[s] = rows[s]
      /\ \A d \in DOMAIN universe : universe'[d] = universe[d]
  BY OthersStay
<1>2. on[s] \subseteq DOMAIN universe /\ rows[s] \subseteq DOMAIN universe
  BY DEF FigureTypes, ThreadTypes
<1>3. HomeOf(s)
  BY DEF HomeInv
<1>4. QED
  BY <1>1, <1>2, <1>3 DEF HomeOf, Switches

\* Nobody goes on to switch, except from reading the rows for it.
LEMMA GoesOn ==
    ASSUME FigureTypes, NEW t \in Threads, todo[t] # <<>>, todo'[t] = Tail(todo[t]),
           todo'[t] # <<>>
    PROVE  /\ Follows(Head(todo[t]), Len(todo[t]), Head(todo'[t]))
           /\ Len(todo'[t]) = Len(todo[t]) - 1 /\ Len(todo[t]) \in Nat
BY PlanSteps DEF FigureTypes, ThreadTypes

LEMMA InitHome == Init => HomeInv
BY DEF Init, HomeInv, HomeOf, Switches

\* How a request begins.
LEMMA StartHeads ==
    ASSUME FigureTypes, NEW t \in Threads, NEW u \in Universes
    PROVE  /\ Ingest(t, u) => Begins(t, "read rows", 5)'
           /\ Sync(t, u) => Begins(t, "find", 8)'
           /\ Compute(t, u) /\ InScope(u) = {} => Begins(t, "read values", 2)'
           /\ Compute(t, u) /\ InScope(u) # {} => Begins(t, "read values", 6)'
           /\ CreateDerived(t, u) => Begins(t, "define", 5)'
           /\ \A d \in InScope(u) :
                 /\ JoinBudget(t, u, d) => Begins(t, "write budgets", 3)'
                 /\ activate_dataset(t, u, d) => Begins(t, "read rows", 2)'
                 /\ delete_dataset(t, u, d) => Begins(t, "delete", 1)'
<1> DEFINE Is(p, h, n) == p # <<>> /\ Head(p) = h /\ Len(p) = n
<1>1. /\ Is(<<"read rows", "create", "write values", "read values", "write facts">>, "read rows", 5)
      /\ Is(<<"read values", "write facts">>, "read values", 2)
      /\ Is(<<"write budgets", "read values", "write facts">>, "write budgets", 3)
  OBVIOUS
<1>2. Is(<<"read values", "write facts", "read facts", "write derived", "read values",
           "write facts">>, "read values", 6)
  OBVIOUS
<1>3. Is(<<"define", "read facts", "write all derived", "read values", "write facts">>, "define", 5)
  OBVIOUS
<1>4. Is(<<"find", "write values", "read values", "write facts", "read facts",
           "write derived", "read values", "write facts">>, "find", 8)
  OBVIOUS
<1>5. Is(<<"read rows", "set active">>, "read rows", 2) /\ Is(<<"delete">>, "delete", 1)
  OBVIOUS
<1> HIDE DEF Is
<1>6. \A p, h, n : todo'[t] = p /\ Is(p, h, n) => Begins(t, h, n)'
  BY DEF Begins, Is
<1>7. \A S, p, r : Starts(t, u, S, p, r) => todo'[t] = p
  BY DEF Starts, FigureTypes, ThreadTypes
<1>8. Ingest(t, u) => Begins(t, "read rows", 5)'
  BY <1>1, <1>6, <1>7, RequestLists DEF Ingest
<1>9. Sync(t, u) => Begins(t, "find", 8)'
  BY <1>4, <1>6, <1>7, RequestLists DEF Sync
<1>10. /\ Compute(t, u) /\ InScope(u) = {} => Begins(t, "read values", 2)'
       /\ Compute(t, u) /\ InScope(u) # {} => Begins(t, "read values", 6)'
  BY <1>1, <1>2, <1>6, <1>7, RequestLists DEF Compute
<1>11. CreateDerived(t, u) => Begins(t, "define", 5)'
  BY <1>3, <1>6, <1>7, RequestLists DEF CreateDerived
<1>12. \A d \in InScope(u) : JoinBudget(t, u, d) => Begins(t, "write budgets", 3)'
  BY <1>1, <1>6, <1>7, RequestLists DEF JoinBudget
<1>13. \A d \in InScope(u) : /\ activate_dataset(t, u, d) => Begins(t, "read rows", 2)'
                             /\ delete_dataset(t, u, d) => Begins(t, "delete", 1)'
  BY <1>5, <1>6, <1>7 DEF activate_dataset, delete_dataset, SetActive
<1>14. QED
  BY <1>8, <1>9, <1>10, <1>11, <1>12, <1>13

\* A request that begins.
LEMMA StartHome ==
    ASSUME FigureTypes, HomeInv, NEW t \in Threads, NEW u \in Universes, Request(t, u)
    PROVE  HomeOf(t)'
<1>1. PICK S \in SUBSET DOMAIN universe, steps \in Plans, repairs \in BOOLEAN :
                Starts(t, u, S, steps, repairs)
  BY RequestStarts
<1>2. rows'[t] = {}
  BY <1>1 DEF Starts, MayStart, HomeInv, HomeOf
<1>3. ASSUME NEW d \in InScope(u), activate_dataset(t, u, d) \/ delete_dataset(t, u, d)
      PROVE  on'[t] = {d} /\ universe'[d] = home'[t]
  BY <1>3 DEF activate_dataset, delete_dataset, Starts, InScope, FigureTypes, ThreadTypes, datasetVars
<1>4. ASSUME \/ Ingest(t, u) \/ Compute(t, u) \/ CreateDerived(t, u) \/ Sync(t, u)
             \/ \E d \in InScope(u) : JoinBudget(t, u, d)
      PROVE  ~Switches(t)'
  <2>1. \/ Begins(t, "read rows", 5)' \/ Begins(t, "find", 8)' \/ Begins(t, "define", 5)'
        \/ Begins(t, "read values", 2)' \/ Begins(t, "read values", 6)'
        \/ Begins(t, "write budgets", 3)'
    BY <1>4, StartHeads
  <2>2. ASSUME Begins(t, "read rows", 5)'
        PROVE  ~Switches(t)'
    <3>1. Len(todo'[t]) = 5 /\ Head(todo'[t]) = "read rows"
      BY <2>2, Zenon DEF Begins
    <3>2. Len(todo'[t]) = 5 => Len(todo'[t]) # 2
      OBVIOUS
    <3>3. QED
      BY <3>1, <3>2, Zenon DEF Switches
  <2>3. \A h \in {"find", "define", "read values", "write budgets"} :
            \A n : Begins(t, h, n)' => ~Switches(t)'
    BY DEF Begins, Switches
  <2>4. QED
    BY <2>1, <2>2, <2>3, Zenon
<1>5. QED
  BY <1>2, <1>3, <1>4 DEF Request, HomeOf

\* A step that reads no rows and deletes nothing: no switch is to come.
LEMMA PassHome ==
    ASSUME FigureTypes, HomeInv, NEW t \in Threads, todo[t] # <<>>,
           todo'[t] \in {<<>>, Tail(todo[t])}, rows'[t] = {},
           Head(todo[t]) # "read rows"
    PROVE  HomeOf(t)'
<1>1. ASSUME todo'[t] # <<>>
      PROVE  Head(todo'[t]) \notin {"delete", "set active", "read rows"}
  BY <1>1, GoesOn DEF Follows
<1>2. QED
  BY <1>1 DEF HomeOf, Switches

LEMMA StepHome ==
    ASSUME FigureTypes, HomeInv, NEW t \in Threads, Step(t) \/ Fails(t)
    PROVE  HomeOf(t)'
<1>1. ThreadTypes /\ DatasetTypes /\ HomeOf(t)
  BY DEF FigureTypes, HomeInv
<1>2. CASE SetsActive(t) \/ WriteValues(t) \/ WriteBudgets(t) \/ WriteFacts(t) \/ Define(t)
  <2>1. todo[t] # <<>> /\ Head(todo[t]) # "read rows"
    BY <1>2 DEF SetsActive, WriteValues, WriteBudgets, WriteFacts, Define, At
  <2>2. \E S : Continue(t, S, Tail(todo[t]))
    BY <1>2, Zenon DEF SetsActive, WriteValues, WriteBudgets, WriteFacts, Define, Done
  <2>3. todo'[t] = Tail(todo[t]) /\ rows'[t] = {}
    BY <1>1, <2>2 DEF Continue, ThreadTypes
  <2>4. QED
    BY <2>1, <2>3, PassHome
<1>3. CASE WriteDerived(t)
  <2>1. todo[t] # <<>> /\ Head(todo[t]) # "read rows"
    BY <1>3 DEF WriteDerived, At
  <2>2. Continue(t, on[t], <<>>) \/ Continue(t, on[t], Tail(todo[t]))
    <3> DEFINE none == \A d \in on[t] \cap derived : Formula(read[t][d][1]) = 0
    <3>1. Continue(t, on[t], IF none /\ At(t, "write derived") THEN <<>> ELSE Tail(todo[t]))
      BY <1>3, Zenon DEF WriteDerived
    <3> HIDE DEF none
    <3>2. QED
      BY <3>1, Zenon
  <2>3. todo'[t] \in {<<>>, Tail(todo[t])} /\ rows'[t] = {}
    BY <1>1, <2>2 DEF Continue, ThreadTypes
  <2>4. QED
    BY <2>1, <2>3, PassHome
<1>4. CASE Fails(t)
  BY <1>1, <1>4 DEF Fails, Continue, ThreadTypes, HomeOf, Switches
<1>5. CASE ReadValues(t) \/ ReadFacts(t)
  <2>1. todo[t] # <<>> /\ Head(todo[t]) \in {"read values", "read facts"}
    BY <1>5 DEF ReadValues, ReadFacts, At
  <2>2. todo'[t] = Tail(todo[t]) /\ rows'[t] = rows[t]
    BY <1>1, <1>5 DEF ReadValues, ReadFacts, ReadsFrom, ThreadTypes
  <2>3. rows[t] = {}
    BY <1>1, <2>1 DEF HomeOf
  <2>4. QED
    BY <2>1, <2>2, <2>3, PassHome
<1>6. CASE CreateDataset(t) \/ FindDataset(t)
  <2>1. todo[t] # <<>> /\ Head(todo[t]) \in {"create", "find"}
    BY <1>6 DEF CreateDataset, FindDataset, At
  <2>2. todo'[t] = Tail(todo[t])
    BY <1>1, <1>6 DEF CreateDataset, FindDataset, ThreadTypes
  <2>3. rows'[t] = {}
    <3>1. CASE CreateDataset(t)
      BY <1>1, <3>1 DEF CreateDataset, ThreadTypes
    <3>2. CASE FindDataset(t)
      BY <1>1, <2>1, <3>2 DEF FindDataset, HomeOf, At
    <3>3. QED
      BY <1>6, <3>1, <3>2
  <2>4. QED
    BY <2>1, <2>2, <2>3, PassHome
<1>7. CASE ReadRows(t)
  <2>1. todo[t] # <<>> /\ Head(todo[t]) = "read rows"
    BY <1>7 DEF ReadRows, At
  <2>2. /\ todo'[t] = Tail(todo[t]) /\ home'[t] = home[t] /\ on'[t] = on[t]
        /\ rows'[t] = InScope(home[t]) /\ universe' = universe
    BY <1>1, <1>7 DEF ReadRows, ThreadTypes, ScopeRows, datasetVars
  <2>3. \A d \in rows'[t] : universe'[d] = home'[t]
    BY <2>2 DEF InScope
  <2>4. todo'[t] # <<>>
    <3>1. Tail(todo[t]) # <<>>
      BY <1>1, <2>1, PlanSteps DEF ThreadTypes, Ends
    <3>2. QED
      BY <2>2, <3>1
  <2>5. Follows("read rows", Len(todo[t]), Head(todo'[t])) /\ Len(todo[t]) \in Nat
    BY <2>1, <2>2, <2>4, GoesOn
  <2>6. CASE Len(todo[t]) = 2
    BY <1>1, <2>1, <2>2, <2>3, <2>4, <2>5, <2>6 DEF HomeOf, Switches, Follows
  <2>7. CASE Len(todo[t]) # 2
    <3>1. Head(todo'[t]) = "create"
      BY <2>5, <2>7 DEF Follows
    <3>2. QED
      BY <2>3, <2>4, <3>1 DEF HomeOf, Switches
  <2>8. QED
    BY <2>6, <2>7
<1>8. CASE Delete(t)
  <2> DEFINE d == CHOOSE x \in on[t] : TRUE
             left == InScope(home[t]) \ {d}
             next == IF d \in active /\ left # {} THEN {Newest(left)} ELSE {}
  <2>1. /\ todo[t] # <<>> /\ Head(todo[t]) = "delete" /\ universe' = universe /\ rows' = rows
        /\ todo' = [todo EXCEPT ![t] = IF next = {} THEN <<>> ELSE SetActive]
        /\ home' = [home EXCEPT ![t] = IF next = {} THEN NoOne ELSE @]
        /\ on' = [on EXCEPT ![t] = next]
    BY <1>8, Zenon DEF Delete, At
  <2>2. rows'[t] = {}
    BY <1>1, <2>1 DEF HomeOf
  <2>3. ASSUME next # {}
        PROVE  next = {Newest(left)} /\ Newest(left) \in left
    <3>1. left \subseteq 1 .. Len(universe) /\ Len(universe) \in Nat
      BY <1>1, DatasetIds DEF DatasetTypes
    <3>2. QED
      BY <2>3, <3>1, NewestIn
  <2>4. \A e \in left : universe[e] = home[t]
    BY DEF InScope
  <2> HIDE DEF d, left, next
  <2>5. CASE next = {}
    BY <1>1, <2>1, <2>2, <2>5 DEF HomeOf, Switches, ThreadTypes
  <2>6. CASE next # {}
    <3>1. on'[t] = {Newest(left)} /\ home'[t] = home[t] /\ universe'[Newest(left)] = home[t]
      BY <1>1, <2>1, <2>3, <2>4, <2>6 DEF ThreadTypes
    <3>2. QED
      BY <2>2, <3>1 DEF HomeOf
  <2>7. QED
    BY <2>5, <2>6
<1>9. QED
  BY <1>2, <1>3, <1>4, <1>5, <1>6, <1>7, <1>8 DEF Step

LEMMA NextHome ==
    ASSUME FigureTypes, HomeInv, Next
    PROVE  HomeInv'
<1>1. PICK t \in Threads : Acts(t)
  BY NextActs
<1>2. HomeOf(t)'
  BY <1>1, StartHome, StepHome DEF Acts
<1>3. \A s \in Threads \ {t} : HomeOf(s)'
  BY <1>1, OthersHome
<1>4. QED
  BY <1>2, <1>3 DEF HomeInv

LEMMA StutterHome == HomeInv /\ UNCHANGED vars => HomeInv'
<1> SUFFICES ASSUME HomeInv, UNCHANGED vars PROVE HomeInv'
  OBVIOUS
<1>1. todo' = todo /\ home' = home /\ on' = on /\ rows' = rows /\ universe' = universe
  BY DEF vars, datasetVars, threadVars
<1>2. QED
  BY <1>1 DEF HomeInv, HomeOf, Switches

\* What a step leaves of another universe than its own.
LEMMA StepsApart ==
    ASSUME FigureTypes, HomeInv, NEW t \in Threads, Step(t) \/ Fails(t),
           NEW u \in Universes, u # home[t]
    PROVE  InScope(u)' = InScope(u) /\ InScope(u)' \cap active' = InScope(u) \cap active
<1>1. ThreadTypes /\ DatasetTypes /\ HomeOf(t)
  BY DEF FigureTypes, HomeInv
<1>2. CASE \/ WriteValues(t) \/ WriteBudgets(t) \/ WriteFacts(t) \/ Define(t) \/ WriteDerived(t)
           \/ ReadValues(t) \/ ReadFacts(t) \/ ReadRows(t) \/ Fails(t)
  BY <1>2 DEF WriteValues, WriteBudgets, WriteFacts, Define, WriteDerived, ReadValues, ReadFacts,
              ReadRows, ReadsFrom, Fails, datasetVars, InScope
<1>3. CASE SetsActive(t)
  <2>1. \A d \in rows[t] \cup on[t] : universe[d] # u
    BY <1>1, <1>3 DEF HomeOf, Switches, SetsActive, At
  <2>2. QED
    BY <1>3, <2>1 DEF SetsActive, Activates, InScope
<1>4. CASE CreateDataset(t) \/ FindDataset(t)
  <2>1. todo[t] # <<>> /\ home[t] \in Universes
    BY <1>1, <1>4, AtStep DEF CreateDataset, FindDataset, At
  <2>2. \A d \in rows[t] : universe[d] # u
    BY <1>1 DEF HomeOf
  <2>3. CASE Inserts(t)
    <3>1. /\ alive' = alive \cup {NewDataset(t)} /\ NewDataset(t) \notin alive
          /\ universe'[NewDataset(t)] = home[t] /\ \A d \in alive : universe'[d] = universe[d]
      BY <1>1, <2>1, <2>3, AppendedRow DEF Inserts, DatasetTypes
    <3>2. InScope(u)' = InScope(u)
      BY <3>1 DEF InScope
    <3>3. active' = active \/ active' = (active \ rows[t]) \cup {NewDataset(t)}
      BY <1>4 DEF CreateDataset, FindDataset, Activates
    <3>4. NewDataset(t) \notin InScope(u) /\ rows[t] \cap InScope(u) = {}
      BY <2>2, <3>1 DEF InScope
    <3>5. QED
      BY <3>2, <3>3, <3>4
  <2>4. CASE universe' = universe /\ alive' = alive /\ active' = active
    BY <2>4 DEF InScope
  <2>5. QED
    BY <1>4, <2>3, <2>4 DEF CreateDataset, FindDataset
<1>5. CASE Delete(t)
  <2> DEFINE d == CHOOSE x \in on[t] : TRUE
  <2>1. /\ todo[t] # <<>> /\ Head(todo[t]) = "delete" /\ universe' = universe
        /\ alive' = alive \ {d} /\ active' = active \ {d}
    BY <1>5, Zenon DEF Delete, At
  <2>2. universe[d] = home[t]
    BY <1>1, <2>1 DEF HomeOf, Switches
  <2> HIDE DEF d
  <2>3. QED
    BY <2>1, <2>2 DEF InScope
<1>6. QED
  BY <1>2, <1>3, <1>4, <1>5 DEF Step

LEMMA ShownApart ==
    ASSUME FigureTypes, HomeInv, Next, NEW t \in Threads, NEW u \in Universes,
           todo'[t] # todo[t], todo[t] # <<>>, u # home[t]
    PROVE  active_dataset_id(u)' = active_dataset_id(u)
<1>1. PICK s \in Threads : Acts(s)
  BY NextActs
<1>2. s = t
  BY <1>1, OthersStay
<1>3. Step(t) \/ Fails(t)
  BY <1>1, <1>2, RequestStarts DEF Acts, Starts, MayStart
<1>4. InScope(u)' = InScope(u) /\ InScope(u)' \cap active' = InScope(u) \cap active
  BY <1>3, StepsApart
<1>5. QED
  BY <1>4 DEF active_dataset_id

\* datasets.py:59-60 "demo sessions can NEVER see or activate a real dataset, and
\* vice-versa": no request changes which dataset another universe shows.
THEOREM DemoIsApart == Spec => UniversesAreApart
<1>1. /\ FigureTypes /\ [Next]_vars => FigureTypes'
      /\ HomeInv /\ FigureTypes /\ [Next]_vars => HomeInv'
  BY NextTypes, StutterTypes, NextHome, StutterHome
<1>2. FigureTypes /\ HomeInv /\ [Next]_vars =>
         [\A t \in Threads, u \in Universes :
             todo'[t] # todo[t] /\ todo[t] # <<>> /\ u # home[t] =>
                active_dataset_id(u)' = active_dataset_id(u)]_vars
  BY ShownApart
<1>3. QED
  BY InitTypes, InitHome, <1>1, <1>2, PTL DEF Spec, UniversesAreApart

-----------------------------------------------------------------------------
(* One dataset is active at a time.                                        *)

\* When requests do not overlap, what set_active has read is still there when it writes.
OneAtATime == \A s, t \in Threads : todo[s] # <<>> /\ todo[t] # <<>> => s = t

RowsAreThere == \A t \in Threads : At(t, "create") \/ At(t, "set active") => rows[t] = InScope(home[t])

ActivesDiffer == \A d, e \in alive \cap active : universe[d] = universe[e] => d = e

SerialInv == ~overlap => OneAtATime /\ RowsAreThere /\ ActivesDiffer

\* Each read-only universe is seeded once.
LEMMA InitSerial == Init => SerialInv
<1> SUFFICES ASSUME Init PROVE OneAtATime /\ RowsAreThere /\ ActivesDiffer
  BY DEF SerialInv
<1>1. OneAtATime /\ RowsAreThere
  BY DEF Init, OneAtATime, RowsAreThere, At
<1>2. universe \in Surjection(1 .. Cardinality(ReadOnly), ReadOnly)
  BY DEF Init, Surjection
<1>3. Cardinality(ReadOnly) \in Nat
  BY FiguresAssumption, FS_CardinalityType DEF FiguresAssumption
<1>4. /\ IsFiniteSet(1 .. Cardinality(ReadOnly))
      /\ Cardinality(1 .. Cardinality(ReadOnly)) = Cardinality(ReadOnly)
  BY <1>3, FS_Interval
<1>5. universe \in Injection(1 .. Cardinality(ReadOnly), ReadOnly)
  BY <1>2, <1>4, FS_Surjection
<1>6. DOMAIN universe = 1 .. Cardinality(ReadOnly)
  BY DEF Init
<1>7. ActivesDiffer
  <2>1. \A d, e \in 1 .. Cardinality(ReadOnly) : universe[d] = universe[e] => d = e
    BY <1>5 DEF Injection, IsInjective
  <2>2. alive = DOMAIN universe
    BY DEF Init
  <2>3. QED
    BY <1>6, <2>1, <2>2 DEF ActivesDiffer
<1>8. QED
  BY <1>1, <1>7

LEMMA NextOneAtATime ==
    ASSUME FigureTypes, OneAtATime, ~overlap, NEW t \in Threads, Acts(t)
    PROVE  OneAtATime' /\ \A s \in Threads \ {t} : todo[s] = <<>> /\ todo'[s] = <<>>
<1>1. \A s \in Threads \ {t} : todo[s] = <<>>
  <2>1. CASE Step(t) \/ Fails(t)
    <3>1. todo[t] # <<>>
      BY <2>1 DEF Step, Fails, ReadRows, SetsActive, CreateDataset, FindDataset, Delete, WriteValues,
                  WriteBudgets, ReadValues, WriteFacts, Define, ReadFacts, WriteDerived, At
    <3>2. QED
      BY <3>1 DEF OneAtATime
  <2>2. CASE \E u \in Universes : Request(t, u)
    BY <2>2, RequestStarts DEF Starts, MayStart
  <2>3. QED
    BY <2>1, <2>2 DEF Acts
<1>2. QED
  BY <1>1, OthersStay DEF OneAtATime

LEMMA NextRows ==
    ASSUME FigureTypes, HomeInv, OneAtATime, RowsAreThere, ~overlap, NEW t \in Threads, Acts(t)
    PROVE  RowsAreThere'
<1>1. \A s \in Threads \ {t} : todo'[s] = <<>>
  BY NextOneAtATime
<1>2. ASSUME NEW u \in Universes, Request(t, u)
      PROVE  ~At(t, "create")' /\ ~At(t, "set active")'
  BY <1>2, StartHeads DEF Request, Begins, At
<1>3. CASE ReadRows(t)
  <2>1. rows'[t] = InScope(home[t]) /\ home'[t] = home[t] /\ InScope(home[t]) = InScope(home[t])'
    BY <1>3 DEF ReadRows, ScopeRows, FigureTypes, ThreadTypes, datasetVars, InScope
  <2>2. QED
    BY <1>1, <2>1 DEF RowsAreThere, At
<1>4. ASSUME Step(t), ~ReadRows(t)
      PROVE  todo'[t] = <<>> \/ Head(todo'[t]) \notin {"create", "set active"}
  <2>1. CASE Delete(t)
    <3>1. todo'[t] \in {<<>>, SetActive}
      BY <2>1 DEF Delete, FigureTypes, ThreadTypes
    <3>2. SetActive # <<>> => Head(SetActive) = "read rows"
      BY DEF SetActive
    <3>3. QED
      BY <3>1, <3>2
  <2>2. CASE ~Delete(t)
    <3>1. todo[t] # <<>> /\ Head(todo[t]) # "read rows"
      BY <1>4, <2>2 DEF Step, SetsActive, CreateDataset, FindDataset, WriteValues,
                        WriteBudgets, ReadValues, WriteFacts, Define, ReadFacts, WriteDerived, At
    <3>2. todo'[t] \in {<<>>, Tail(todo[t])}
      BY <1>4, <2>2, GoesOrEnds
    <3>3. QED
      BY <3>1, <3>2, GoesOn DEF Follows
  <2>3. QED
    BY <2>1, <2>2
<1>5. CASE Fails(t)
  BY <1>1, <1>5 DEF Fails, Continue, FigureTypes, ThreadTypes, RowsAreThere, At
<1>6. QED
  BY <1>1, <1>2, <1>3, <1>4, <1>5 DEF Acts, RowsAreThere, At

LEMMA NextActives ==
    ASSUME FigureTypes, HomeInv, RowsAreThere, ActivesDiffer, NEW t \in Threads, Acts(t)
    PROVE  ActivesDiffer'
<1>1. ThreadTypes /\ DatasetTypes /\ HomeOf(t)
  BY DEF FigureTypes, HomeInv
<1>2. CASE UNCHANGED datasetVars
  BY <1>2 DEF ActivesDiffer, datasetVars
<1>3. CASE SetsActive(t)
  <2>1. rows[t] = InScope(home[t])
    BY <1>3 DEF SetsActive, RowsAreThere
  <2>2. PICK d \in on[t] : on[t] = {d} /\ universe[d] = home[t]
    BY <1>1, <1>3 DEF HomeOf, Switches, SetsActive, At
  <2>3. /\ universe' = universe /\ alive' = alive
        /\ active' = (active \ InScope(home[t])) \cup ({d} \cap alive)
    BY <1>3, <2>1, <2>2 DEF SetsActive, Activates
  <2>4. QED
    BY <2>2, <2>3 DEF ActivesDiffer, InScope
<1>4. CASE CreateDataset(t)
  <2>1. todo[t] # <<>> /\ rows[t] = InScope(home[t]) /\ home[t] \in Universes
    BY <1>1, <1>4, AtStep DEF CreateDataset, RowsAreThere, At
  <2>2. /\ alive' = alive \cup {NewDataset(t)} /\ NewDataset(t) \notin alive
        /\ universe'[NewDataset(t)] = home[t] /\ \A d \in alive : universe'[d] = universe[d]
    BY <1>1, <1>4, <2>1, AppendedRow DEF CreateDataset, Inserts, DatasetTypes
  <2>3. active' = (active \ InScope(home[t])) \cup {NewDataset(t)}
    BY <1>4, <2>1 DEF CreateDataset, Activates
  <2>4. active \subseteq alive
    BY <1>1 DEF DatasetTypes
  <2>5. QED
    BY <2>2, <2>3, <2>4 DEF ActivesDiffer, InScope
<1>5. CASE FindDataset(t)
  <2>1. todo[t] # <<>> /\ home[t] \in Universes
    BY <1>1, <1>5, AtStep DEF FindDataset, At
  <2>2. CASE Inserts(t)
    <3>1. \A d \in alive : universe'[d] = universe[d]
      BY <1>1, <2>1, <2>2, AppendedRow DEF DatasetTypes
    <3>2. active' = active /\ active \subseteq alive
      BY <1>1, <1>5 DEF FindDataset, DatasetTypes
    <3>3. QED
      BY <3>1, <3>2 DEF ActivesDiffer
  <2>3. QED
    BY <1>5, <2>2 DEF FindDataset, ActivesDiffer
<1>6. CASE Delete(t)
  <2>1. universe' = universe /\ alive' \subseteq alive /\ active' \subseteq active
    BY <1>6 DEF Delete
  <2>2. QED
    BY <2>1 DEF ActivesDiffer
<1>7. ASSUME \/ WriteValues(t) \/ WriteBudgets(t) \/ WriteFacts(t) \/ Define(t) \/ WriteDerived(t)
             \/ ReadValues(t) \/ ReadFacts(t) \/ ReadRows(t) \/ Fails(t)
      PROVE  UNCHANGED datasetVars
  BY <1>7 DEF WriteValues, WriteBudgets, WriteFacts, Define, WriteDerived, ReadValues, ReadFacts,
              ReadRows, ReadsFrom, Fails
<1>8. (\E u \in Universes : Request(t, u)) => UNCHANGED datasetVars
  BY RequestStarts DEF Starts
<1>9. QED
  BY <1>2, <1>3, <1>4, <1>5, <1>6, <1>7, <1>8 DEF Acts, Step

LEMMA NextSerial ==
    ASSUME FigureTypes, HomeInv, SerialInv, Next
    PROVE  SerialInv'
<1>1. PICK t \in Threads : Acts(t)
  BY NextActs
<1>2. overlap' = overlap
  BY DEF Next
<1>3. QED
  BY <1>1, <1>2, NextOneAtATime, NextRows, NextActives DEF SerialInv

LEMMA StutterSerial == SerialInv /\ UNCHANGED vars => SerialInv'
<1> SUFFICES ASSUME SerialInv, UNCHANGED vars PROVE SerialInv'
  OBVIOUS
<1>1. /\ overlap' = overlap /\ todo' = todo /\ home' = home /\ rows' = rows /\ universe' = universe
      /\ alive' = alive /\ active' = active
  BY DEF vars, datasetVars, threadVars
<1>2. QED
  BY <1>1 DEF SerialInv, OneAtATime, RowsAreThere, ActivesDiffer, At, InScope

LEMMA SerialOneActive ==
    ASSUME FigureTypes, SerialInv
    PROVE  OneActive
<1> SUFFICES ASSUME ~overlap, NEW u \in Universes
             PROVE  Cardinality(InScope(u) \cap active) <= 1
  BY DEF OneActive
<1>1. \A d, e \in InScope(u) \cap active : d = e
  BY DEF SerialInv, ActivesDiffer, InScope
<1>2. CASE InScope(u) \cap active = {}
  BY <1>2, FS_EmptySet
<1>3. CASE InScope(u) \cap active # {}
  <2>1. PICK d : InScope(u) \cap active = {d}
    BY <1>1, <1>3
  <2>2. Cardinality({d}) = 1
    BY FS_Singleton
  <2>3. QED
    BY <2>1, <2>2
<1>4. QED
  BY <1>2, <1>3

\* datasets.py:3 "Exactly one dataset is active at a time": never two in one
\* universe, when requests do not overlap.
THEOREM OneIsActive == Spec => []OneActive
<1>1. /\ FigureTypes /\ [Next]_vars => FigureTypes'
      /\ HomeInv /\ FigureTypes /\ [Next]_vars => HomeInv'
      /\ SerialInv /\ HomeInv /\ FigureTypes /\ [Next]_vars => SerialInv'
  BY NextTypes, StutterTypes, NextHome, StutterHome, NextSerial, StutterSerial
<1>2. FigureTypes /\ SerialInv => OneActive
  BY SerialOneActive
<1>3. QED
  BY InitTypes, InitHome, InitSerial, <1>1, <1>2, PTL DEF Spec

-----------------------------------------------------------------------------
(* Datasets without rows.                                                  *)

\* Only what is about to be written has been read.
ReadInv ==
    \A t \in Threads :
        todo[t] = <<>> \/ Head(todo[t]) \notin {"write facts", "write derived", "write all derived"}
        => read[t] = Unread

BlankDataset(d) == budgets[d] = 0 /\ facts[d] = <<0, 0>> /\ d \notin derived

HasRows(t, d) ==
    /\ read[t][d][1] # 0 => values[d] # 0
    /\ At(t, "write budgets") \/ At(t, "define") => values[d] # 0

\* A dataset without values has nothing else, and nobody has read anything of it.
BlankInv ==
    /\ \A d \in Ids : values[d] = 0 => BlankDataset(d)
    /\ \A d \in Ids \ DOMAIN universe : values[d] = 0
    /\ \A t \in Threads : \A d \in on[t] \cap alive : HasRows(t, d)

Same(d) ==
    /\ values'[d] = values[d] /\ budgets'[d] = budgets[d] /\ facts'[d] = facts[d]
    /\ d \in derived' <=> d \in derived
    /\ dvalues'[d] = dvalues[d] /\ dfacts'[d] = dfacts[d]

Writes(t) == WriteValues(t) \/ WriteBudgets(t) \/ WriteFacts(t) \/ Define(t) \/ WriteDerived(t)

LEMMA WritesContinue ==
    ASSUME FigureTypes, NEW t \in Threads, Writes(t)
    PROVE  /\ Continue(t, on[t], <<>>) \/ Continue(t, on[t], Tail(todo[t]))
           /\ todo[t] # <<>> /\ on[t] \subseteq alive /\ on[t] \subseteq Ids
           /\ UNCHANGED datasetVars
<1>1. Continue(t, on[t], <<>>) \/ Continue(t, on[t], Tail(todo[t]))
  <2>1. CASE WriteDerived(t)
    <3> DEFINE none == \A d \in on[t] \cap derived : Formula(read[t][d][1]) = 0
    <3>1. Continue(t, on[t], IF none /\ At(t, "write derived") THEN <<>> ELSE Tail(todo[t]))
      BY <2>1, Zenon DEF WriteDerived
    <3> HIDE DEF none
    <3>2. QED
      BY <3>1, Zenon
  <2>2. CASE ~WriteDerived(t)
    BY <2>2, Zenon DEF Writes, WriteValues, WriteBudgets, WriteFacts, Define, Done
  <2>3. QED
    BY <2>1, <2>2
<1>2. todo[t] # <<>> /\ on[t] \subseteq alive /\ UNCHANGED datasetVars
  BY DEF Writes, WriteValues, WriteBudgets, WriteFacts, Define, WriteDerived, At, Present
<1>3. QED
  BY <1>1, <1>2, DatasetIds DEF FigureTypes

\* The other steps leave the content of every dataset that is still there.
LEMMA OnlyWritesTouch ==
    ASSUME FigureTypes, NEW t \in Threads, Acts(t), ~Writes(t), NEW d \in Ids, d \in alive'
    PROVE  Same(d)
<1>1. CASE UNCHANGED contentVars
  BY <1>1 DEF contentVars, Same
<1>2. CASE Delete(t)
  <2> DEFINE x == CHOOSE x \in on[t] : TRUE
  <2>1. /\ values' = [values EXCEPT ![x] = 0] /\ budgets' = [budgets EXCEPT ![x] = 0]
        /\ facts' = [facts EXCEPT ![x] = <<0, 0>>] /\ derived' = derived \ {x}
        /\ dvalues' = [dvalues EXCEPT ![x] = 0] /\ dfacts' = [dfacts EXCEPT ![x] = 0]
        /\ alive' = alive \ {x}
    BY <1>2, Zenon DEF Delete
  <2> HIDE DEF x
  <2>2. QED
    BY <2>1 DEF Same, FigureTypes, ContentTypes
<1>3. ASSUME NEW u \in Universes, Request(t, u)
      PROVE  UNCHANGED contentVars
  BY <1>3, RequestStarts DEF Starts
<1>4. ASSUME \/ ReadRows(t) \/ SetsActive(t) \/ CreateDataset(t) \/ FindDataset(t)
             \/ ReadValues(t) \/ ReadFacts(t) \/ Fails(t)
      PROVE  UNCHANGED contentVars
  BY <1>4 DEF ReadRows, SetsActive, CreateDataset, FindDataset, ReadValues, ReadFacts, ReadsFrom, Fails
<1>5. QED
  BY <1>1, <1>2, <1>3, <1>4 DEF Acts, Step, Writes

\* A write touches the datasets it works on.
LEMMA WritesTouch ==
    ASSUME FigureTypes, NEW t \in Threads, Writes(t), NEW d \in Ids \ on[t]
    PROVE  Same(d)
<1>1. CASE WriteDerived(t)
  <2>1. /\ dvalues' = [e \in Ids |-> IF e \in on[t] \cap derived THEN Formula(read[t][e][1]) ELSE dvalues[e]]
        /\ dfacts' = [e \in Ids |-> IF e \in on[t] \cap derived THEN 0 ELSE dfacts[e]]
        /\ UNCHANGED <<values, budgets, facts, derived>>
    BY <1>1, Zenon DEF WriteDerived
  <2>2. QED
    BY <2>1 DEF Same
<1>2. CASE WriteValues(t) \/ WriteBudgets(t)
  BY <1>2 DEF WriteValues, WriteBudgets, Same
<1>3. CASE WriteFacts(t)
  BY <1>3 DEF WriteFacts, Same
<1>4. CASE Define(t)
  BY <1>4 DEF Define, Same
<1>5. QED
  BY <1>1, <1>2, <1>3, <1>4 DEF Writes

LEMMA InitRead == Init => ReadInv /\ BlankInv
<1> SUFFICES ASSUME Init PROVE ReadInv /\ BlankInv
  OBVIOUS
<1>1. ReadInv
  BY DEF Init, ReadInv
<1>2. BlankInv
  BY DEF Init, BlankInv, BlankDataset, HasRows
<1>3. QED
  BY <1>1, <1>2

LEMMA NextRead ==
    ASSUME FigureTypes, ReadInv, NEW t \in Threads, Acts(t)
    PROVE  ReadInv'
<1>1. ThreadTypes
  BY DEF FigureTypes
<1>2. \A s \in Threads \ {t} : todo'[s] = todo[s] /\ read'[s] = read[s]
  BY OthersStay
<1>3. CASE read'[t] = Unread
  BY <1>2, <1>3 DEF ReadInv
<1>4. CASE Writes(t) \/ SetsActive(t) \/ Fails(t)
  <2>1. \E S, steps : Continue(t, S, steps)
    BY <1>4, WritesContinue, Zenon DEF SetsActive, Fails, Done
  <2>2. read'[t] = Unread
    BY <1>1, <2>1 DEF Continue, ThreadTypes
  <2>3. QED
    BY <1>3, <2>2
<1>5. CASE ReadRows(t) \/ CreateDataset(t) \/ FindDataset(t) \/ Delete(t)
  <2>1. read' = read /\ todo[t] # <<>> /\ Head(todo[t]) \in {"read rows", "create", "find", "delete"}
    BY <1>5 DEF ReadRows, CreateDataset, FindDataset, Delete, At
  <2>2. read'[t] = Unread
    BY <2>1 DEF ReadInv
  <2>3. QED
    BY <1>3, <2>2
<1>6. CASE ReadValues(t) \/ ReadFacts(t)
  <2>1. todo[t] # <<>> /\ Head(todo[t]) \in {"read values", "read facts"}
    BY <1>6 DEF ReadValues, ReadFacts, At
  <2>2. todo'[t] = Tail(todo[t])
    BY <1>1, <1>6 DEF ReadValues, ReadFacts, ReadsFrom, ThreadTypes
  <2>3. Tail(todo[t]) # <<>>
    BY <1>1, <2>1, PlanSteps DEF ThreadTypes, Ends
  <2>4. Head(todo'[t]) \in {"write facts", "write derived", "write all derived"}
    BY <2>1, <2>2, <2>3, GoesOn DEF Follows
  <2>5. QED
    BY <1>2, <2>2, <2>3, <2>4 DEF ReadInv
<1>7. ASSUME NEW u \in Universes, Request(t, u)
      PROVE  ReadInv'
  <2>1. read'[t] = read[t] /\ todo[t] = <<>>
    BY <1>7, RequestStarts DEF Starts, MayStart
  <2>2. QED
    BY <1>3, <2>1 DEF ReadInv
<1>8. QED
  BY <1>4, <1>5, <1>6, <1>7 DEF Acts, Step, Writes

LEMMA WrittenValues ==
    ASSUME FigureTypes, NEW t \in Threads, WriteValues(t), NEW d \in Ids, d \in on[t]
    PROVE  values'[d] # 0
<1>1. values'[d] = stamp'
  BY DEF WriteValues
<1>2. stamp' = stamp + 1
  BY DEF WriteValues
<1>3. stamp \in Nat
  BY StampFacts DEF FigureTypes, ContentTypes, Stamps
<1>4. stamp + 1 # 0
  BY <1>3
<1>5. QED
  BY <1>1, <1>2, <1>4, Zenon

\* Values that are there stay there as long as their dataset.
LEMMA ValuesStay ==
    ASSUME FigureTypes, BlankInv, NEW t \in Threads, Acts(t), NEW d \in alive', values[d] # 0, d \in Ids
    PROVE  values'[d] # 0
<1>1. CASE ~Writes(t) \/ d \notin on[t]
  BY <1>1, OnlyWritesTouch, WritesTouch DEF Same
<1>2. CASE WriteValues(t) /\ d \in on[t]
  BY <1>2, WrittenValues
<1>3. CASE Writes(t) /\ ~WriteValues(t)
  <2>1. values' = values
    BY <1>3 DEF Writes, WriteBudgets, WriteFacts, Define, WriteDerived
  <2>2. QED
    BY <2>1
<1>4. QED
  BY <1>1, <1>2, <1>3

\* What a dataset has beside its values, it has with them.
LEMMA NextBlank ==
    ASSUME FigureTypes, BlankInv, NEW t \in Threads, Acts(t), NEW d \in Ids, values'[d] = 0
    PROVE  BlankDataset(d)'
<1>1. CASE d \notin alive'
  <2>1. CASE Writes(t)
    <3>1. d \notin on[t]
      BY <1>1, <2>1, WritesContinue DEF datasetVars
    <3>2. QED
      BY <2>1, <3>1, WritesTouch DEF Same, BlankInv, BlankDataset
  <2>2. CASE Delete(t)
    <3> DEFINE x == CHOOSE x \in on[t] : TRUE
    <3>1. /\ values' = [values EXCEPT ![x] = 0] /\ budgets' = [budgets EXCEPT ![x] = 0]
          /\ facts' = [facts EXCEPT ![x] = <<0, 0>>] /\ derived' = derived \ {x}
      BY <2>2, Zenon DEF Delete
    <3> HIDE DEF x
    <3>2. QED
      BY <3>1 DEF BlankInv, BlankDataset, FigureTypes, ContentTypes
  <2>3. CASE ~Writes(t) /\ ~Delete(t)
    <3>1. UNCHANGED contentVars
      <4>1. ASSUME NEW u \in Universes, Request(t, u)
            PROVE  UNCHANGED contentVars
        BY <4>1, RequestStarts DEF Starts
      <4>2. ASSUME \/ ReadRows(t) \/ SetsActive(t) \/ CreateDataset(t) \/ FindDataset(t)
                   \/ ReadValues(t) \/ ReadFacts(t) \/ Fails(t)
            PROVE  UNCHANGED contentVars
        BY <4>2 DEF ReadRows, SetsActive, CreateDataset, FindDataset, ReadValues, ReadFacts, ReadsFrom,
                    Fails
      <4>3. QED
        BY <2>3, <4>1, <4>2 DEF Acts, Step, Writes
    <3>2. QED
      BY <3>1 DEF contentVars, BlankInv, BlankDataset
  <2>4. QED
    BY <2>1, <2>2, <2>3
<1>2. CASE d \in alive'
  <2>1. CASE ~Writes(t) \/ d \notin on[t]
    <3>1. Same(d)
      BY <1>2, <2>1, OnlyWritesTouch, WritesTouch
    <3>2. QED
      BY <3>1 DEF Same, BlankInv, BlankDataset
  <2>2. CASE Writes(t) /\ d \in on[t]
    <3>1. values[d] = 0
      BY <1>2, ValuesStay
    <3>2. d \in alive /\ HasRows(t, d)
      BY <2>2, WritesContinue DEF BlankInv
    <3>3. ~WriteBudgets(t) /\ ~Define(t)
      BY <3>1, <3>2 DEF HasRows, WriteBudgets, Define
    <3>4. ~WriteValues(t)
      BY <2>2, WrittenValues
    <3>5. read[t][d][1] = 0 /\ BlankDataset(d)
      BY <3>1, <3>2 DEF HasRows, BlankInv
    <3>6. budgets'[d] = budgets[d] /\ facts'[d] = facts[d] /\ derived' = derived
      <4>1. CASE WriteFacts(t)
        BY <3>5, <4>1 DEF WriteFacts
      <4>2. CASE WriteDerived(t)
        BY <4>2, Zenon DEF WriteDerived
      <4>3. QED
        BY <2>2, <3>3, <3>4, <4>1, <4>2 DEF Writes
    <3>7. QED
      BY <3>5, <3>6 DEF BlankDataset
  <2>3. QED
    BY <2>1, <2>2
<1>3. QED
  BY <1>1, <1>2

LEMMA NewBlank ==
    ASSUME FigureTypes, BlankInv, NEW t \in Threads, Acts(t), NEW d \in Ids \ DOMAIN universe'
    PROVE  values'[d] = 0
<1>1. d \notin DOMAIN universe /\ values[d] = 0
  BY OthersStay DEF BlankInv
<1>2. d \notin alive /\ d \notin on[t]
  BY <1>1 DEF FigureTypes, DatasetTypes, ThreadTypes
<1>3. CASE Writes(t)
  BY <1>1, <1>2, <1>3, WritesTouch DEF Same
<1>4. CASE Delete(t)
  BY <1>1, <1>4 DEF Delete, FigureTypes, ContentTypes
<1>5. ASSUME NEW u \in Universes, Request(t, u)
      PROVE  UNCHANGED contentVars
  BY <1>5, RequestStarts DEF Starts
<1>6. ASSUME \/ ReadRows(t) \/ SetsActive(t) \/ CreateDataset(t) \/ FindDataset(t)
             \/ ReadValues(t) \/ ReadFacts(t) \/ Fails(t)
      PROVE  UNCHANGED contentVars
  BY <1>6 DEF ReadRows, SetsActive, CreateDataset, FindDataset, ReadValues, ReadFacts, ReadsFrom, Fails
<1>7. QED
  BY <1>1, <1>3, <1>4, <1>5, <1>6 DEF Acts, Step, Writes, contentVars

\* No step adds datasets that somebody else works on.
LEMMA AliveGrows ==
    ASSUME FigureTypes, NEW t \in Threads, Acts(t)
    PROVE  \A d \in alive' : d \in alive \/ (d \notin DOMAIN universe /\ d \in Ids)
<1>1. CASE CreateDataset(t) \/ FindDataset(t)
  <2>1. todo[t] # <<>> /\ ThreadTypes /\ DatasetTypes
    BY <1>1 DEF CreateDataset, FindDataset, At, FigureTypes
  <2>2. home[t] \in Universes
    BY <2>1, AtStep
  <2>3. CASE Inserts(t)
    <3>1. NewDataset(t) \notin DOMAIN universe
      BY <2>1, <2>2, <2>3, AppendedRow
    <3>2. QED
      BY <2>3, <3>1 DEF Inserts
  <2>4. QED
    BY <1>1, <2>3 DEF CreateDataset, FindDataset
<1>2. ASSUME NEW u \in Universes, Request(t, u)
      PROVE  alive' = alive
  BY <1>2, RequestStarts DEF Starts, datasetVars
<1>3. ASSUME \/ ReadRows(t) \/ SetsActive(t) \/ ReadValues(t) \/ ReadFacts(t) \/ Fails(t) \/ Delete(t)
      PROVE  alive' \subseteq alive
  BY <1>3 DEF ReadRows, SetsActive, ReadValues, ReadFacts, ReadsFrom, Fails, Delete, datasetVars
<1>4. Writes(t) => alive' = alive
  BY WritesContinue DEF datasetVars
<1>5. QED
  BY <1>1, <1>2, <1>3, <1>4 DEF Acts, Step, Writes

LEMMA OthersHaveRows ==
    ASSUME FigureTypes, BlankInv, NEW t \in Threads, Acts(t), NEW s \in Threads \ {t},
           NEW d \in on'[s], d \in alive'
    PROVE  HasRows(s, d)'
<1>1. on'[s] = on[s] /\ read'[s] = read[s] /\ todo'[s] = todo[s]
  BY OthersStay
<1>2. on[s] \subseteq DOMAIN universe
  BY DEF FigureTypes, ThreadTypes
<1>3. d \in alive /\ d \in Ids /\ HasRows(s, d)
  BY <1>1, <1>2, AliveGrows, DatasetIds DEF BlankInv, FigureTypes
<1>4. values[d] # 0 => values'[d] # 0
  BY <1>3, ValuesStay
<1>5. QED
  BY <1>1, <1>3, <1>4 DEF HasRows, At

LEMMA StepHasRows ==
    ASSUME FigureTypes, BlankInv, ReadInv, NEW t \in Threads, Acts(t),
           NEW d \in on'[t], d \in alive'
    PROVE  HasRows(t, d)'
<1>1. ThreadTypes /\ d \in Ids
  <2>1. d \in alive \/ d \in Ids
    BY AliveGrows
  <2>2. QED
    BY <2>1, DatasetIds DEF FigureTypes
<1>2. Unread[d][1] = 0
  BY <1>1 DEF Unread
<1>3. ASSUME NEW u \in Universes, Request(t, u)
      PROVE  HasRows(t, d)'
  <2>1. read'[t] = Unread /\ values' = values
    BY <1>3, RequestStarts DEF Starts, MayStart, ReadInv, contentVars
  <2>2. CASE CreateDerived(t, u) \/ \E e \in InScope(u) : JoinBudget(t, u, e)
    <3>1. PICK e : on'[t] = {e} /\ values[e] # 0
      BY <1>1, <2>2 DEF CreateDerived, JoinBudget, Starts, ThreadTypes
    <3>2. QED
      BY <1>2, <2>1, <3>1 DEF HasRows
  <2>3. ASSUME ~CreateDerived(t, u), ~\E e \in InScope(u) : JoinBudget(t, u, e)
        PROVE  ~At(t, "write budgets")' /\ ~At(t, "define")'
    BY <1>3, <2>3, StartHeads DEF Request, Begins, At
  <2>4. ASSUME ~At(t, "write budgets")', ~At(t, "define")'
        PROVE  HasRows(t, d)'
    BY <1>2, <2>1, <2>4 DEF HasRows
  <2>5. QED
    BY <2>2, <2>3, <2>4
<1>4. ASSUME Step(t) \/ Fails(t)
      PROVE  ~At(t, "write budgets")' /\ ~At(t, "define")'
  <2>1. todo[t] # <<>>
    BY <1>4 DEF Step, Fails, ReadRows, SetsActive, CreateDataset, FindDataset, Delete, WriteValues,
                WriteBudgets, ReadValues, WriteFacts, Define, ReadFacts, WriteDerived, At
  <2>2. CASE Delete(t)
    <3>1. todo'[t] \in {<<>>, SetActive}
      BY <2>2 DEF Delete, FigureTypes, ThreadTypes
    <3>2. SetActive # <<>> => Head(SetActive) = "read rows"
      BY DEF SetActive
    <3>3. QED
      BY <3>1, <3>2 DEF At
  <2>3. CASE ~Delete(t)
    BY <1>4, <2>1, <2>3, GoesOrEnds, GoesOn DEF Follows, At
  <2>4. QED
    BY <2>2, <2>3
<1>5. CASE ReadValues(t)
  <2>1. read'[t] = [e \in Ids |-> IF e \in on[t] THEN <<values[e], budgets[e], dvalues[e]>> ELSE Unread[e]]
    BY <1>1, <1>5 DEF ReadValues, ReadsFrom, ThreadTypes
  <2>2. values' = values
    BY <1>5 DEF ReadValues, ReadsFrom, contentVars
  <2>3. read'[t][d][1] \in {values[d], 0}
    BY <1>1, <1>2, <2>1
  <2>4. QED
    BY <1>4, <1>5, <2>2, <2>3 DEF HasRows, Step
<1>6. CASE ReadFacts(t)
  <2>1. read'[t] = [e \in Ids |-> IF e \in on[t] THEN <<facts[e][1], 0, 0>> ELSE Unread[e]]
    BY <1>1, <1>6 DEF ReadFacts, ReadsFrom, ThreadTypes
  <2>2. values' = values
    BY <1>6 DEF ReadFacts, ReadsFrom, contentVars
  <2>3. values[d] = 0 => facts[d][1] = 0
    BY <1>1 DEF BlankInv, BlankDataset
  <2>4. read'[t][d][1] \in {facts[d][1], 0}
    BY <1>1, <1>2, <2>1
  <2>5. QED
    BY <1>4, <1>6, <2>2, <2>3, <2>4 DEF HasRows, Step
<1>7. ASSUME Step(t) \/ Fails(t), ~ReadValues(t), ~ReadFacts(t)
      PROVE  read'[t] = Unread
  <2>1. CASE Writes(t) \/ SetsActive(t) \/ Fails(t)
    <3>1. \E S, steps : Continue(t, S, steps)
      BY <2>1, WritesContinue, Zenon DEF SetsActive, Fails, Done
    <3>2. QED
      BY <1>1, <3>1 DEF Continue, ThreadTypes
  <2>2. CASE ReadRows(t) \/ CreateDataset(t) \/ FindDataset(t) \/ Delete(t)
    BY <2>2 DEF ReadRows, CreateDataset, FindDataset, Delete, At, ReadInv
  <2>3. QED
    BY <1>7, <2>1, <2>2 DEF Step, Writes
<1>8. QED
  BY <1>2, <1>3, <1>4, <1>5, <1>6, <1>7 DEF Acts, HasRows

LEMMA NextBlanks ==
    ASSUME FigureTypes, ReadInv, BlankInv, Next
    PROVE  ReadInv' /\ BlankInv'
<1>1. PICK t \in Threads : Acts(t)
  BY NextActs
<1>2. ReadInv'
  BY <1>1, NextRead
<1>3. \A s \in Threads : \A d \in on'[s] \cap alive' : HasRows(s, d)'
  BY <1>1, OthersHaveRows, StepHasRows
<1>4. \A d \in Ids : values'[d] = 0 => BlankDataset(d)'
  BY <1>1, NextBlank
<1>5. \A d \in Ids \ DOMAIN universe' : values'[d] = 0
  BY <1>1, NewBlank
<1>6. QED
  BY <1>2, <1>3, <1>4, <1>5 DEF BlankInv

LEMMA StutterBlanks == ReadInv /\ BlankInv /\ UNCHANGED vars => ReadInv' /\ BlankInv'
<1> SUFFICES ASSUME ReadInv, BlankInv, UNCHANGED vars PROVE ReadInv' /\ BlankInv'
  OBVIOUS
<1>1. /\ todo' = todo /\ read' = read /\ on' = on /\ alive' = alive /\ universe' = universe
      /\ values' = values /\ budgets' = budgets /\ facts' = facts /\ derived' = derived
  BY DEF vars, datasetVars, contentVars, threadVars
<1>2. QED
  BY <1>1 DEF ReadInv, BlankInv, BlankDataset, HasRows, At

-----------------------------------------------------------------------------
(* Facts follow the values.                                                *)

FactsFresh(d) == facts[d] = <<values[d], budgets[d]>>

DerivedFresh(d) ==
    d \in derived => dvalues[d] = Formula(values[d]) /\ dfacts[d] \in {0, dvalues[d]}

Clean(d) ==
    /\ facts[d] = <<values[d], budgets[d]>>
    /\ d \in derived => dvalues[d] = Formula(values[d]) /\ dfacts[d] = dvalues[d]

\* What t, alone on d, may count on before its next step.
Ready(t, d) ==
    /\ Begins(t, "write values", 3) => d \notin derived
    /\ At(t, "write budgets") \/ Begins(t, "read values", 2) => DerivedFresh(d)
    /\ Begins(t, "write facts", 1) =>
          DerivedFresh(d) /\ read[t][d] = <<values[d], budgets[d], dvalues[d]>>
    /\ Begins(t, "write facts", 5) => read[t][d][1] = values[d] /\ read[t][d][2] = budgets[d]
    /\ At(t, "define") \/ At(t, "read facts") => FactsFresh(d)
    /\ At(t, "write derived") \/ At(t, "write all derived") =>
          FactsFresh(d) /\ read[t][d][1] = values[d]

LoneInv ==
    \A t \in Threads : alone[t] => todo[t] # <<>> /\ \A d \in on[t] \cap alive : Ready(t, d)

CleanInv == \A d \in alive \ unclean : Clean(d)

\* The step before.
LEMMA Before ==
    ASSUME FigureTypes, NEW t \in Threads, todo[t] # <<>>, todo'[t] = Tail(todo[t]),
           todo'[t] # <<>>
    PROVE  /\ Begins(t, "write values", 3)' => At(t, "create")
           /\ ~At(t, "write budgets")' /\ ~At(t, "define")'
           /\ Begins(t, "read values", 2)' =>
                 \/ Begins(t, "write values", 3) \/ At(t, "write budgets")
                 \/ At(t, "write derived") \/ At(t, "write all derived")
           /\ Begins(t, "write facts", 1)' => Begins(t, "read values", 2)
           /\ Begins(t, "write facts", 5)' => At(t, "read values")
           /\ At(t, "read facts")' => At(t, "define") \/ Begins(t, "write facts", 5)
           /\ At(t, "write derived")' \/ At(t, "write all derived")' => At(t, "read facts")
           /\ ~At(t, "set active")
<1> DEFINE h == Head(todo[t])
           n == Len(todo[t])
           k == Head(todo'[t])
           m == Len(todo'[t])
<1>1. Follows(h, n, k) /\ m = n - 1 /\ n \in Nat
  BY GoesOn
<1>2. /\ \A x, y : Begins(t, x, y) <=> h = x /\ n = y
      /\ \A x, y : Begins(t, x, y)' <=> k = x /\ m = y
      /\ \A x : At(t, x) <=> h = x
      /\ \A x : At(t, x)' <=> k = x
  BY DEF Begins, At
<1> HIDE DEF h, n, k, m
<1>3. (m = 2 <=> n = 3) /\ (m = 1 <=> n = 2) /\ (m = 5 <=> n = 6) /\ (m = 3 <=> n = 4)
  BY <1>1
<1>4. Begins(t, "write values", 3)' => At(t, "create")
  <2>1. k = "write values" => h = "create" \/ n = 8
    BY <1>1 DEF Follows
  <2>2. m = 3 => n # 8
    BY <1>1
  <2>3. QED
    BY <1>2, <2>1, <2>2, Zenon
<1>5. ~At(t, "write budgets")' /\ ~At(t, "define")' /\ ~At(t, "set active")
  BY <1>1, <1>2 DEF Follows
<1>6. Begins(t, "read values", 2)' =>
         \/ Begins(t, "write values", 3) \/ At(t, "write budgets")
         \/ At(t, "write derived") \/ At(t, "write all derived")
  BY <1>1, <1>2, <1>3 DEF Follows
<1>7. /\ Begins(t, "write facts", 1)' => Begins(t, "read values", 2)
      /\ Begins(t, "write facts", 5)' => At(t, "read values")
  BY <1>1, <1>2, <1>3 DEF Follows
<1>8. At(t, "read facts")' => At(t, "define") \/ Begins(t, "write facts", 5)
  BY <1>1, <1>2, <1>3 DEF Follows
<1>9. At(t, "write derived")' \/ At(t, "write all derived")' => At(t, "read facts")
  BY <1>1, <1>2, <1>3 DEF Follows
<1>10. QED
  BY <1>4, <1>5, <1>6, <1>7, <1>8, <1>9

LEMMA InitLone == Init => LoneInv /\ CleanInv
<1> SUFFICES ASSUME Init PROVE LoneInv /\ CleanInv
  OBVIOUS
<1>1. LoneInv
  BY DEF Init, LoneInv
<1>2. alive \subseteq Ids
  BY InitTypes, DatasetIds DEF FigureTypes
<1>3. CleanInv
  BY <1>2 DEF Init, CleanInv, Clean
<1>4. QED
  BY <1>1, <1>3

LEMMA SameReady ==
    ASSUME NEW s, NEW d, Same(d), Ready(s, d), todo'[s] = todo[s], read'[s] = read[s]
    PROVE  Ready(s, d)'
BY DEF Same, Ready, FactsFresh, DerivedFresh, Begins, At, Formula

LEMMA OthersLone ==
    ASSUME FigureTypes, LoneInv, NEW t \in Threads, Acts(t), NEW s \in Threads \ {t}, alone'[s]
    PROVE  todo'[s] # <<>> /\ \A d \in on'[s] \cap alive' : Ready(s, d)'
<1>1. /\ todo'[s] = todo[s] /\ read'[s] = read[s] /\ on'[s] = on[s] /\ alone[s]
      /\ on[s] \subseteq DOMAIN universe
  BY OthersStay DEF FigureTypes, ThreadTypes
<1>2. ASSUME NEW d \in on'[s] \cap alive'
      PROVE  Ready(s, d)'
  <2>1. d \in alive /\ d \in Ids /\ Ready(s, d)
    BY <1>1, <1>2, AliveGrows, DatasetIds DEF LoneInv, FigureTypes
  <2>2. CASE Writes(t)
    <3>1. on[t] \cap on[s] = {}
      BY <2>2, WritesContinue DEF Continue
    <3>2. QED
      BY <1>1, <1>2, <2>1, <2>2, <3>1, WritesTouch, SameReady
  <2>3. CASE ~Writes(t)
    BY <1>1, <1>2, <2>1, <2>3, OnlyWritesTouch, SameReady
  <2>4. QED
    BY <2>2, <2>3
<1>3. QED
  BY <1>1, <1>2 DEF LoneInv

LEMMA StartLone ==
    ASSUME FigureTypes, CleanInv, NEW t \in Threads, NEW u \in Universes, Request(t, u), alone'[t],
           NEW d \in on'[t], d \in alive'
    PROVE  Ready(t, d)'
<1>1. alive' = alive /\ Same(d)
  BY RequestStarts DEF Starts, datasetVars, contentVars, Same
<1>2. /\ ~At(t, "write derived")' /\ ~At(t, "write all derived")' /\ ~At(t, "read facts")'
      /\ ~At(t, "write facts")' /\ ~At(t, "write values")'
  BY StartHeads DEF Request, Begins, At
<1>3. ASSUME Clean(d)
      PROVE  Ready(t, d)'
  BY <1>1, <1>2, <1>3 DEF Ready, Begins, At, Clean, Same, DerivedFresh, FactsFresh, Formula
<1>4. ASSUME NEW S, NEW steps, Starts(t, u, S, steps, FALSE)
      PROVE  Clean(d)
  BY <1>1, <1>4 DEF Starts, FigureTypes, ThreadTypes, CleanInv
<1>5. CASE Ingest(t, u) \/ Sync(t, u)
  BY <1>5 DEF Ingest, Sync, Starts, FigureTypes, ThreadTypes
<1>6. CASE Compute(t, u) /\ InScope(u) # {}
  <2>1. Begins(t, "read values", 6)'
    BY <1>6, StartHeads
  <2>2. ~Begins(t, "read values", 2)'
    <3>1. Len(todo'[t]) = 6
      BY <2>1, Zenon DEF Begins
    <3>2. Len(todo'[t]) # 2
      BY <3>1
    <3>3. QED
      BY <3>2, Zenon DEF Begins
  <2>3. ~At(t, "write budgets")' /\ ~At(t, "define")'
    BY <2>1 DEF Begins, At
  <2>4. QED
    BY <1>2, <2>2, <2>3 DEF Ready, Begins, At
<1>7. CASE Compute(t, u) /\ InScope(u) = {}
  BY <1>3, <1>4, <1>7 DEF Compute
<1>8. CASE CreateDerived(t, u)
  BY <1>3, <1>4, <1>8 DEF CreateDerived
<1>9. CASE \E e \in InScope(u) : activate_dataset(t, u, e) \/ delete_dataset(t, u, e) \/ JoinBudget(t, u, e)
  BY <1>3, <1>4, <1>9 DEF activate_dataset, delete_dataset, JoinBudget
<1>10. QED
  BY <1>5, <1>6, <1>7, <1>8, <1>9 DEF Request

\* The last step of a list.
LEMMA LastStep ==
    ASSUME FigureTypes, NEW t \in Threads, todo[t] # <<>>, Tail(todo[t]) = <<>>
    PROVE  Head(todo[t]) \in Ends /\ (At(t, "write facts") => Begins(t, "write facts", 1))
BY PlanSteps DEF FigureTypes, ThreadTypes, At, Begins

\* A step that writes nothing leaves t ready for the next.
LEMMA ReadsReady ==
    ASSUME FigureTypes, BlankInv, LoneInv, NEW t \in Threads, alone[t],
           ReadValues(t) \/ ReadFacts(t) \/ ReadRows(t) \/ CreateDataset(t) \/ FindDataset(t),
           NEW d \in on'[t], d \in alive', d \in Ids
    PROVE  todo'[t] # <<>> /\ Ready(t, d)'
<1>1. ThreadTypes /\ DatasetTypes /\ UNCHANGED contentVars
  BY DEF FigureTypes, ReadValues, ReadFacts, ReadsFrom, ReadRows, CreateDataset, FindDataset
<1>2. Same(d) /\ (\A x : Formula(x)' = Formula(x))
  BY <1>1 DEF Same, contentVars, Formula
<1>3. /\ todo[t] # <<>> /\ todo'[t] = Tail(todo[t])
      /\ Head(todo[t]) \in {"read values", "read facts", "read rows", "create", "find"}
  BY <1>1 DEF ThreadTypes, ReadValues, ReadFacts, ReadsFrom, ReadRows, CreateDataset, FindDataset, At
<1>4. todo'[t] # <<>>
  BY <1>3, LastStep DEF Ends
<1>5. /\ Begins(t, "write values", 3)' => At(t, "create")
      /\ ~At(t, "write budgets")' /\ ~At(t, "define")' /\ ~Begins(t, "read values", 2)'
      /\ Begins(t, "write facts", 1)' => Begins(t, "read values", 2)
      /\ Begins(t, "write facts", 5)' => At(t, "read values")
      /\ ~At(t, "read facts")'
      /\ At(t, "write derived")' \/ At(t, "write all derived")' => At(t, "read facts")
  BY <1>3, <1>4, Before DEF Begins, At
<1>6. CASE ReadValues(t)
  <2>1. d \in on[t] /\ d \in alive
    BY <1>1, <1>6 DEF ReadValues, ReadsFrom, ThreadTypes, datasetVars
  <2>2. Ready(t, d)
    BY <2>1 DEF LoneInv
  <2>3. read'[t][d] = <<values[d], budgets[d], dvalues[d]>>
    BY <1>1, <1>6, <2>1 DEF ReadValues, ReadsFrom, ThreadTypes
  <2>4. At(t, "read values") /\ ~At(t, "create") /\ ~At(t, "read facts")
    BY <1>6 DEF ReadValues, At
  <2>5. Begins(t, "read values", 2) => DerivedFresh(d)
    BY <2>2 DEF Ready
  <2>6. DerivedFresh(d) => DerivedFresh(d)'
    BY <1>2 DEF DerivedFresh, Same
  <2>7. read'[t][d] = <<values'[d], budgets'[d], dvalues'[d]>>
    BY <1>2, <2>3 DEF Same
  <2>8. read'[t][d][1] = values'[d] /\ read'[t][d][2] = budgets'[d]
    BY <2>7
  <2>9. Ready(t, d)'
    BY <1>5, <2>4, <2>5, <2>6, <2>7, <2>8 DEF Ready
  <2>10. QED
    BY <1>4, <2>9
<1>7. CASE ReadFacts(t)
  <2>1. d \in on[t] /\ d \in alive
    BY <1>1, <1>7 DEF ReadFacts, ReadsFrom, ThreadTypes, datasetVars
  <2>2. At(t, "read facts") /\ ~At(t, "create") /\ ~At(t, "read values") /\ ~Begins(t, "read values", 2)
    BY <1>7 DEF ReadFacts, At, Begins
  <2>3. FactsFresh(d)
    BY <2>1, <2>2 DEF LoneInv, Ready
  <2>4. read'[t][d] = <<facts[d][1], 0, 0>>
    BY <1>1, <1>7, <2>1 DEF ReadFacts, ReadsFrom, ThreadTypes
  <2>5. read'[t][d][1] = values[d]
    BY <2>3, <2>4 DEF FactsFresh
  <2>6. FactsFresh(d)' /\ read'[t][d][1] = values'[d]
    BY <1>2, <2>3, <2>5 DEF FactsFresh, Same
  <2>7. Ready(t, d)'
    BY <1>5, <2>2, <2>6 DEF Ready
  <2>8. QED
    BY <1>4, <2>7
<1>8. CASE ReadRows(t) \/ FindDataset(t)
  <2>1. ~At(t, "create") /\ ~At(t, "read values") /\ ~Begins(t, "read values", 2) /\ ~At(t, "read facts")
    BY <1>8 DEF ReadRows, FindDataset, At, Begins
  <2>2. QED
    BY <1>4, <1>5, <2>1 DEF Ready
<1>9. CASE CreateDataset(t)
  <2>1. ~At(t, "read values") /\ ~Begins(t, "read values", 2) /\ ~At(t, "read facts")
    BY <1>9 DEF CreateDataset, At, Begins
  <2>2. d = NewDataset(t) /\ home[t] \in Universes
    BY <1>1, <1>3, <1>9, AtStep DEF CreateDataset, ThreadTypes
  <2>3. d \notin DOMAIN universe
    BY <1>1, <1>9, <2>2, AppendedRow DEF CreateDataset
  <2>4. d \notin derived
    BY <2>3 DEF BlankInv, BlankDataset
  <2>5. d \notin derived'
    BY <1>2, <2>4 DEF Same
  <2>6. QED
    BY <1>4, <1>5, <2>1, <2>5 DEF Ready
<1>10. QED
  BY <1>6, <1>7, <1>8, <1>9

\* A write that is not the last leaves t ready for the next.
LEMMA WritesReady ==
    ASSUME FigureTypes, BlankInv, LoneInv, NEW t \in Threads, alone[t], Writes(t), todo'[t] # <<>>,
           NEW d \in on[t], d \in Ids
    PROVE  Ready(t, d)'
<1>1. ThreadTypes /\ todo[t] # <<>> /\ d \in alive
  BY WritesContinue DEF FigureTypes
<1>2. todo'[t] = Tail(todo[t])
  BY <1>1, WritesContinue DEF Continue, ThreadTypes
<1>3. Ready(t, d)
  BY <1>1 DEF LoneInv
<1>4. /\ ~Begins(t, "write values", 3)' /\ ~At(t, "write budgets")' /\ ~At(t, "define")'
      /\ Begins(t, "read values", 2)' =>
                 \/ Begins(t, "write values", 3) \/ At(t, "write budgets")
                 \/ At(t, "write derived") \/ At(t, "write all derived")
      /\ ~Begins(t, "write facts", 1)' /\ ~Begins(t, "write facts", 5)'
      /\ At(t, "read facts")' => At(t, "define") \/ Begins(t, "write facts", 5)
      /\ ~At(t, "write derived")' /\ ~At(t, "write all derived")'
  <2>1. ~At(t, "create") /\ ~At(t, "read values") /\ ~At(t, "read facts") /\ ~Begins(t, "read values", 2)
    BY DEF Writes, WriteValues, WriteBudgets, WriteFacts, Define, WriteDerived, At, Begins
  <2>2. QED
    BY <1>1, <1>2, <2>1, Before
<1>5. \A x : Formula(x)' = Formula(x)
  BY DEF Formula
<1>6. CASE WriteValues(t)
  <2>1. /\ ~At(t, "write budgets") /\ ~At(t, "write derived") /\ ~At(t, "write all derived")
        /\ ~At(t, "define") /\ ~Begins(t, "write facts", 5)
    BY <1>6 DEF WriteValues, At, Begins
  <2>2. Begins(t, "write values", 3) => d \notin derived'
    BY <1>3, <1>6 DEF Ready, WriteValues
  <2>3. QED
    BY <1>4, <2>1, <2>2 DEF Ready, DerivedFresh
<1>7. CASE WriteBudgets(t)
  <2>1. At(t, "write budgets") /\ ~At(t, "define") /\ ~Begins(t, "write facts", 5)
    BY <1>7 DEF WriteBudgets, At, Begins
  <2>2. DerivedFresh(d)
    BY <1>3, <2>1 DEF Ready
  <2>3. DerivedFresh(d)'
    BY <1>5, <1>7, <2>2 DEF WriteBudgets, DerivedFresh
  <2>4. QED
    BY <1>4, <2>1, <2>3 DEF Ready
<1>8. CASE WriteFacts(t)
  <2>1. /\ ~At(t, "write budgets") /\ ~At(t, "write derived") /\ ~At(t, "write all derived")
        /\ ~At(t, "define") /\ ~Begins(t, "write values", 3)
    BY <1>8 DEF WriteFacts, At, Begins
  <2>2. ASSUME Begins(t, "write facts", 5)
        PROVE  FactsFresh(d)'
    <3>1. read[t][d][1] = values[d] /\ read[t][d][2] = budgets[d]
      BY <1>3, <2>2 DEF Ready
    <3>2. facts'[d] = IF read[t][d][1] # 0 THEN <<read[t][d][1], read[t][d][2]>> ELSE facts[d]
      BY <1>8 DEF WriteFacts
    <3>3. values[d] = 0 => facts[d] = <<values[d], budgets[d]>>
      BY DEF BlankInv, BlankDataset
    <3>4. values' = values /\ budgets' = budgets
      BY <1>8 DEF WriteFacts
    <3>5. QED
      BY <3>1, <3>2, <3>3, <3>4 DEF FactsFresh
  <2>3. QED
    BY <1>4, <2>1, <2>2 DEF Ready
<1>9. CASE Define(t)
  <2>1. /\ ~At(t, "write budgets") /\ ~At(t, "write derived") /\ ~At(t, "write all derived")
        /\ At(t, "define") /\ ~Begins(t, "write values", 3)
    BY <1>9 DEF Define, At, Begins
  <2>2. FactsFresh(d)
    BY <1>3, <2>1 DEF Ready
  <2>3. FactsFresh(d)'
    BY <1>9, <2>2 DEF Define, FactsFresh
  <2>4. QED
    BY <1>4, <2>1, <2>3 DEF Ready
<1>10. CASE WriteDerived(t)
  <2>1. /\ ~At(t, "define") /\ ~Begins(t, "write facts", 5)
        /\ At(t, "write derived") \/ At(t, "write all derived")
    BY <1>10 DEF WriteDerived, At, Begins
  <2>2. read[t][d][1] = values[d]
    BY <1>3, <2>1 DEF Ready
  <2>3. /\ dvalues' = [e \in Ids |-> IF e \in on[t] \cap derived THEN Formula(read[t][e][1]) ELSE dvalues[e]]
        /\ dfacts' = [e \in Ids |-> IF e \in on[t] \cap derived THEN 0 ELSE dfacts[e]]
        /\ UNCHANGED <<values, derived>>
    BY <1>10, Zenon DEF WriteDerived
  <2>4. DerivedFresh(d)'
    BY <1>5, <2>2, <2>3 DEF DerivedFresh
  <2>5. QED
    BY <1>4, <2>1, <2>4 DEF Ready
<1>11. QED
  BY <1>6, <1>7, <1>8, <1>9, <1>10 DEF Writes

LEMMA StepLone ==
    ASSUME FigureTypes, BlankInv, LoneInv, NEW t \in Threads, Step(t) \/ Fails(t), alone'[t]
    PROVE  todo'[t] # <<>> /\ \A d \in on'[t] \cap alive' : Ready(t, d)'
<1>1. ThreadTypes
  BY DEF FigureTypes
<1>2. on'[t] \cap alive' \subseteq Ids
  BY AliveGrows, DatasetIds DEF Acts, FigureTypes
<1>3. ~Delete(t)
  BY <1>1 DEF Delete, ThreadTypes
<1>4. \A S, steps : Continue(t, S, steps) => steps # <<>> /\ alone[t] /\ todo'[t] = steps /\ on'[t] = on[t]
  BY <1>1 DEF Continue, ThreadTypes
<1>5. ~Fails(t)
  BY <1>4, Zenon DEF Fails
<1>6. CASE SetsActive(t)
  <2>1. Continue(t, {}, Tail(todo[t])) /\ At(t, "set active") /\ todo[t] # <<>>
    BY <1>6 DEF SetsActive, Done, At
  <2>2. QED
    BY <1>4, <2>1, Before
<1>7. CASE Writes(t)
  <2>1. todo'[t] # <<>> /\ alone[t] /\ on'[t] = on[t]
    BY <1>4, <1>7, WritesContinue
  <2>2. QED
    BY <1>2, <1>7, <2>1, WritesReady
<1>8. CASE ReadValues(t) \/ ReadFacts(t) \/ ReadRows(t) \/ CreateDataset(t) \/ FindDataset(t)
  <2>1. alone[t]
    BY <1>8 DEF ReadValues, ReadFacts, ReadsFrom, ReadRows, CreateDataset, FindDataset, historyVars
  <2>2. \A d \in on'[t] \cap alive' : Ready(t, d)'
    BY <1>2, <1>8, <2>1, ReadsReady
  <2>3. todo'[t] # <<>>
    <3>1. /\ todo[t] # <<>> /\ todo'[t] = Tail(todo[t])
          /\ Head(todo[t]) \in {"read values", "read facts", "read rows", "create", "find"}
      BY <1>1, <1>8 DEF ThreadTypes, ReadValues, ReadFacts, ReadsFrom, ReadRows, CreateDataset,
                        FindDataset, At
    <3>2. QED
      BY <3>1, LastStep DEF Ends
  <2>4. QED
    BY <2>2, <2>3
<1>9. QED
  BY <1>3, <1>5, <1>6, <1>7, <1>8 DEF Step, Writes

LEMMA NextLone ==
    ASSUME FigureTypes, BlankInv, LoneInv, CleanInv, NEW t \in Threads, Acts(t)
    PROVE  LoneInv'
<1>1. ASSUME NEW s \in Threads \ {t}, alone'[s]
      PROVE  todo'[s] # <<>> /\ \A d \in on'[s] \cap alive' : Ready(s, d)'
  BY <1>1, OthersLone
<1>2. ASSUME NEW u \in Universes, Request(t, u), alone'[t]
      PROVE  todo'[t] # <<>> /\ \A d \in on'[t] \cap alive' : Ready(t, d)'
  <2>1. todo'[t] # <<>>
    BY <1>2, StartHeads DEF Request, Begins
  <2>2. \A d \in on'[t] \cap alive' : Ready(t, d)'
    BY <1>2, StartLone
  <2>3. QED
    BY <2>1, <2>2
<1>3. (Step(t) \/ Fails(t)) /\ alone'[t] =>
         todo'[t] # <<>> /\ \A d \in on'[t] \cap alive' : Ready(t, d)'
  BY StepLone
<1>4. alone'[t] => todo'[t] # <<>> /\ \A d \in on'[t] \cap alive' : Ready(t, d)'
  BY <1>2, <1>3 DEF Acts
<1>5. QED
  BY <1>1, <1>4 DEF LoneInv

\* The last write of a request that was alone.
LEMMA LastWrite ==
    ASSUME FigureTypes, BlankInv, LoneInv, NEW t \in Threads, alone[t], Writes(t),
           Continue(t, on[t], <<>>), NEW d \in on[t], d \in Ids
    PROVE  Clean(d)'
<1>1. ThreadTypes /\ todo[t] # <<>> /\ d \in alive
  BY WritesContinue DEF FigureTypes
<1>2. todo'[t] = <<>> /\ Ready(t, d)
  BY <1>1 DEF Continue, ThreadTypes, LoneInv
<1>3. \A x : Formula(x)' = Formula(x)
  BY DEF Formula
<1>4. CASE WriteDerived(t)
  <2> DEFINE none == \A e \in on[t] \cap derived : Formula(read[t][e][1]) = 0
  <2>1. /\ At(t, "write derived") \/ At(t, "write all derived")
        /\ Continue(t, on[t], IF none /\ At(t, "write derived") THEN <<>> ELSE Tail(todo[t]))
        /\ dvalues' = [e \in Ids |-> IF e \in on[t] \cap derived THEN Formula(read[t][e][1]) ELSE dvalues[e]]
        /\ dfacts' = [e \in Ids |-> IF e \in on[t] \cap derived THEN 0 ELSE dfacts[e]]
        /\ UNCHANGED <<values, budgets, facts, derived>>
    BY <1>4, Zenon DEF WriteDerived
  <2>2. none
    <3>1. ASSUME ~none
          PROVE  FALSE
      <4>1. todo'[t] = Tail(todo[t])
        BY <1>1, <2>1, <3>1 DEF Continue, ThreadTypes
      <4>2. Head(todo[t]) \in Ends
        BY <1>1, <1>2, <4>1, LastStep
      <4>3. QED
        BY <2>1, <4>2 DEF At, Ends
    <3>2. QED
      BY <3>1
  <2>3. FactsFresh(d) /\ read[t][d][1] = values[d]
    BY <1>2, <2>1 DEF Ready
  <2>4. d \in derived => Formula(values[d]) = 0 /\ dvalues'[d] = 0 /\ dfacts'[d] = 0
    BY <2>1, <2>2, <2>3
  <2> HIDE DEF none
  <2>5. QED
    BY <1>3, <2>1, <2>3, <2>4 DEF Clean, FactsFresh
<1>5. CASE ~WriteDerived(t)
  <2>1. todo'[t] = Tail(todo[t])
    <3>1. Continue(t, on[t], Tail(todo[t]))
      BY <1>5, Zenon DEF Writes, WriteValues, WriteBudgets, WriteFacts, Define, Done
    <3>2. QED
      BY <1>1, <3>1 DEF Continue, ThreadTypes
  <2>2. Head(todo[t]) \in Ends
    BY <1>1, <1>2, <2>1, LastStep
  <2>3. WriteFacts(t)
    BY <1>5, <2>2 DEF Writes, WriteValues, WriteBudgets, Define, At, Ends
  <2>4. Begins(t, "write facts", 1)
    BY <1>1, <1>2, <2>1, <2>3, LastStep DEF WriteFacts
  <2>5. DerivedFresh(d) /\ read[t][d] = <<values[d], budgets[d], dvalues[d]>>
    BY <1>2, <2>4 DEF Ready
  <2>6. read[t][d][1] = values[d] /\ read[t][d][2] = budgets[d] /\ read[t][d][3] = dvalues[d]
    BY <2>5
  <2>7. /\ facts'[d] = IF read[t][d][1] # 0 THEN <<read[t][d][1], read[t][d][2]>> ELSE facts[d]
        /\ dfacts'[d] = IF read[t][d][3] # 0 THEN read[t][d][3] ELSE dfacts[d]
        /\ UNCHANGED <<values, budgets, derived, dvalues>>
    BY <2>3 DEF WriteFacts
  <2>8. values[d] = 0 => facts[d] = <<values[d], budgets[d]>>
    BY DEF BlankInv, BlankDataset
  <2>9. facts'[d] = <<values[d], budgets[d]>>
    BY <2>6, <2>7, <2>8
  <2>10. d \in derived => dvalues[d] = Formula(values[d]) /\ dfacts'[d] = dvalues[d]
    BY <2>5, <2>6, <2>7 DEF DerivedFresh
  <2>11. QED
    BY <1>3, <2>7, <2>9, <2>10 DEF Clean
<1>6. QED
  BY <1>4, <1>5

LEMMA NextClean ==
    ASSUME FigureTypes, BlankInv, LoneInv, CleanInv, NEW t \in Threads, Acts(t)
    PROVE  CleanInv'
<1> SUFFICES ASSUME NEW d \in alive', d \notin unclean'
             PROVE  Clean(d)'
  BY DEF CleanInv
<1>1. d \in Ids /\ ThreadTypes
  BY AliveGrows, DatasetIds DEF FigureTypes
<1>2. ASSUME Clean(d), Same(d)
      PROVE  Clean(d)'
  BY <1>2 DEF Clean, Same, Formula
<1>3. CASE Writes(t)
  <2>1. d \in alive
    BY <1>3, WritesContinue DEF datasetVars
  <2>2. CASE d \in on[t]
    <3>1. alone[t] /\ Continue(t, on[t], <<>>)
      BY <1>3, <2>2, WritesContinue DEF Continue
    <3>2. QED
      BY <1>1, <1>3, <2>2, <3>1, LastWrite
  <2>3. CASE d \notin on[t]
    <3>1. d \notin unclean
      BY <1>3, <2>3, WritesContinue DEF Continue
    <3>2. QED
      BY <1>1, <1>2, <1>3, <2>1, <2>3, <3>1, WritesTouch DEF CleanInv
  <2>4. QED
    BY <2>2, <2>3
<1>4. CASE ~Writes(t)
  <2>1. Same(d)
    BY <1>1, <1>4, OnlyWritesTouch
  <2>2. CASE d \in alive
    <3>1. d \notin unclean
      <4>1. CASE Delete(t)
        <5> DEFINE x == CHOOSE x \in on[t] : TRUE
        <5>1. alive' = alive \ {x} /\ unclean' = unclean \ {x}
          BY <4>1, Zenon DEF Delete
        <5> HIDE DEF x
        <5>2. QED
          BY <5>1
      <4>2. CASE SetsActive(t) \/ Fails(t)
        <5>1. \E steps : Continue(t, {}, steps)
          BY <4>2, Zenon DEF SetsActive, Fails, Done
        <5>2. QED
          BY <5>1 DEF Continue
      <4>3. ASSUME ReadRows(t) \/ CreateDataset(t) \/ FindDataset(t) \/ ReadValues(t) \/ ReadFacts(t)
            PROVE  unclean' = unclean
        BY <4>3 DEF ReadRows, CreateDataset, FindDataset, ReadValues, ReadFacts, ReadsFrom, historyVars
      <4>4. ASSUME NEW u \in Universes, Request(t, u)
            PROVE  unclean' = unclean
        BY <4>4, RequestStarts DEF Starts
      <4>5. QED
        BY <1>4, <4>1, <4>2, <4>3, <4>4 DEF Acts, Step, Writes
    <3>2. QED
      BY <1>2, <2>1, <2>2, <3>1 DEF CleanInv
  <2>3. CASE d \notin alive
    <3>1. d \notin DOMAIN universe
      BY <2>3, AliveGrows
    <3>2. values[d] = 0 /\ BlankDataset(d)
      BY <1>1, <3>1 DEF BlankInv
    <3>3. Clean(d)
      BY <3>2 DEF Clean, BlankDataset
    <3>4. QED
      BY <1>2, <2>1, <3>3
  <2>4. QED
    BY <2>2, <2>3
<1>5. QED
  BY <1>3, <1>4

LEMMA NextFacts ==
    ASSUME FigureTypes, BlankInv, LoneInv, CleanInv, Next
    PROVE  LoneInv' /\ CleanInv'
BY NextActs, NextLone, NextClean

LEMMA StutterFacts == LoneInv /\ CleanInv /\ UNCHANGED vars => LoneInv' /\ CleanInv'
<1> SUFFICES ASSUME LoneInv, CleanInv, UNCHANGED vars PROVE LoneInv' /\ CleanInv'
  OBVIOUS
<1>1. /\ todo' = todo /\ read' = read /\ on' = on /\ alive' = alive /\ alone' = alone
      /\ unclean' = unclean /\ \A d : Same(d)
  BY DEF vars, datasetVars, contentVars, threadVars, historyVars, Same
<1>2. LoneInv'
  BY <1>1, SameReady DEF LoneInv
<1>3. CleanInv'
  BY <1>1 DEF CleanInv, Clean, Same, Formula
<1>4. QED
  BY <1>2, <1>3

\* A dataset whose last writer ran alone and to its end has facts made of its
\* current values and budgets, and a derived metric made of its current facts,
\* whatever was interrupted or overlapped before.
THEOREM FactsAreFresh == Spec => []FactsFollowValues
<1>1. /\ FigureTypes /\ [Next]_vars => FigureTypes'
      /\ FigureTypes /\ ReadInv /\ BlankInv /\ [Next]_vars => ReadInv' /\ BlankInv'
      /\ FigureTypes /\ BlankInv /\ LoneInv /\ CleanInv /\ [Next]_vars => LoneInv' /\ CleanInv'
  BY NextTypes, StutterTypes, NextBlanks, StutterBlanks, NextFacts, StutterFacts
<1>2. CleanInv => FactsFollowValues
  BY DEF CleanInv, Clean, FactsFollowValues
<1>3. QED
  BY InitTypes, InitRead, InitLone, <1>1, <1>2, PTL DEF Spec

-----------------------------------------------------------------------------
(* Sums over finite sets.                                                  *)

\* Induction over the naturals, stated with a set.
LEMMA NatsFill ==
    ASSUME NEW C, 0 \in C, \A n \in Nat : n \in C => n + 1 \in C
    PROVE  Nat \subseteq C
<1> SUFFICES ASSUME Nat \ C # {}  PROVE FALSE
    OBVIOUS
<1>1. PICK n \in Nat \ C : \A m \in Nat \ C : n <= m
    BY LeastIsIn
<1>2. n # 0 /\ n - 1 \in Nat /\ ~(n <= n - 1)
    BY <1>1
<1>3. n - 1 \in C
    BY <1>1, <1>2
<1>4. (n - 1) + 1 \in C
    BY <1>2, <1>3
<1>5. (n - 1) + 1 = n
    OBVIOUS
<1> QED
    BY <1>1, <1>4, <1>5

\* Induction over the subsets of a finite set, stated with a set of them.
LEMMA SubsetsFill ==
    ASSUME NEW S, IsFiniteSet(S), NEW C,
           {} \in C,
           \A T \in SUBSET S : T # {} /\ (\A x \in T : T \ {x} \in C) => T \in C
    PROVE  SUBSET S \subseteq C
<1> DEFINE D == {n \in Nat : \A T \in SUBSET S : Cardinality(T) = n => T \in C}
<1>0. \A T \in SUBSET S : IsFiniteSet(T) /\ Cardinality(T) \in Nat
    BY FS_Subset, FS_CardinalityType
<1>1. 0 \in D
    BY <1>0, FS_EmptySet
<1>2. ASSUME NEW n \in Nat, n \in D  PROVE n + 1 \in D
    <2> SUFFICES ASSUME NEW T \in SUBSET S, Cardinality(T) = n + 1  PROVE T \in C
        BY <1>2
    <2>1. T # {}
        BY FS_EmptySet, n + 1 # 0
    <2>2. ASSUME NEW x \in T
          PROVE  T \ {x} \in SUBSET S /\ Cardinality(T \ {x}) = n
        <3>1. Cardinality(T \ {x}) = Cardinality(T) - 1
            BY <1>0, FS_RemoveElement
        <3> QED
            BY <3>1
    <2>3. \A x \in T : T \ {x} \in C
        BY <2>2, <1>2
    <2> QED
        BY <2>1, <2>3
<1>3. Nat \subseteq D
    <2> HIDE DEF D
    <2> QED
        BY <1>1, <1>2, NatsFill
<1> QED
    BY <1>0, <1>3

\* g adds up F over the sets of P.
LOCAL Adds(g, F, P) ==
    g = [s \in P |-> IF s = {} THEN 0
                     ELSE LET x == CHOOSE x \in s : TRUE IN F[x] + g[s \ {x}]]

LEMMA AddsExists ==
    ASSUME NEW S, IsFiniteSet(S), NEW F
    PROVE  \E g : Adds(g, F, SUBSET S)
<1> DEFINE L(n) == {s \in SUBSET S : Cardinality(s) <= n}
           C == {n \in Nat : \E g : Adds(g, F, L(n))}
<1>0. \A T \in SUBSET S : IsFiniteSet(T) /\ Cardinality(T) \in Nat
    BY FS_Subset, FS_CardinalityType
<1>1. 0 \in C
    <2>1. L(0) = {{}}
        BY <1>0, FS_EmptySet
    <2>2. Adds([s \in {{}} |-> 0], F, {{}})
        BY DEF Adds
    <2> QED
        BY <2>1, <2>2
<1>2. ASSUME NEW n \in Nat, n \in C  PROVE n + 1 \in C
    <2>1. PICK g : Adds(g, F, L(n))
        BY <1>2
    <2> DEFINE h == [s \in L(n + 1) |-> IF s = {} THEN 0
                     ELSE LET x == CHOOSE x \in s : TRUE IN F[x] + g[s \ {x}]]
    <2>2. \A s \in L(n + 1) : s # {} => s \ {CHOOSE x \in s : TRUE} \in L(n)
        <3> SUFFICES ASSUME NEW s \in L(n + 1), s # {}
                     PROVE  s \ {CHOOSE x \in s : TRUE} \in L(n)
            OBVIOUS
        <3>1. (CHOOSE x \in s : TRUE) \in s
            OBVIOUS
        <3> QED
            <4> DEFINE x == CHOOSE x \in s : TRUE
            <4>1. Cardinality(s \ {x}) = Cardinality(s) - 1
                BY <1>0, <3>1, FS_RemoveElement
            <4> HIDE DEF x
            <4>2. s \ {x} \in SUBSET S /\ Cardinality(s \ {x}) \in Nat
                BY <1>0
            <4>3. Cardinality(s) <= n + 1 /\ Cardinality(s) \in Nat
                BY <1>0
            <4>4. Cardinality(s \ {x}) <= n
                BY <4>1, <4>3
            <4>5. s \ {x} \in L(n)
                BY <4>2, <4>4
            <4> QED
                BY <4>5 DEF x
    <2>3. L(n) \subseteq L(n + 1)
        BY <1>0
    <2>4. \A s \in L(n) : h[s] = g[s]
        BY <2>1, <2>3 DEF Adds
    <2>5. Adds(h, F, L(n + 1))
        <3>1. \A s \in L(n + 1) :
                h[s] = IF s = {} THEN 0
                       ELSE LET x == CHOOSE x \in s : TRUE IN F[x] + g[s \ {x}]
            OBVIOUS
        <3>2. DOMAIN h = L(n + 1)
            OBVIOUS
        <3> HIDE DEF L, h
        <3>3. \A s \in L(n + 1) :
                h[s] = IF s = {} THEN 0
                       ELSE LET x == CHOOSE x \in s : TRUE IN F[x] + h[s \ {x}]
            BY <2>2, <2>4, <3>1
        <3>4. h = [s \in L(n + 1) |-> h[s]]
            BY <3>2 DEF h
        <3> QED
            BY <3>3, <3>4 DEF Adds
    <2> QED
        BY <2>5
<1>3. Nat \subseteq C
    <2> HIDE DEF C
    <2> QED
        BY <1>1, <1>2, NatsFill
<1>4. L(Cardinality(S)) = SUBSET S
    BY <1>0, FS_Subset
<1> QED
    BY <1>0, <1>3, <1>4

LEMMA AddsUnique ==
    ASSUME NEW S, IsFiniteSet(S), NEW F, NEW A \in SUBSET S, NEW g, NEW h,
           Adds(g, F, SUBSET S), Adds(h, F, SUBSET A)
    PROVE  h[A] = g[A]
<1> DEFINE C == {T \in SUBSET A : h[T] = g[T]}
<1>1. IsFiniteSet(A)
    BY FS_Subset
<1>2. {} \in C
    BY DEF Adds
<1>3. ASSUME NEW T \in SUBSET A, T # {}, \A x \in T : T \ {x} \in C  PROVE T \in C
    <2>1. (CHOOSE x \in T : TRUE) \in T
        BY <1>3
    <2>2. h[T \ {CHOOSE x \in T : TRUE}] = g[T \ {CHOOSE x \in T : TRUE}]
        BY <1>3, <2>1
    <2> DEFINE x == CHOOSE x \in T : TRUE
    <2>3. h[T] = F[x] + h[T \ {x}]
        BY <1>3 DEF Adds
    <2>4. g[T] = F[x] + g[T \ {x}]
        BY <1>3 DEF Adds
    <2> QED
        BY <2>2, <2>3, <2>4
<1>4. SUBSET A \subseteq C
    <2> HIDE DEF C
    <2> QED
        BY <1>1, <1>2, <1>3, SubsetsFill
<1> QED
    BY <1>4

LEMMA SumAdds ==
    ASSUME NEW S, IsFiniteSet(S), NEW F
    PROVE  \E g : Adds(g, F, SUBSET S) /\ SumFunctionOnSet(F, S) = g[S]
<1> DEFINE it == CHOOSE g : Adds(g, F, SUBSET S)
<1>1. Adds(it, F, SUBSET S)
    BY AddsExists
<1>2. SumFunctionOnSet(F, S) = it[S]
    BY DEF Adds, SumFunctionOnSet, FoldFunctionOnSet, MapThenFoldSet
<1> QED
    BY <1>1, <1>2

LEMMA SumEmpty ==
    ASSUME NEW F  PROVE SumFunctionOnSet(F, {}) = 0
<1>1. IsFiniteSet({})
    BY FS_EmptySet
<1>2. PICK g : Adds(g, F, SUBSET {}) /\ SumFunctionOnSet(F, {}) = g[{}]
    BY <1>1, SumAdds
<1> QED
    BY <1>2 DEF Adds

LEMMA SumChosen ==
    ASSUME NEW S, IsFiniteSet(S), S # {}, NEW F
    PROVE  LET x == CHOOSE x \in S : TRUE IN
           x \in S /\ SumFunctionOnSet(F, S) = F[x] + SumFunctionOnSet(F, S \ {x})
<1> DEFINE x == CHOOSE x \in S : TRUE
           A == S \ {x}
<1>1. x \in S
    OBVIOUS
<1>2. PICK g : Adds(g, F, SUBSET S) /\ SumFunctionOnSet(F, S) = g[S]
    BY SumAdds
<1>3. IsFiniteSet(A) /\ A \in SUBSET S
    BY FS_Subset
<1>4. PICK h : Adds(h, F, SUBSET A) /\ SumFunctionOnSet(F, A) = h[A]
    BY <1>3, SumAdds
<1>5. h[A] = g[A]
    <2> HIDE DEF A
    <2> QED
        BY <1>2, <1>3, <1>4, AddsUnique
<1>6. g[S] = F[x] + g[A]
    BY <1>2 DEF Adds
<1> QED
    BY <1>1, <1>2, <1>4, <1>5, <1>6

LEMMA SumOneChosen ==
    ASSUME NEW S, IsFiniteSet(S), S # {}, NEW F
    PROVE  \E x \in S : SumFunctionOnSet(F, S) = F[x] + SumFunctionOnSet(F, S \ {x})
BY SumChosen, Zenon

LEMMA SumInt ==
    ASSUME NEW S, IsFiniteSet(S), NEW F, \A x \in S : F[x] \in Int
    PROVE  SumFunctionOnSet(F, S) \in Int
<1> DEFINE C == {T \in SUBSET S : SumFunctionOnSet(F, T) \in Int}
<1>1. {} \in C
    BY SumEmpty
<1>2. ASSUME NEW T \in SUBSET S, T # {}, \A x \in T : T \ {x} \in C  PROVE T \in C
    <2>1. IsFiniteSet(T)
        BY FS_Subset
    <2>0. IsFiniteSet(T)
        BY FS_Subset
    <2>2. PICK x \in T : SumFunctionOnSet(F, T) = F[x] + SumFunctionOnSet(F, T \ {x})
        BY <1>2, <2>0, SumOneChosen
    <2>3. F[x] \in Int /\ SumFunctionOnSet(F, T \ {x}) \in Int
        BY <1>2
    <2> QED
        BY <2>2, <2>3
<1>3. SUBSET S \subseteq C
    <2> HIDE DEF C
    <2> QED
        BY <1>1, <1>2, SubsetsFill
<1> QED
    BY <1>3

LEMMA SumRemove ==
    ASSUME NEW S, IsFiniteSet(S), NEW F, \A x \in S : F[x] \in Int, NEW y \in S
    PROVE  SumFunctionOnSet(F, S) = F[y] + SumFunctionOnSet(F, S \ {y})
<1> DEFINE C == {T \in SUBSET S : \A z \in T :
                    SumFunctionOnSet(F, T) = F[z] + SumFunctionOnSet(F, T \ {z})}
<1>1. {} \in C
    OBVIOUS
<1>2. ASSUME NEW T \in SUBSET S, T # {}, \A x \in T : T \ {x} \in C  PROVE T \in C
    <2>1. \A A \in SUBSET S : IsFiniteSet(A) /\ SumFunctionOnSet(F, A) \in Int
        BY FS_Subset, SumInt
    <2>0. IsFiniteSet(T)
        BY FS_Subset
    <2>2. PICK x \in T : SumFunctionOnSet(F, T) = F[x] + SumFunctionOnSet(F, T \ {x})
        BY <1>2, <2>0, SumOneChosen
    <2>3. ASSUME NEW z \in T
          PROVE  SumFunctionOnSet(F, T) = F[z] + SumFunctionOnSet(F, T \ {z})
        <3>1. CASE z = x
            BY <2>2, <3>1
        <3>2. CASE z # x
            <4> DEFINE R == T \ {x, z}
            <4>1. (T \ {x}) \ {z} = R /\ (T \ {z}) \ {x} = R
                OBVIOUS
            <4>2. T \ {x} \in C /\ T \ {z} \in C /\ z \in T \ {x} /\ x \in T \ {z}
                BY <1>2, <3>2
            <4>3. SumFunctionOnSet(F, T \ {x}) = F[z] + SumFunctionOnSet(F, R)
                BY <4>1, <4>2
            <4>4. SumFunctionOnSet(F, T \ {z}) = F[x] + SumFunctionOnSet(F, R)
                BY <4>1, <4>2
            <4>5. SumFunctionOnSet(F, R) \in Int /\ F[x] \in Int /\ F[z] \in Int
                BY <2>1
            <4> QED
                BY <2>2, <4>3, <4>4, <4>5
        <3> QED
            BY <3>1, <3>2
    <2> QED
        BY <2>3
<1>3. SUBSET S \subseteq C
    <2> HIDE DEF C
    <2> QED
        BY <1>1, <1>2, SubsetsFill
<1> QED
    BY <1>3

LEMMA SumSingleton ==
    ASSUME NEW F, NEW x, F[x] \in Int  PROVE SumFunctionOnSet(F, {x}) = F[x]
<1>1. IsFiniteSet({x}) /\ {x} \ {x} = {}
    BY FS_Singleton
<1>2. SumFunctionOnSet(F, {x}) = F[x] + SumFunctionOnSet(F, {x} \ {x})
    BY <1>1, SumRemove
<1> QED
    BY <1>1, <1>2, SumEmpty

\* What is added up is what the function is on the set, each value by itself.
LEMMA SumSplits ==
    ASSUME NEW S, IsFiniteSet(S), NEW F, NEW G, NEW H,
           \A x \in S : F[x] \in Int /\ G[x] \in Int /\ H[x] = F[x] + G[x]
    PROVE  SumFunctionOnSet(H, S) = SumFunctionOnSet(F, S) + SumFunctionOnSet(G, S)
<1> DEFINE C == {T \in SUBSET S : SumFunctionOnSet(H, T)
                                  = SumFunctionOnSet(F, T) + SumFunctionOnSet(G, T)}
<1>1. {} \in C
    BY SumEmpty
<1>2. ASSUME NEW T \in SUBSET S, T # {}, \A x \in T : T \ {x} \in C  PROVE T \in C
    <2>1. \A A \in SUBSET S : /\ IsFiniteSet(A)
                              /\ SumFunctionOnSet(F, A) \in Int
                              /\ SumFunctionOnSet(G, A) \in Int
        BY FS_Subset, SumInt
    <2>2. PICK x \in T : TRUE
        BY <1>2
    <2>3. \A z \in T : H[z] \in Int
        OBVIOUS
    <2>4. SumFunctionOnSet(H, T) = H[x] + SumFunctionOnSet(H, T \ {x})
        BY <2>1, <2>3, SumRemove
    <2>5. SumFunctionOnSet(F, T) = F[x] + SumFunctionOnSet(F, T \ {x})
        BY <2>1, SumRemove
    <2>6. SumFunctionOnSet(G, T) = G[x] + SumFunctionOnSet(G, T \ {x})
        BY <2>1, SumRemove
    <2>7. SumFunctionOnSet(H, T \ {x})
            = SumFunctionOnSet(F, T \ {x}) + SumFunctionOnSet(G, T \ {x})
        BY <1>2
    <2>8. /\ H[x] = F[x] + G[x] /\ F[x] \in Int /\ G[x] \in Int
          /\ SumFunctionOnSet(F, T \ {x}) \in Int /\ SumFunctionOnSet(G, T \ {x}) \in Int
        BY <2>1
    <2> QED
        BY <2>4, <2>5, <2>6, <2>7, <2>8
<1>3. SUBSET S \subseteq C
    <2> HIDE DEF C
    <2> QED
        BY <1>1, <1>2, SubsetsFill
<1> QED
    BY <1>3

LEMMA SumSame ==
    ASSUME NEW S, IsFiniteSet(S), NEW F, NEW G, \A x \in S : F[x] = G[x]
    PROVE  SumFunctionOnSet(F, S) = SumFunctionOnSet(G, S)
<1> DEFINE C == {T \in SUBSET S : SumFunctionOnSet(F, T) = SumFunctionOnSet(G, T)}
<1>1. {} \in C
    BY SumEmpty
<1>2. ASSUME NEW T \in SUBSET S, T # {}, \A x \in T : T \ {x} \in C  PROVE T \in C
    <2> DEFINE x == CHOOSE x \in T : TRUE
    <2>1. IsFiniteSet(T) /\ x \in T
        BY <1>2, FS_Subset
    <2>2. SumFunctionOnSet(F, T) = F[x] + SumFunctionOnSet(F, T \ {x})
        BY <1>2, <2>1, SumChosen, Zenon
    <2>3. SumFunctionOnSet(G, T) = G[x] + SumFunctionOnSet(G, T \ {x})
        BY <1>2, <2>1, SumChosen, Zenon
    <2> HIDE DEF x
    <2>4. SumFunctionOnSet(F, T \ {x}) = SumFunctionOnSet(G, T \ {x}) /\ F[x] = G[x]
        BY <1>2, <2>1
    <2> QED
        BY <2>2, <2>3, <2>4
<1>3. SUBSET S \subseteq C
    <2> HIDE DEF C
    <2> QED
        BY <1>1, <1>2, SubsetsFill
<1> QED
    BY <1>3

\* h parts A by the elements of B, and G is what F adds up to over each part.
Parted(A, B, h, F, G) ==
    /\ IsFiniteSet(A) /\ IsFiniteSet(B)
    /\ \A a \in A : F[a] \in Int /\ h[a] \in B
    /\ \A b \in B : G[b] = SumFunctionOnSet(F, {a \in A : h[a] = b})

\* The sum over B of what F adds up to over the part of A that h takes to each
\* b is the sum of F over A.
LEMMA SumByParts ==
    ASSUME NEW A, NEW B, NEW h, NEW F, NEW G, Parted(A, B, h, F, G)
    PROVE  SumFunctionOnSet(G, B) = SumFunctionOnSet(F, A)
<1>0. /\ IsFiniteSet(A) /\ IsFiniteSet(B)
      /\ \A a \in A : F[a] \in Int /\ h[a] \in B
      /\ \A b \in B : G[b] = SumFunctionOnSet(F, {a \in A : h[a] = b})
    BY Zenon DEF Parted
<1> USE <1>0
<1> DEFINE Over(T) == {a \in A : h[a] \in T}
           C == {T \in SUBSET B : SumFunctionOnSet(G, T) = SumFunctionOnSet(F, Over(T))}
<1>1. {} \in C
    <2>1. Over({}) = {}
        OBVIOUS
    <2> QED
        BY <2>1, SumEmpty
<1>2. \A P \in SUBSET A : IsFiniteSet(P) /\ SumFunctionOnSet(F, P) \in Int
    BY FS_Subset, SumInt
<1>3. \A b \in B : G[b] \in Int
    BY <1>2
<1>4. ASSUME NEW T \in SUBSET B, NEW b \in T, T \ {b} \in C  PROVE T \in C
    <2> DEFINE Part == {a \in A : h[a] = b}
               D == {P \in SUBSET Part :
                        SumFunctionOnSet(F, P \cup Over(T \ {b}))
                        = SumFunctionOnSet(F, P) + SumFunctionOnSet(F, Over(T \ {b}))}
    <2>1. {} \in D
        <3>1. {} \cup Over(T \ {b}) = Over(T \ {b}) /\ Over(T \ {b}) \in SUBSET A
            OBVIOUS
        <3>2. SumFunctionOnSet(F, Over(T \ {b})) \in Int
            BY <1>2, <3>1
        <3> QED
            BY <3>1, <3>2, SumEmpty
    <2>2. ASSUME NEW P \in SUBSET Part, P # {}, \A x \in P : P \ {x} \in D  PROVE P \in D
        <3> DEFINE O == Over(T \ {b})
        <3>1. PICK x \in P : TRUE
            BY <2>2
        <3>2. /\ P \cup O \in SUBSET A /\ P \in SUBSET A /\ P \ {x} \in SUBSET A
              /\ O \in SUBSET A
              /\ x \in P \cup O /\ (P \cup O) \ {x} = (P \ {x}) \cup O
            OBVIOUS
        <3> HIDE DEF O
        <3>3. SumFunctionOnSet(F, P \cup O) = F[x] + SumFunctionOnSet(F, (P \cup O) \ {x})
            BY <1>2, <3>2, SumRemove
        <3>4. SumFunctionOnSet(F, P) = F[x] + SumFunctionOnSet(F, P \ {x})
            BY <1>2, <3>2, SumRemove
        <3>5. SumFunctionOnSet(F, (P \ {x}) \cup O)
                = SumFunctionOnSet(F, P \ {x}) + SumFunctionOnSet(F, O)
            BY <2>2 DEF O
        <3>6. /\ F[x] \in Int /\ SumFunctionOnSet(F, P \ {x}) \in Int
              /\ SumFunctionOnSet(F, O) \in Int
            BY <1>2, <3>2
        <3>7. SumFunctionOnSet(F, P \cup O)
                = SumFunctionOnSet(F, P) + SumFunctionOnSet(F, O)
            <4>1. SumFunctionOnSet(F, P \cup O)
                    = F[x] + SumFunctionOnSet(F, (P \ {x}) \cup O)
                BY <3>2, <3>3, Zenon
            <4> QED
                BY <3>4, <3>5, <3>6, <4>1
        <3> QED
            BY <3>7 DEF O
    <2>3. SUBSET Part \subseteq D
        <3>1. IsFiniteSet(Part)
            BY <1>2
        <3> HIDE DEF D, Part
        <3> QED
            BY <2>1, <2>2, <3>1, SubsetsFill
    <2>4. Part \cup Over(T \ {b}) = Over(T)
        OBVIOUS
    <2>5. SumFunctionOnSet(F, Over(T))
            = SumFunctionOnSet(F, Part) + SumFunctionOnSet(F, Over(T \ {b}))
        <3>1. Part \in D
            <4> HIDE DEF D, Part
            <4> QED
                BY <2>3
        <3> QED
            BY <2>4, <3>1
    <2>6. SumFunctionOnSet(G, T) = G[b] + SumFunctionOnSet(G, T \ {b})
        <3>1. IsFiniteSet(T) /\ \A x \in T : G[x] \in Int
            BY <1>3, FS_Subset
        <3> QED
            BY <3>1, SumRemove
    <2>7. /\ G[b] = SumFunctionOnSet(F, Part)
          /\ SumFunctionOnSet(G, T \ {b}) = SumFunctionOnSet(F, Over(T \ {b}))
        BY <1>4
    <2> HIDE DEF Over, Part
    <2>8. SumFunctionOnSet(G, T) = SumFunctionOnSet(F, Over(T))
        BY <2>5, <2>6, <2>7
    <2> QED
        BY <2>8
<1>5. ASSUME NEW T \in SUBSET B, T # {}, \A x \in T : T \ {x} \in C  PROVE T \in C
    <2> HIDE DEF C
    <2> QED
        BY <1>4, <1>5
<1>6. SUBSET B \subseteq C
    <2> HIDE DEF C
    <2> QED
        BY <1>1, <1>5, SubsetsFill
<1>7. Over(B) = A
    OBVIOUS
<1> QED
    BY <1>6, <1>7

-----------------------------------------------------------------------------
(* MonthEnd: what a sheet says of the books.                               *)

\* The line that shows an item, by layout, and the column it is in.
LineOf(layout, i) ==
    CASE layout = "wide" ->
            LET Of(m) == CHOOSE j \in Items :
                            j.account = i.account /\ j.product = i.product /\ j.month = m
                Has == {j.month : j \in {x \in Items : <<x.account, x.product>>
                                                         = <<i.account, i.product>>}} IN
            Line(i.account, i.product, None, [m \in Has |-> Amount(Of(m))],
                 [m \in Has |-> Planned(Of(m))], None)
      [] layout = "long" ->
            Line(i.account, i.product, i.month, [c \in {"value"} |-> Amount(i)],
                 [c \in {"value"} |-> Planned(i)], Detail(i))
      [] layout = "cross" ->
            LET Of(p) == CHOOSE j \in Items :
                            j.account = i.account /\ j.product = p /\ j.month = i.month
                Has == {j.product : j \in {x \in Items : <<x.account, x.month>>
                                                           = <<i.account, i.month>>}} IN
            Line(i.account, None, i.month, [p \in Has |-> Amount(Of(p))],
                 [p \in Has |-> None], None)

ColumnOf(layout, i) ==
    CASE layout = "wide" -> i.month [] layout = "long" -> "value" [] layout = "cross" -> i.product

RowOf(layout, i) == [line |-> LineOf(layout, i), column |-> ColumnOf(layout, i)]

LEMMA WrittenIs ==
    ASSUME NEW layout \in Layouts
    PROVE  Written(layout) = {LineOf(layout, i) : i \in Items}
<1>1. CASE layout = "long"
    BY <1>1 DEF Written, LineOf
<1>2. CASE layout = "wide"
    <2> DEFINE Of(s, m) == CHOOSE i \in Items :
                                i.account = s[1] /\ i.product = s[2] /\ i.month = m
               Has(s) == {i.month : i \in {j \in Items : <<j.account, j.product>> = s}}
               W(s) == Line(s[1], s[2], None, [m \in Has(s) |-> Amount(Of(s, m))],
                            [m \in Has(s) |-> Planned(Of(s, m))], None)
    <2>1. Written(layout) = {W(s) : s \in {<<i.account, i.product>> : i \in Items}}
        BY <1>2 DEF Written
    <2>2. \A i \in Items : W(<<i.account, i.product>>) = LineOf(layout, i)
        BY <1>2 DEF LineOf
    <2> HIDE DEF W
    <2> QED
        BY <2>1, <2>2
<1>3. CASE layout = "cross"
    <2> DEFINE Of(s, p) == CHOOSE i \in Items :
                                i.account = s[1] /\ i.product = p /\ i.month = s[2]
               Has(s) == {i.product : i \in {j \in Items : <<j.account, j.month>> = s}}
               W(s) == Line(s[1], None, s[2], [p \in Has(s) |-> Amount(Of(s, p))],
                            [p \in Has(s) |-> None], None)
    <2>1. Written(layout) = {W(s) : s \in {<<i.account, i.month>> : i \in Items}}
        BY <1>3 DEF Written
    <2>2. \A i \in Items : W(<<i.account, i.month>>) = LineOf(layout, i)
        BY <1>3 DEF LineOf
    <2> HIDE DEF W
    <2> QED
        BY <2>1, <2>2
<1> QED
    BY <1>1, <1>2, <1>3 DEF Layouts

\* Two items of the same account, product and month are one.
LEMMA ItemsDiffer ==
    ASSUME NEW i \in Items, NEW j \in Items,
           i.account = j.account, i.product = j.product, i.month = j.month
    PROVE  i = j
BY BooksAssumption

LEMMA WideLine ==
    ASSUME NEW i \in Items
    PROVE  LET l == LineOf("wide", i) IN
           /\ l.label = i.account /\ l.id = IdOf[i.account] /\ l.marked = FALSE
           /\ l.of = i.product /\ l.at = None /\ l.item = None
           /\ DOMAIN l.cells = {j.month : j \in {x \in Items :
                                 x.account = i.account /\ x.product = i.product}}
           /\ l.cells[i.month] = Amount(i) /\ l.budgets[i.month] = Planned(i)
<1> DEFINE Of(m) == CHOOSE j \in Items :
                            j.account = i.account /\ j.product = i.product /\ j.month = m
           Has == {j.month : j \in {x \in Items : <<x.account, x.product>>
                                                         = <<i.account, i.product>>}}
<1>1. LineOf("wide", i) = Line(i.account, i.product, None, [m \in Has |-> Amount(Of(m))],
                               [m \in Has |-> Planned(Of(m))], None)
    BY DEF LineOf
<1>2. Of(i.month) = i
    <2>1. \E j \in Items : j.account = i.account /\ j.product = i.product /\ j.month = i.month
        OBVIOUS
    <2>2. \A j \in Items : j.account = i.account /\ j.product = i.product /\ j.month = i.month
                             => j = i
        BY ItemsDiffer
    <2> QED
        BY <2>1, <2>2
<1>3. Has = {j.month : j \in {x \in Items : x.account = i.account /\ x.product = i.product}}
    OBVIOUS
<1>4. i.month \in Has
    OBVIOUS
<1> HIDE DEF Of, Has
<1> QED
    BY <1>1, <1>2, <1>3, <1>4 DEF Line

LEMMA CrossLine ==
    ASSUME NEW i \in Items
    PROVE  LET l == LineOf("cross", i) IN
           /\ l.label = i.account /\ l.id = IdOf[i.account] /\ l.marked = FALSE
           /\ l.at = i.month /\ l.item = None
           /\ DOMAIN l.cells = {j.product : j \in {x \in Items :
                                 x.account = i.account /\ x.month = i.month}}
           /\ l.cells[i.product] = Amount(i) /\ l.budgets[i.product] = None
<1> DEFINE Of(p) == CHOOSE j \in Items :
                            j.account = i.account /\ j.product = p /\ j.month = i.month
           Has == {j.product : j \in {x \in Items : <<x.account, x.month>>
                                                           = <<i.account, i.month>>}}
<1>1. LineOf("cross", i) = Line(i.account, None, i.month, [p \in Has |-> Amount(Of(p))],
                                [p \in Has |-> None], None)
    BY DEF LineOf
<1>2. Of(i.product) = i
    <2>1. \E j \in Items : j.account = i.account /\ j.product = i.product /\ j.month = i.month
        OBVIOUS
    <2>2. \A j \in Items : j.account = i.account /\ j.product = i.product /\ j.month = i.month
                             => j = i
        BY ItemsDiffer
    <2> QED
        BY <2>1, <2>2
<1>3. Has = {j.product : j \in {x \in Items : x.account = i.account /\ x.month = i.month}}
    OBVIOUS
<1>4. i.product \in Has
    OBVIOUS
<1> HIDE DEF Of, Has
<1> QED
    BY <1>1, <1>2, <1>3, <1>4 DEF Line

LEMMA LongLine ==
    ASSUME NEW i \in Items
    PROVE  LET l == LineOf("long", i) IN
           /\ l.label = i.account /\ l.id = IdOf[i.account] /\ l.marked = FALSE
           /\ l.of = i.product /\ l.at = i.month /\ l.item = Detail(i)
           /\ DOMAIN l.cells = {"value"}
           /\ l.cells["value"] = Amount(i) /\ l.budgets["value"] = Planned(i)
BY DEF LineOf, Line

\* What a row says of the item it shows.
MetricOf(layout, i) ==
    <<i.account[1], IF layout = "cross" THEN i.product ELSE None, i.account[2]>>

BudgetOf(layout, i) == IF layout = "cross" THEN None ELSE Planned(i)

DetailOf(layout, i) == IF layout = "long" THEN Detail(i) ELSE None

LEMMA RowOfIs ==
    ASSUME NEW layout \in Layouts, NEW i \in Items
    PROVE  LET r == RowOf(layout, i) IN
           /\ Metric(layout, r) = MetricOf(layout, i) /\ Period(layout, r) = i.month
           /\ Value(r) = Amount(i) /\ Budget(r) = BudgetOf(layout, i)
           /\ r.line.item = DetailOf(layout, i)
           /\ r.line.label = i.account /\ r.line.id = IdOf[i.account]
           /\ r.line.marked = FALSE
<1> USE DEF RowOf, ColumnOf, Metric, MetricOf, Period, Value, Budget, BudgetOf, DetailOf
<1>1. CASE layout = "wide"
    BY <1>1, WideLine
<1>2. CASE layout = "long"
    BY <1>2, LongLine
<1>3. CASE layout = "cross"
    BY <1>3, CrossLine
<1> QED
    BY <1>1, <1>2, <1>3 DEF Layouts

LEMMA RowsDiffer ==
    ASSUME NEW layout \in Layouts, NEW i \in Items, NEW j \in Items,
           RowOf(layout, i) = RowOf(layout, j)
    PROVE  i = j
<1>1. i.account = j.account /\ i.month = j.month
    BY RowOfIs
<1>2. i.product = j.product
    <2>1. CASE layout = "cross"
        BY <2>1 DEF RowOf, ColumnOf
    <2>2. CASE layout = "wide"
        BY <2>2, WideLine DEF RowOf
    <2>3. CASE layout = "long"
        BY <2>3, LongLine DEF RowOf
    <2> QED
        BY <2>1, <2>2, <2>3 DEF Layouts
<1> QED
    BY <1>1, <1>2, ItemsDiffer

LEMMA ImageIsFinite ==
    ASSUME NEW S, IsFiniteSet(S), NEW f
    PROVE  IsFiniteSet({f[x] : x \in S})
<1> DEFINE T == {f[x] : x \in S}
           g == [x \in S |-> f[x]]
<1>1. g \in Surjection(S, T)
    BY DEF Surjection
<1> QED
    BY <1>1, FS_Surjection

LEMMA PartsAreFinite ==
    ASSUME NEW S, IsFiniteSet(S)  PROVE \A T \in SUBSET S : IsFiniteSet(T)
BY FS_Subset

\* Roll-ups are dropped, and the items are the rows that stay.
LEMMA SheetRows ==
    ASSUME NEW layout \in Layouts, NEW idMapped \in BOOLEAN, NEW rollUp,
           \A x \in rollUp : IsRollUp(x, idMapped)
    PROVE  CanonicalRows(Written(layout) \cup rollUp, idMapped) = {RowOf(layout, i) : i \in Items}
<1> DEFINE kept == {l \in Written(layout) \cup rollUp : ~IsRollUp(l, idMapped)}
           Cells(l) == {[line |-> l, column |-> c] : c \in DOMAIN l.cells}
<1>1. \A i \in Items : ~IsRollUp(LineOf(layout, i), idMapped)
    <2> SUFFICES ASSUME NEW i \in Items  PROVE ~IsRollUp(LineOf(layout, i), idMapped)
        OBVIOUS
    <2>1. LET l == LineOf(layout, i) IN
          l.label = i.account /\ l.id = IdOf[i.account] /\ l.marked = FALSE
        BY RowOfIs DEF RowOf
    <2>2. i.account # None /\ IdOf[i.account] # None
        BY BooksAssumption
    <2> QED
        BY <2>1, <2>2 DEF IsRollUp
<1>2. kept = {LineOf(layout, i) : i \in Items}
    BY <1>1, WrittenIs
<1>3. CanonicalRows(Written(layout) \cup rollUp, idMapped) = UNION {Cells(l) : l \in kept}
    BY DEF CanonicalRows
<1>4. \A i \in Items : RowOf(layout, i) \in Cells(LineOf(layout, i))
    <2> SUFFICES ASSUME NEW i \in Items
                 PROVE  ColumnOf(layout, i) \in DOMAIN LineOf(layout, i).cells
        BY DEF RowOf
    <2>1. CASE layout = "wide"
        BY <2>1, WideLine DEF ColumnOf
    <2>2. CASE layout = "long"
        BY <2>2, LongLine DEF ColumnOf
    <2>3. CASE layout = "cross"
        BY <2>3, CrossLine DEF ColumnOf
    <2> QED
        BY <2>1, <2>2, <2>3 DEF Layouts
<1>5. ASSUME NEW i \in Items, NEW c \in DOMAIN LineOf(layout, i).cells
      PROVE  \E j \in Items : [line |-> LineOf(layout, i), column |-> c] = RowOf(layout, j)
    <2>1. CASE layout = "wide"
        <3>0. DOMAIN LineOf(layout, i).cells = {j.month : j \in {x \in Items :
                               x.account = i.account /\ x.product = i.product}}
            BY <2>1, WideLine, Zenon
        <3>1. PICK j \in Items : j.account = i.account /\ j.product = i.product /\ j.month = c
            BY <1>5, <3>0
        <3>2. LineOf(layout, j) = LineOf(layout, i)
            BY <2>1, <3>1 DEF LineOf
        <3> QED
            BY <2>1, <3>1, <3>2 DEF RowOf, ColumnOf
    <2>2. CASE layout = "long"
        <3>0. DOMAIN LineOf(layout, i).cells = {"value"}
            BY <2>2, LongLine, Zenon
        <3>1. c = "value"
            BY <1>5, <3>0
        <3> QED
            BY <2>2, <3>1 DEF RowOf, ColumnOf
    <2>3. CASE layout = "cross"
        <3>0. DOMAIN LineOf(layout, i).cells = {j.product : j \in {x \in Items :
                               x.account = i.account /\ x.month = i.month}}
            BY <2>3, CrossLine, Zenon
        <3>1. PICK j \in Items : j.account = i.account /\ j.product = c /\ j.month = i.month
            BY <1>5, <3>0
        <3>2. LineOf(layout, j) = LineOf(layout, i)
            BY <2>3, <3>1 DEF LineOf
        <3> QED
            BY <2>3, <3>1, <3>2 DEF RowOf, ColumnOf
    <2> QED
        BY <2>1, <2>2, <2>3 DEF Layouts
<1> HIDE DEF kept
<1>6. \A r \in UNION {Cells(l) : l \in kept} : r \in {RowOf(layout, i) : i \in Items}
    BY <1>2, <1>5
<1>7. \A i \in Items : RowOf(layout, i) \in UNION {Cells(l) : l \in kept}
    BY <1>2, <1>4
<1> QED
    BY <1>3, <1>6, <1>7

LEMMA RollUpsAre ==
    ASSUME NEW layout \in Layouts, NEW idMapped \in BOOLEAN, NEW line \in Written(layout),
           NEW x \in RollUps(line), x.label = None \/ x.marked \/ idMapped
    PROVE  IsRollUp(x, idMapped)
<1>1. PICK i \in Items : line = LineOf(layout, i)
    BY WrittenIs
<1>2. \E a, b, c, d, e, f, g, h : line = [label |-> a, id |-> b, marked |-> c, of |-> d,
         at |-> e, cells |-> f, budgets |-> g, item |-> h]
    <2>1. CASE layout = "wide"
        BY <1>1, <2>1, ZenonT(60) DEF LineOf, Line
    <2>2. CASE layout = "long"
        BY <1>1, <2>2, ZenonT(60) DEF LineOf, Line
    <2>3. CASE layout = "cross"
        BY <1>1, <2>3, ZenonT(60) DEF LineOf, Line
    <2> QED
        BY <2>1, <2>2, <2>3, Zenon DEF Layouts
<1>3. CASE x = [line EXCEPT !.label = <<"Total", "Total">>, !.marked = TRUE, !.id = None]
    BY <1>2, <1>3 DEF IsRollUp
<1>4. CASE x = [line EXCEPT !.of = "Total", !.marked = TRUE]
    BY <1>2, <1>4 DEF IsRollUp
<1>5. CASE x = [line EXCEPT !.label = None]
    BY <1>2, <1>5 DEF IsRollUp
<1>6. CASE x = [line EXCEPT !.id = None]
    BY <1>2, <1>6 DEF IsRollUp
<1> QED
    BY <1>3, <1>4, <1>5, <1>6 DEF RollUps

BookType == book = NoBook \/ book \in [Items -> Quantities \cup {None}]

Known == {i \in Items : book[i] # None}

LEMMA AmountTypes ==
    ASSUME BookType, book # NoBook, NEW i \in Items
    PROVE  /\ Amount(i) \in Int \cup {None} /\ (Amount(i) = None <=> book[i] = None)
           /\ Planned(i) \in Int \cup {None} /\ (Planned(i) = None <=> Plan[i] = None)
<1>1. /\ book[i] \in Int \cup {None} /\ Price[i.product] \in Int
      /\ Plan[i] # None => Plan[i].qty \in Int /\ Plan[i].price \in Int
    BY BooksAssumption DEF BookType
<1>2. \A a, b \in Int : a * b \in Int /\ a * b # None
    BY NoneAssumption
<1>3. None \notin Int
    BY NoneAssumption
<1>4. /\ book[i] # None => Amount(i) \in Int
      /\ book[i] = None => Amount(i) = None
    BY <1>1, <1>2 DEF Amount
<1>5. /\ Plan[i] # None => Planned(i) \in Int
      /\ Plan[i] = None => Planned(i) = None
    BY <1>1, <1>2 DEF Planned
<1> QED
    BY <1>3, <1>4, <1>5

\* The filled rows of a sheet are those of the items that are not blank.
LEMMA FilledIs ==
    ASSUME NEW layout \in Layouts, BookType, book # NoBook
    PROVE  Filled({RowOf(layout, i) : i \in Items}) = {RowOf(layout, i) : i \in Known}
<1>1. \A i \in Items : Value(RowOf(layout, i)) = Amount(i)
    BY RowOfIs
<1>2. \A i \in Items : Amount(i) # None <=> i \in Known
    BY AmountTypes DEF Known
<1> QED
    BY <1>1, <1>2 DEF Filled, Known

LEMMA SumKnownIs ==
    ASSUME NEW D, IsFiniteSet(D), NEW f \in [D -> Int \cup {None}]
    PROVE  /\ SumKnown(f) \in Int \cup {None}
           /\ D # {} /\ (\A x \in D : f[x] \in Int) =>
                SumKnown(f) = SumFunctionOnSet(f, D) /\ SumKnown(f) \in Int
<1> DEFINE known == {r \in D : f[r] # None}
<1>1. IsFiniteSet(known) /\ \A r \in known : f[r] \in Int
    BY FS_Subset
<1>2. SumFunctionOnSet(f, known) \in Int
    BY <1>1, SumInt
<1>3. SumKnown(f) = IF known = {} THEN None ELSE SumFunctionOnSet(f, known)
    BY DEF SumKnown
<1>4. (\A x \in D : f[x] \in Int) => known = D
    BY NoneAssumption
<1> HIDE DEF known
<1> QED
    BY <1>2, <1>3, <1>4

\* The rows a key stands for.
LEMMA GroupIs ==
    ASSUME NEW layout \in Layouts, NEW S \in SUBSET Items,
           NEW k \in Keys(layout, {RowOf(layout, i) : i \in S})
    PROVE  LET of == {i \in S : MetricOf(layout, i) = k[1] /\ i.month = k[2]} IN
           /\ k = <<k[1], k[2]>>
           /\ Group(layout, {RowOf(layout, i) : i \in S}, k) = {RowOf(layout, i) : i \in of}
           /\ Group(layout, {RowOf(layout, i) : i \in S}, k) # {}
           /\ IsFiniteSet(Group(layout, {RowOf(layout, i) : i \in S}, k))
<1> DEFINE held == {RowOf(layout, i) : i \in S}
           of == {i \in S : MetricOf(layout, i) = k[1] /\ i.month = k[2]}
<1>1. \A i \in S : Metric(layout, RowOf(layout, i)) = MetricOf(layout, i)
                   /\ Period(layout, RowOf(layout, i)) = i.month
    BY RowOfIs
<1>2. PICK i \in S : k = <<MetricOf(layout, i), i.month>>
    BY <1>1 DEF Keys
<1>3. k = <<k[1], k[2]>> /\ i \in of
    BY <1>2
<1>4. Group(layout, held, k) = {RowOf(layout, j) : j \in of}
    BY <1>1 DEF Group
<1>5. IsFiniteSet({RowOf(layout, j) : j \in of})
    <2> DEFINE f == [j \in of |-> RowOf(layout, j)]
    <2>1. IsFiniteSet(of)
        BY BooksAssumption, FS_Subset
    <2>2. {RowOf(layout, j) : j \in of} = {f[j] : j \in of}
        OBVIOUS
    <2> HIDE DEF f, of
    <2> QED
        BY <2>1, <2>2, ImageIsFinite
<1> QED
    BY <1>3, <1>4, <1>5

\* What the rows of some items add up to is what the items add up to.
LEMMA RowsAddUp ==
    ASSUME NEW layout \in Layouts, NEW S \in SUBSET Items, NEW f, NEW F,
           \A i \in S : F[RowOf(layout, i)] = f[i] /\ f[i] \in Int
    PROVE  SumFunctionOnSet(F, {RowOf(layout, i) : i \in S}) = SumFunctionOnSet(f, S)
<1> DEFINE h == [i \in S |-> RowOf(layout, i)]
           B == {RowOf(layout, i) : i \in S}
<1>1. IsFiniteSet(S)
    BY BooksAssumption, FS_Subset
<1>2. B = {h[i] : i \in S}
    OBVIOUS
<1>3. IsFiniteSet(B)
    <2> HIDE DEF h, B
    <2> QED
        BY <1>1, <1>2, ImageIsFinite
<1>4. \A i \in S : f[i] \in Int /\ h[i] \in B
    OBVIOUS
<1>5. ASSUME NEW r \in B  PROVE F[r] = SumFunctionOnSet(f, {i \in S : h[i] = r})
    <2>1. PICK i \in S : r = RowOf(layout, i)
        OBVIOUS
    <2>2. \A j \in S : h[j] = r => j = i
        BY <2>1, RowsDiffer
    <2>3. {j \in S : h[j] = r} = {i}
        BY <2>1, <2>2
    <2>4. SumFunctionOnSet(f, {i}) = f[i]
        BY SumSingleton
    <2> HIDE DEF h
    <2> QED
        BY <2>1, <2>3, <2>4
<1> HIDE DEF h, B
<1>6. SumFunctionOnSet(F, B) = SumFunctionOnSet(f, S)
    <2>1. Parted(S, B, h, f, F)
        BY <1>1, <1>3, <1>4, <1>5 DEF Parted
    <2> QED
        BY <2>1, SumByParts
<1> QED
    BY <1>6 DEF B

\* The stored rows of a sheet: one by account, measure and month.
LEMMA StoredIs ==
    ASSUME NEW layout \in Layouts, BookType, book # NoBook
    PROVE  LET filled == {RowOf(layout, i) : i \in Known}
               T == StoredRows(layout, filled) IN
           /\ DOMAIN T = Keys(layout, filled)
           /\ T \in [DOMAIN T -> [value : Int, budget : Int \cup {None}]]
           /\ \A k \in DOMAIN T :
                 LET of == Group(layout, filled, k) IN
                 /\ T[k].value = SumFunctionOnSet([r \in of |-> Value(r)], of)
                 /\ (\A r \in of : Budget(r) \in Int) =>
                       T[k].budget = SumFunctionOnSet([r \in of |-> Budget(r)], of)
<1> DEFINE filled == {RowOf(layout, i) : i \in Known}
           T == StoredRows(layout, filled)
<1>1. DOMAIN T = Keys(layout, filled)
    BY DEF StoredRows
<1>2. Known \in SUBSET Items
    BY DEF Known
<1>3. \A r \in filled : Value(r) \in Int /\ Budget(r) \in Int \cup {None}
    <2>1. \A i \in Known : Amount(i) \in Int /\ Planned(i) \in Int \cup {None}
        BY AmountTypes, <1>2 DEF Known
    <2>2. \A i \in Known : BudgetOf(layout, i) \in Int \cup {None}
        BY <2>1 DEF BudgetOf
    <2> QED
        BY <1>2, <2>1, <2>2, RowOfIs
<1>4. ASSUME NEW k \in DOMAIN T
      PROVE  LET of == Group(layout, filled, k) IN
             /\ T[k] \in [value : Int, budget : Int \cup {None}]
             /\ T[k].value = SumFunctionOnSet([r \in of |-> Value(r)], of)
             /\ (\A r \in of : Budget(r) \in Int) =>
                   T[k].budget = SumFunctionOnSet([r \in of |-> Budget(r)], of)
    <2> DEFINE of == Group(layout, filled, k)
               v == [r \in of |-> Value(r)]
               b == [r \in of |-> Budget(r)]
    <2>1. T[k] = [value |-> SumKnown(v), budget |-> SumKnown(b)]
        BY <1>1 DEF StoredRows
    <2>2. IsFiniteSet(of) /\ of # {}
        <3>1. k \in Keys(layout, filled)
            BY <1>1
        <3> HIDE DEF T
        <3> QED
            BY <1>2, <3>1, GroupIs
    <2>3. of \subseteq filled
        BY DEF Group
    <2>4. v \in [of -> Int \cup {None}] /\ b \in [of -> Int \cup {None}]
          /\ \A r \in of : v[r] \in Int
        BY <1>3, <2>3
    <2>5. (\A r \in of : Budget(r) \in Int) => \A r \in of : b[r] \in Int
        OBVIOUS
    <2> HIDE DEF v, b, of, filled, T
    <2>6. SumKnown(v) \in Int /\ SumKnown(v) = SumFunctionOnSet(v, of)
        BY <2>2, <2>4, SumKnownIs
    <2>7. SumKnown(b) \in Int \cup {None}
          /\ ((\A r \in of : b[r] \in Int) => SumKnown(b) = SumFunctionOnSet(b, of))
        BY <2>2, <2>4, SumKnownIs
    <2>8. /\ T[k] \in [value : Int, budget : Int \cup {None}]
          /\ T[k].value = SumFunctionOnSet(v, of)
          /\ (\A r \in of : Budget(r) \in Int) => T[k].budget = SumFunctionOnSet(b, of)
        BY <2>1, <2>5, <2>6, <2>7
    <2> QED
        BY <2>8 DEF v, b, of
<1>5. T = [k \in DOMAIN T |-> T[k]]
    BY DEF StoredRows
<1>6. T \in [DOMAIN T -> [value : Int, budget : Int \cup {None}]]
    <2>1. \A k \in DOMAIN T : T[k] \in [value : Int, budget : Int \cup {None}]
        BY <1>4
    <2> HIDE DEF T
    <2> QED
        BY <1>5, <2>1
<1> QED
    BY <1>1, <1>4, <1>6

LEMMA KeysAre ==
    ASSUME NEW layout \in Layouts, NEW S \in SUBSET Items
    PROVE  LET keys == Keys(layout, {RowOf(layout, i) : i \in S}) IN
           /\ keys = {<<MetricOf(layout, i), i.month>> : i \in S}
           /\ IsFiniteSet(keys)
           /\ AllMetrics(layout, {RowOf(layout, i) : i \in S}) = {MetricOf(layout, i) : i \in S}
<1>1. \A i \in S : Metric(layout, RowOf(layout, i)) = MetricOf(layout, i)
                   /\ Period(layout, RowOf(layout, i)) = i.month
    BY RowOfIs
<1>2. Keys(layout, {RowOf(layout, i) : i \in S}) = {<<MetricOf(layout, i), i.month>> : i \in S}
    BY <1>1 DEF Keys
<1>3. AllMetrics(layout, {RowOf(layout, i) : i \in S}) = {MetricOf(layout, i) : i \in S}
    BY <1>1 DEF AllMetrics
<1>4. IsFiniteSet({<<MetricOf(layout, i), i.month>> : i \in S})
    <2> DEFINE f == [i \in S |-> <<MetricOf(layout, i), i.month>>]
    <2>1. IsFiniteSet(S)
        BY BooksAssumption, FS_Subset
    <2>2. {<<MetricOf(layout, i), i.month>> : i \in S} = {f[i] : i \in S}
        OBVIOUS
    <2> HIDE DEF f
    <2> QED
        BY <2>1, <2>2, ImageIsFinite
<1> QED
    BY <1>2, <1>3, <1>4

TableSum(t, a, m) ==
    LET held == {k \in DOMAIN t : <<k[1][1], k[1][3]>> = a /\ k[2] = m} IN
    SumFunctionOnSet([k \in held |-> t[k].value], held)

BookSum(b, a, m) ==
    LET items == {i \in Items : i.account = a /\ i.month = m /\ b[i] # None} IN
    SumFunctionOnSet([i \in items |-> IF b[i] = None THEN None ELSE b[i] * Price[i.product]],
                     items)

\* Whatever the layout, the rows of an account and a month add up to its items.
LEMMA SheetsAddUp ==
    ASSUME NEW layout \in Layouts, BookType, book # NoBook, NEW a \in Accounts, NEW m
    PROVE  TableSum(StoredRows(layout, {RowOf(layout, i) : i \in Known}), a, m)
           = BookSum(book, a, m)
<1> DEFINE filled == {RowOf(layout, i) : i \in Known}
           T == StoredRows(layout, filled)
           held == {k \in DOMAIN T : <<k[1][1], k[1][3]>> = a /\ k[2] = m}
           items == {i \in Items : i.account = a /\ i.month = m /\ book[i] # None}
           A == {RowOf(layout, i) : i \in items}
           h == [r \in A |-> <<Metric(layout, r), Period(layout, r)>>]
           F == [r \in A |-> Value(r)]
           G == [k \in held |-> T[k].value]
           f == [i \in items |-> Amount(i)]
<1>1. Known \in SUBSET Items /\ items \in SUBSET Known /\ items \in SUBSET Items
    BY DEF Known
<1>2. \A i \in Items : /\ Metric(layout, RowOf(layout, i)) = MetricOf(layout, i)
                       /\ Period(layout, RowOf(layout, i)) = i.month
                       /\ Value(RowOf(layout, i)) = Amount(i)
    BY RowOfIs
<1>3. \A i \in items : Amount(i) \in Int
    BY <1>1, AmountTypes
<1>4. DOMAIN T = Keys(layout, filled)
    BY StoredIs, Zenon
<1>5. DOMAIN T = {<<MetricOf(layout, i), i.month>> : i \in Known} /\ IsFiniteSet(DOMAIN T)
    BY <1>1, <1>4, KeysAre
<1>6. \A i \in Items : <<MetricOf(layout, i)[1], MetricOf(layout, i)[3]>> = i.account
    BY BooksAssumption DEF MetricOf
<1>7. \A r \in A : h[r] \in held /\ F[r] \in Int
    <2> SUFFICES ASSUME NEW i \in items
                 PROVE  <<MetricOf(layout, i), i.month>> \in held
        BY <1>1, <1>2, <1>3
    <2> HIDE DEF T
    <2> QED
        BY <1>1, <1>5, <1>6
<1>8. \A i \in items : F[RowOf(layout, i)] = f[i] /\ f[i] \in Int
    BY <1>1, <1>2, <1>3
<1>9. SumFunctionOnSet(F, A) = SumFunctionOnSet(f, items)
    <2> HIDE DEF F, f, items
    <2> QED
        BY <1>1, <1>8, RowsAddUp
<1>10. IsFiniteSet(A) /\ IsFiniteSet(held)
    <2>1. IsFiniteSet(items)
        BY <1>1, BooksAssumption, FS_Subset
    <2> DEFINE g == [i \in items |-> RowOf(layout, i)]
    <2>2. A = {g[i] : i \in items}
        OBVIOUS
    <2>3. IsFiniteSet(held)
        <3> HIDE DEF T
        <3> QED
            BY <1>5, FS_Subset
    <2> HIDE DEF held, g, A, items
    <2> QED
        BY <2>1, <2>2, <2>3, ImageIsFinite
<1>11. ASSUME NEW k \in held
       PROVE  G[k] = SumFunctionOnSet(F, {r \in A : h[r] = k})
    <2> DEFINE of == Group(layout, filled, k)
    <2>1. k \in DOMAIN T /\ k = <<k[1], k[2]>> /\ <<k[1][1], k[1][3]>> = a /\ k[2] = m
        <3> HIDE DEF T
        <3> QED
            BY <1>5
    <2>2. G[k] = SumFunctionOnSet([r \in of |-> Value(r)], of)
        BY <2>1, StoredIs
    <2>3. of = {r \in A : h[r] = k}
        <3>1. ASSUME NEW r \in of  PROVE r \in A /\ h[r] = k
            <4>1. PICK i \in Known : r = RowOf(layout, i)
                BY DEF Group
            <4>2. MetricOf(layout, i) = k[1] /\ i.month = k[2]
                BY <1>1, <1>2, <4>1 DEF Group
            <4>3. i \in items
                BY <1>1, <1>6, <2>1, <4>2 DEF Known
            <4> QED
                BY <1>1, <1>2, <2>1, <4>1, <4>2, <4>3
        <3>2. ASSUME NEW r \in A, h[r] = k  PROVE r \in of
            <4>1. r \in filled /\ Metric(layout, r) = k[1] /\ Period(layout, r) = k[2]
                BY <1>1, <3>2
            <4> QED
                BY <4>1 DEF Group
        <3> QED
            BY <3>1, <3>2
    <2>4. \A r \in of : [x \in of |-> Value(x)][r] = F[r]
        BY <2>3
    <2>5. IsFiniteSet(of)
        BY <1>10, <2>3, FS_Subset
    <2> HIDE DEF F, of, h
    <2>6. SumFunctionOnSet([r \in of |-> Value(r)], of) = SumFunctionOnSet(F, of)
        BY <2>4, <2>5, SumSame
    <2> QED
        BY <2>2, <2>3, <2>6
<1>12. SumFunctionOnSet(G, held) = SumFunctionOnSet(F, A)
    <2> HIDE DEF G, F, A, h, held
    <2>1. \A r \in A : F[r] \in Int /\ h[r] \in held
        BY <1>7
    <2>2. \A k \in held : G[k] = SumFunctionOnSet(F, {r \in A : h[r] = k})
        BY <1>11
    <2>3. Parted(A, held, h, F, G)
        BY <1>10, <2>1, <2>2 DEF Parted
    <2> QED
        BY <2>3, SumByParts
<1>13. SumFunctionOnSet(G, held) = SumFunctionOnSet(f, items)
    BY <1>9, <1>12
<1> HIDE DEF T
<1> QED
    BY <1>13, Zenon DEF TableSum, BookSum, Amount, T

-----------------------------------------------------------------------------
(* The bridges.                                                            *)

\* The items a bridge can be made of.
Bridged(layout) == {i \in Known : layout = "long" /\ Plan[i] # None}

LEMMA BridgedItems ==
    ASSUME BookType, book # NoBook, NEW layout, NEW i \in Bridged(layout)
    PROVE  /\ layout = "long" /\ i \in Known /\ i \in Items
           /\ book[i] \in Int /\ Price[i.product] \in Int
           /\ Plan[i].qty \in Int /\ Plan[i].price \in Int
           /\ Detail(i) = [aq |-> book[i], ap |-> Price[i.product],
                           bq |-> Plan[i].qty, bp |-> Plan[i].price]
           /\ Detail(i) # None
           /\ Amount(i) = book[i] * Price[i.product]
           /\ Planned(i) = Plan[i].qty * Plan[i].price
<1>1. /\ i \in Items /\ book[i] # None /\ Plan[i] # None /\ book[i] \in Quantities
      /\ layout = "long"
    BY DEF Bridged, Known, BookType
<1>2. Detail(i) = Detailing(i, book[i])
    BY <1>1 DEF Detail
<1>3. Detailing(i, book[i]) # None
    BY <1>1, BooksAssumption
<1>4. /\ book[i] \in Int /\ Price[i.product] \in Int
      /\ Plan[i].qty \in Int /\ Plan[i].price \in Int
    BY <1>1, BooksAssumption
<1> QED
    BY <1>1, <1>2, <1>3, <1>4 DEF Detailing, Amount, Planned, Known

LEMMA DetailedIs ==
    ASSUME BookType, book # NoBook, NEW layout \in Layouts
    PROVE  Detailed({RowOf(layout, i) : i \in Known})
           = {RowOf(layout, i) : i \in Bridged(layout)}
<1>1. \A i \in Known : RowOf(layout, i).line.item = DetailOf(layout, i)
    BY RowOfIs DEF Known
<1>2. \A i \in Known : DetailOf(layout, i) # None <=> i \in Bridged(layout)
    <2> SUFFICES ASSUME NEW i \in Known
                 PROVE  DetailOf(layout, i) # None <=> i \in Bridged(layout)
        OBVIOUS
    <2>1. CASE i \in Bridged(layout)
        BY <2>1, BridgedItems DEF DetailOf
    <2>2. CASE i \notin Bridged(layout)
        BY <2>2 DEF DetailOf, Detail, Bridged
    <2> QED
        BY <2>1, <2>2
<1>3. Bridged(layout) \subseteq Known
    BY DEF Bridged
<1> QED
    BY <1>1, <1>2, <1>3 DEF Detailed

\* Volume, price and mix explain what the items differ by from their plan.
LEMMA DecomposeExplains ==
    ASSUME BookType, book # NoBook, NEW layout \in Layouts, NEW S \in SUBSET Bridged(layout)
    PROVE  LET bridge == decompose({RowOf(layout, i) : i \in S}) IN
           /\ bridge \in [volume : Int, price : Int, mix : Int]
           /\ bridge.volume + bridge.price + bridge.mix
                = SumFunctionOnSet([i \in S |-> Amount(i) - Planned(i)], S)
<1> DEFINE held == {RowOf(layout, i) : i \in S}
           T == [r \in held |-> r.line.item.aq * r.line.item.ap
                                  - r.line.item.bq * r.line.item.bp]
           V == [r \in held |-> (r.line.item.aq - r.line.item.bq) * r.line.item.bp]
           P == [r \in held |-> (r.line.item.ap - r.line.item.bp) * r.line.item.aq]
           f == [i \in S |-> Amount(i) - Planned(i)]
           total == SumFunctionOnSet(T, held)
           volume == SumFunctionOnSet(V, held)
           price == SumFunctionOnSet(P, held)
<1>1. decompose(held) = [volume |-> volume, price |-> price, mix |-> total - volume - price]
    BY DEF decompose, OverItems, SumFunction
<1>2. ASSUME NEW i \in S
      PROVE  /\ RowOf(layout, i).line.item = [aq |-> book[i], ap |-> Price[i.product],
                           bq |-> Plan[i].qty, bp |-> Plan[i].price]
             /\ book[i] \in Int /\ Price[i.product] \in Int
             /\ Plan[i].qty \in Int /\ Plan[i].price \in Int
    <2>1. RowOf(layout, i).line.item = DetailOf(layout, i)
        BY RowOfIs, BridgedItems
    <2> QED
        BY <2>1, BridgedItems DEF DetailOf
<1> HIDE DEF held
<1>10. \A i \in S : LET t == RowOf(layout, i).line.item IN
           /\ t.aq = book[i] /\ t.ap = Price[i.product]
           /\ t.bq = Plan[i].qty /\ t.bp = Plan[i].price
           /\ t.aq \in Int /\ t.ap \in Int /\ t.bq \in Int /\ t.bp \in Int
    <2> SUFFICES ASSUME NEW i \in S
                 PROVE  LET t == RowOf(layout, i).line.item IN
           /\ t.aq = book[i] /\ t.ap = Price[i.product]
           /\ t.bq = Plan[i].qty /\ t.bp = Plan[i].price
           /\ t.aq \in Int /\ t.ap \in Int /\ t.bq \in Int /\ t.bp \in Int
        OBVIOUS
    <2> HIDE DEF T, V, P, f
    <2> DEFINE t == RowOf(layout, i).line.item
    <2>1. t = [aq |-> book[i], ap |-> Price[i.product], bq |-> Plan[i].qty, bp |-> Plan[i].price]
        BY <1>2
    <2>2. /\ book[i] \in Int /\ Price[i.product] \in Int
          /\ Plan[i].qty \in Int /\ Plan[i].price \in Int
        BY <1>2
    <2> HIDE DEF t
    <2>3. /\ t.aq = book[i] /\ t.ap = Price[i.product]
          /\ t.bq = Plan[i].qty /\ t.bp = Plan[i].price
        BY <2>1
    <2> QED
        BY <2>2, <2>3, Zenon DEF t
<1> USE DEF held
<1>3. \A r \in held : T[r] \in Int /\ V[r] \in Int /\ P[r] \in Int
    <2> SUFFICES ASSUME NEW i \in S
                 PROVE  LET t == RowOf(layout, i).line.item IN
                        /\ t.aq * t.ap - t.bq * t.bp \in Int
                        /\ (t.aq - t.bq) * t.bp \in Int
                        /\ (t.ap - t.bp) * t.aq \in Int
        OBVIOUS
    <2> DEFINE t == RowOf(layout, i).line.item
    <2>1. t.aq \in Int /\ t.ap \in Int /\ t.bq \in Int /\ t.bp \in Int
        BY <1>10
    <2>2. \A a, b, c, d \in Int : a * b - c * d \in Int /\ (a - b) * c \in Int
        OBVIOUS
    <2> HIDE DEF t
    <2> QED
        BY <2>1, <2>2 DEF t
<1>4. IsFiniteSet(held)
    <2> DEFINE g == [i \in S |-> RowOf(layout, i)]
    <2>1. IsFiniteSet(S)
        BY BooksAssumption, FS_Subset DEF Bridged, Known
    <2>2. held = {g[i] : i \in S}
        OBVIOUS
    <2> HIDE DEF g, held
    <2> QED
        BY <2>1, <2>2, ImageIsFinite
<1>5. total \in Int /\ volume \in Int /\ price \in Int
    <2> HIDE DEF held, T, V, P
    <2> QED
        BY <1>3, <1>4, SumInt
<1>6. total = SumFunctionOnSet(f, S)
    <2>1. \A i \in S : T[RowOf(layout, i)] = f[i] /\ f[i] \in Int
        <3> SUFFICES ASSUME NEW i \in S  PROVE T[RowOf(layout, i)] = f[i] /\ f[i] \in Int
            OBVIOUS
        <3>1. Amount(i) = book[i] * Price[i.product] /\ Planned(i) = Plan[i].qty * Plan[i].price
            BY BridgedItems
        <3> DEFINE t == RowOf(layout, i).line.item
        <3>2. T[RowOf(layout, i)] = t.aq * t.ap - t.bq * t.bp
            OBVIOUS
        <3>3. /\ t.aq = book[i] /\ t.ap = Price[i.product]
              /\ t.bq = Plan[i].qty /\ t.bp = Plan[i].price
            BY <1>10
        <3>4. f[i] = Amount(i) - Planned(i)
            OBVIOUS
        <3> HIDE DEF t, T, f
        <3>5. T[RowOf(layout, i)] = f[i]
            BY <3>1, <3>2, <3>3, <3>4, Zenon
        <3>6. \A a, b, c, d \in Int : a * b - c * d \in Int
            OBVIOUS
        <3>7. book[i] * Price[i.product] - Plan[i].qty * Plan[i].price \in Int
            BY <1>2, <3>6
        <3> QED
            BY <3>1, <3>4, <3>5, <3>7, Zenon
    <2>2. S \in SUBSET Items
        BY DEF Bridged, Known
    <2> HIDE DEF T, f
    <2> QED
        BY <2>1, <2>2, RowsAddUp
<1> HIDE DEF total, volume, price, f, held
<1>7. volume + price + (total - volume - price) = total
    BY <1>5
<1>8. decompose(held) \in [volume : Int, price : Int, mix : Int]
    BY <1>1, <1>5
<1>9. decompose(held).volume + decompose(held).price + decompose(held).mix = total
    BY <1>1, <1>7
<1> QED
    BY <1>6, <1>8, <1>9 DEF held, f

\* A stored bridge explains the variance of its stored row, when all the items
\* of the account and month were budgeted.
LEMMA BridgesExplain ==
    ASSUME BookType, book # NoBook, NEW layout \in Layouts
    PROVE  LET filled == {RowOf(layout, i) : i \in Known}
               T == StoredRows(layout, filled)
               B == Bridges(layout, filled) IN
           /\ B \in [DOMAIN B -> [volume : Int, price : Int, mix : Int]]
           /\ DOMAIN B \subseteq DOMAIN T
           /\ \A k \in DOMAIN B :
                 (\A i \in Items : i.account = <<k[1][1], k[1][3]>> /\ i.month = k[2] /\ book[i] # None
                                       => Plan[i] # None)
                 => B[k].volume + B[k].price + B[k].mix = T[k].value - T[k].budget
                    /\ T[k].budget \in Int
<1> DEFINE filled == {RowOf(layout, i) : i \in Known}
           sold == {RowOf(layout, i) : i \in Bridged(layout)}
           T == StoredRows(layout, filled)
           B == Bridges(layout, filled)
<1>1. /\ Known \in SUBSET Items /\ Bridged(layout) \in SUBSET Known
      /\ Bridged(layout) \in SUBSET Items
    BY DEF Known, Bridged
<1>2. B = [k \in Keys(layout, sold) |-> decompose(Group(layout, sold, k))]
    BY DetailedIs DEF Bridges
<1>3. DOMAIN B = {<<MetricOf(layout, i), i.month>> : i \in Bridged(layout)}
    BY <1>1, <1>2, KeysAre
<1>4. DOMAIN T = {<<MetricOf(layout, i), i.month>> : i \in Known} /\ DOMAIN T = Keys(layout, filled)
    <2>1. DOMAIN T = Keys(layout, filled)
        BY StoredIs, Zenon
    <2> QED
        BY <1>1, <2>1, KeysAre
<1>5. DOMAIN B \subseteq DOMAIN T
    BY <1>1, <1>3, <1>4
<1>6. ASSUME NEW k \in DOMAIN B
      PROVE  LET of == {i \in Bridged(layout) : MetricOf(layout, i) = k[1] /\ i.month = k[2]} IN
             /\ B[k] \in [volume : Int, price : Int, mix : Int]
             /\ B[k].volume + B[k].price + B[k].mix
                  = SumFunctionOnSet([i \in of |-> Amount(i) - Planned(i)], of)
    <2> DEFINE of == {i \in Bridged(layout) : MetricOf(layout, i) = k[1] /\ i.month = k[2]}
    <2>1. k \in Keys(layout, sold) /\ B[k] = decompose(Group(layout, sold, k))
        BY <1>2
    <2>2. Group(layout, sold, k) = {RowOf(layout, i) : i \in of}
        BY <1>1, <2>1, GroupIs, Zenon
    <2>3. of \in SUBSET Bridged(layout)
        OBVIOUS
    <2> HIDE DEF of, B, sold
    <2>4. /\ decompose({RowOf(layout, i) : i \in of}) \in [volume : Int, price : Int, mix : Int]
          /\ decompose({RowOf(layout, i) : i \in of}).volume
               + decompose({RowOf(layout, i) : i \in of}).price
               + decompose({RowOf(layout, i) : i \in of}).mix
               = SumFunctionOnSet([i \in of |-> Amount(i) - Planned(i)], of)
        BY <2>3, DecomposeExplains, Zenon
    <2> QED
        BY <2>1, <2>2, <2>4, Zenon DEF of
<1>7. ASSUME NEW k \in DOMAIN B,
             \A i \in Items : i.account = <<k[1][1], k[1][3]>> /\ i.month = k[2] /\ book[i] # None
                                  => Plan[i] # None
      PROVE  /\ B[k].volume + B[k].price + B[k].mix = T[k].value - T[k].budget
             /\ T[k].budget \in Int
    <2> DEFINE of == {i \in Bridged(layout) : MetricOf(layout, i) = k[1] /\ i.month = k[2]}
               held == Group(layout, filled, k)
               a == [i \in of |-> Amount(i)]
               p == [i \in of |-> Planned(i)]
               d == [i \in of |-> Amount(i) - Planned(i)]
               A == [r \in held |-> Value(r)]
               P == [r \in held |-> Budget(r)]
    <2>1. layout = "long" /\ k \in Keys(layout, filled)
        BY <1>3, <1>4, <1>5 DEF Bridged
    <2>2. of = {i \in Known : MetricOf(layout, i) = k[1] /\ i.month = k[2]}
        <3>1. ASSUME NEW i \in Known, MetricOf(layout, i) = k[1], i.month = k[2]
              PROVE  i \in Bridged(layout)
            <4>1. i.account = <<k[1][1], k[1][3]>>
                BY <1>1, <3>1, BooksAssumption DEF MetricOf
            <4> QED
                BY <1>7, <2>1, <3>1, <4>1 DEF Bridged, Known
        <3> QED
            BY <1>1, <3>1
    <2>3. held = {RowOf(layout, i) : i \in of}
        <3>1. held = {RowOf(layout, i) : i \in {j \in Known : /\ MetricOf(layout, j) = k[1]
                                                             /\ j.month = k[2]}}
            BY <1>1, <2>1, GroupIs, Zenon
        <3> HIDE DEF held, of
        <3> QED
            BY <2>2, <3>1
    <2>4. \A i \in of : /\ a[i] \in Int /\ p[i] \in Int
                        /\ d[i] = a[i] - p[i]
        BY BridgedItems
    <2>5. \A i \in of : /\ RowOf(layout, i) \in held
                        /\ A[RowOf(layout, i)] = a[i] /\ P[RowOf(layout, i)] = p[i]
        <3>1. \A i \in of : Value(RowOf(layout, i)) = Amount(i)
                            /\ Budget(RowOf(layout, i)) = Planned(i)
            BY <1>1, <2>1, RowOfIs DEF BudgetOf
        <3> HIDE DEF held, of
        <3> QED
            BY <2>3, <3>1
    <2>6. of \in SUBSET Items /\ IsFiniteSet(of)
        BY <1>1, BooksAssumption, FS_Subset
    <2>7. SumFunctionOnSet(A, held) = SumFunctionOnSet(a, of)
        <3> HIDE DEF A, a, of, held
        <3>1. \A i \in of : A[RowOf(layout, i)] = a[i] /\ a[i] \in Int
            BY <2>4, <2>5
        <3> QED
            BY <2>3, <2>6, <3>1, RowsAddUp
    <2>8. SumFunctionOnSet(P, held) = SumFunctionOnSet(p, of)
        <3> HIDE DEF P, p, of, held
        <3>1. \A i \in of : P[RowOf(layout, i)] = p[i] /\ p[i] \in Int
            BY <2>4, <2>5
        <3> QED
            BY <2>3, <2>6, <3>1, RowsAddUp
    <2>9. SumFunctionOnSet(a, of) = SumFunctionOnSet(p, of) + SumFunctionOnSet(d, of)
        <3> HIDE DEF a, p, d, of
        <3>1. \A i \in of : p[i] \in Int /\ d[i] \in Int /\ a[i] = p[i] + d[i]
            BY <2>4
        <3> QED
            BY <2>6, <3>1, SumSplits
    <2>10. /\ SumFunctionOnSet(a, of) \in Int /\ SumFunctionOnSet(p, of) \in Int
           /\ SumFunctionOnSet(d, of) \in Int
        <3> HIDE DEF a, p, d, of
        <3>1. \A i \in of : p[i] \in Int /\ d[i] \in Int /\ a[i] \in Int
            BY <2>4
        <3> QED
            BY <2>6, <3>1, SumInt
    <2>11. \A r \in held : Budget(r) \in Int
        <3> HIDE DEF a, p, held, of
        <3>1. \A i \in of : P[RowOf(layout, i)] \in Int
            BY <2>4, <2>5
        <3> QED
            BY <2>3, <2>5, <3>1
    <2>12. T[k].value = SumFunctionOnSet(A, held) /\ T[k].budget = SumFunctionOnSet(P, held)
        <3>1. k \in DOMAIN T
            BY <1>5
        <3> QED
            BY <2>11, <3>1, StoredIs
    <2>13. B[k].volume + B[k].price + B[k].mix = SumFunctionOnSet(d, of)
        BY <1>6
    <2> HIDE DEF A, P, a, p, d, of, held, T, B
    <2> QED
        BY <2>7, <2>8, <2>9, <2>10, <2>12, <2>13
<1>8. B \in [DOMAIN B -> [volume : Int, price : Int, mix : Int]]
    <2>1. B = [k \in DOMAIN B |-> B[k]]
        BY <1>2
    <2>2. \A k \in DOMAIN B : B[k] \in [volume : Int, price : Int, mix : Int]
        BY <1>6
    <2> HIDE DEF B
    <2> QED
        BY <2>1, <2>2
<1> HIDE DEF B, T
<1> QED
    BY <1>5, <1>7, <1>8 DEF B, T

-----------------------------------------------------------------------------
(* What a dataset keeps from upload to upload.                             *)

SheetTypes ==
    /\ BookType
    /\ table \in [DOMAIN table -> [value : Int, budget : Int \cup {None}]]
    /\ IsFiniteSet(DOMAIN table)
    /\ \A k \in DOMAIN table : k = <<k[1], k[2]>> /\ k[2] \in Int /\ k[1] \in DOMAIN metrics
    /\ bridges \in [DOMAIN bridges -> [volume : Int, price : Int, mix : Int]]
    /\ DOMAIN bridges \subseteq DOMAIN table
    /\ book = NoBook => DOMAIN metrics \subseteq {Feed} /\ DOMAIN bridges = {}

SheetInv ==
    book # NoBook /\ table # << >> =>
        /\ {<<m[1], m[3]>> : m \in DOMAIN metrics} = Accounts
        /\ \A a \in Accounts, m \in Months : TableSum(table, a, m) = BookSum(book, a, m)

\* All that was sold of an account in a month was budgeted.
AllPlanned(k) ==
    \A i \in Items : i.account = <<k[1][1], k[1][3]>> /\ i.month = k[2] /\ book[i] # None
                         => Plan[i] # None

BridgeInv ==
    \A k \in DOMAIN bridges \ joined : AllPlanned(k) =>
        /\ bridges[k].volume + bridges[k].price + bridges[k].mix
             = table[k].value - table[k].budget
        /\ table[k].budget \in Int

DatasetInv == SheetTypes /\ SheetInv /\ BridgeInv

LEMMA DatasetBegins == MonthEndInit => DatasetInv
<1> SUFFICES ASSUME MonthEndInit  PROVE DatasetInv
    OBVIOUS
<1>1. /\ DOMAIN table = {} /\ DOMAIN bridges = {} /\ DOMAIN metrics = {}
      /\ BookType /\ table = << >> /\ bridges = << >>
    BY DEF MonthEndInit, BookType
<1>2. \A S : << >> \in [{} -> S]
    OBVIOUS
<1>3. IsFiniteSet({})
    BY FS_EmptySet
<1>4. SheetTypes
    <2>1. /\ table \in [{} -> [value : Int, budget : Int \cup {None}]]
          /\ bridges \in [{} -> [volume : Int, price : Int, mix : Int]]
        BY <1>1, <1>2, Zenon
    <2> QED
        BY <1>1, <1>3, <2>1 DEF SheetTypes
<1>5. SheetInv /\ BridgeInv
    BY <1>1 DEF SheetInv, BridgeInv
<1> QED
    BY <1>4, <1>5 DEF DatasetInv

\* What an upload stores.
LEMMA UploadIs ==
    ASSUME NEW layout \in Layouts, NEW idMapped \in BOOLEAN, NEW rollUp,
           \A x \in rollUp : IsRollUp(x, idMapped),
           BookType, Upload(layout, rollUp, idMapped)
    PROVE  LET filled == {RowOf(layout, i) : i \in Known} IN
           /\ book # NoBook /\ book' = book /\ requestVars' = requestVars /\ pc = "idle"
           /\ \/ UNCHANGED bookVars
              \/ /\ DOMAIN metrics' = {MetricOf(layout, i) : i \in Items}
                 /\ table' = StoredRows(layout, filled)
                 /\ bridges' = Bridges(layout, filled)
                 /\ joined' = {}
<1> DEFINE held == CanonicalRows(Written(layout) \cup rollUp, idMapped)
           filled == {RowOf(layout, i) : i \in Known}
<1>1. book # NoBook /\ book' = book /\ requestVars' = requestVars /\ pc = "idle"
    BY Zenon DEF Upload
<1>2. held = {RowOf(layout, i) : i \in Items}
    BY SheetRows
<1>3. Filled(held) = filled
    BY <1>1, <1>2, FilledIs
<1>4. CASE Filled(held) = {}
    BY <1>1, <1>4, Zenon DEF Upload, bookVars
<1>5. CASE Filled(held) # {}
    <2>1. /\ metrics' = [m \in AllMetrics(layout, held) |->
                              ExternalId(layout, Filled(held), m, idMapped)]
          /\ table' = StoredRows(layout, Filled(held))
          /\ bridges' = Bridges(layout, Filled(held))
          /\ joined' = {}
        BY <1>5, Zenon DEF Upload
    <2>2. DOMAIN metrics' = AllMetrics(layout, held)
        BY <2>1
    <2>3. AllMetrics(layout, held) = {MetricOf(layout, i) : i \in Items}
        BY <1>2, KeysAre
    <2> QED
        BY <1>1, <1>3, <2>1, <2>2, <2>3, Zenon
<1> QED
    BY <1>4, <1>5

LEMMA BookStays ==
    ASSUME DatasetInv, UNCHANGED bookVars  PROVE DatasetInv'
<1>1. /\ book' = book /\ metrics' = metrics /\ table' = table /\ bridges' = bridges
      /\ joined' = joined
    BY DEF bookVars
<1>2. SheetTypes'
    BY <1>1 DEF DatasetInv, SheetTypes, BookType
<1>3. SheetInv'
    BY <1>1 DEF DatasetInv, SheetInv
<1>4. BridgeInv'
    BY <1>1 DEF DatasetInv, BridgeInv, AllPlanned
<1> QED
    BY <1>2, <1>3, <1>4 DEF DatasetInv

LEMMA UploadKeeps ==
    ASSUME NEW layout \in Layouts, NEW idMapped \in BOOLEAN, NEW rollUp,
           \A x \in rollUp : IsRollUp(x, idMapped),
           DatasetInv, Upload(layout, rollUp, idMapped)
    PROVE  DatasetInv'
<1> DEFINE filled == {RowOf(layout, i) : i \in Known}
           T == StoredRows(layout, filled)
           B == Bridges(layout, filled)
<1>1. /\ book # NoBook /\ book' = book /\ BookType
      /\ \/ UNCHANGED bookVars
         \/ /\ DOMAIN metrics' = {MetricOf(layout, i) : i \in Items}
            /\ table' = T /\ bridges' = B /\ joined' = {}
    <2>1. BookType
        BY DEF DatasetInv, SheetTypes
    <2> QED
        BY <2>1, UploadIs
<1>2. CASE UNCHANGED bookVars
    BY <1>2, BookStays
<1>3. ASSUME DOMAIN metrics' = {MetricOf(layout, i) : i \in Items},
             table' = T, bridges' = B, joined' = {}
      PROVE  DatasetInv'
    <2>1. /\ T \in [DOMAIN T -> [value : Int, budget : Int \cup {None}]]
          /\ DOMAIN T = Keys(layout, filled)
        BY <1>1, StoredIs, Zenon
    <2>2. Known \in SUBSET Items
        BY DEF Known
    <2>3. DOMAIN T = {<<MetricOf(layout, i), i.month>> : i \in Known} /\ IsFiniteSet(DOMAIN T)
        BY <2>1, <2>2, KeysAre
    <2>4. \A k \in DOMAIN T : k = <<k[1], k[2]>> /\ k[2] \in Int /\ k[1] \in DOMAIN metrics'
        <3> HIDE DEF T
        <3> QED
            BY <1>3, <2>2, <2>3, BooksAssumption
    <2>5. /\ B \in [DOMAIN B -> [volume : Int, price : Int, mix : Int]]
          /\ DOMAIN B \subseteq DOMAIN T
          /\ \A k \in DOMAIN B : AllPlanned(k) =>
                /\ B[k].volume + B[k].price + B[k].mix = T[k].value - T[k].budget
                /\ T[k].budget \in Int
        BY <1>1, BridgesExplain, Zenon DEF AllPlanned
    <2> HIDE DEF B
    <2>6. SheetTypes'
        <3> HIDE DEF T
        <3> QED
            BY <1>1, <1>3, <2>1, <2>3, <2>4, <2>5 DEF SheetTypes, BookType
    <2>7. SheetInv'
        <3>1. {<<m[1], m[3]>> : m \in DOMAIN metrics'} = Accounts
            <4>1. \A i \in Items : <<MetricOf(layout, i)[1], MetricOf(layout, i)[3]>> = i.account
                BY BooksAssumption DEF MetricOf
            <4>2. DOMAIN metrics' = {MetricOf(layout, i) : i \in Items}
                BY <1>3
            <4> QED
                BY <4>1, <4>2, ZenonT(60) DEF Accounts
        <3>2. \A a \in Accounts, m \in Months : TableSum(T, a, m) = BookSum(book, a, m)
            <4> SUFFICES ASSUME NEW a \in Accounts, NEW m
                         PROVE  TableSum(T, a, m) = BookSum(book, a, m)
                OBVIOUS
            <4>1. BookType /\ book # NoBook
                BY <1>1
            <4> QED
                BY <4>1, SheetsAddUp, Zenon
        <3> HIDE DEF T
        <3> QED
            BY <1>1, <1>3, <3>1, <3>2, Zenon DEF SheetInv
    <2>8. BridgeInv'
        <3> HIDE DEF T
        <3> QED
            BY <1>1, <1>3, <2>5 DEF BridgeInv, AllPlanned
    <2> QED
        BY <2>6, <2>7, <2>8 DEF DatasetInv
<1> QED
    BY <1>1, <1>2, <1>3

LEMMA SyncKeeps ==
    ASSUME NEW row \in FeedRows, DatasetInv, SyncRow(row)
    PROVE  DatasetInv'
<1> DEFINE key == <<Feed, row.month>>
<1>1. /\ book = NoBook /\ book' = book /\ bridges' = bridges /\ joined' = joined
      /\ DOMAIN metrics' = {Feed}
      /\ table' = [k \in DOMAIN table \cup {key} |->
                    IF k = key THEN [value |-> row.value, budget |-> row.budget] ELSE table[k]]
    BY DEF SyncRow
<1>2. row.month \in Int /\ row.value \in Int /\ row.budget \in Int \cup {None}
    BY FeedAssumption
<1>3. \A k \in DOMAIN table : k[1] = Feed
    BY <1>1 DEF DatasetInv, SheetTypes
<1>4. IsFiniteSet(DOMAIN table \cup {key})
    BY FS_AddElement DEF DatasetInv, SheetTypes
<1>5. SheetTypes'
    BY <1>1, <1>2, <1>3, <1>4 DEF DatasetInv, SheetTypes, BookType
<1>6. SheetInv' /\ BridgeInv'
    BY <1>1 DEF DatasetInv, SheetTypes, SheetInv, BridgeInv
<1> QED
    BY <1>5, <1>6 DEF DatasetInv

\* A group's budget is an amount.
LEMMA GroupBudgetIs ==
    ASSUME NEW lines \in BudgetFiles, NEW g
    PROVE  GroupBudget(lines, g) \in Int
<1> DEFINE S == {j \in DOMAIN lines : GroupOf(lines[j]) = g}
           f == [i \in S |-> lines[i].value]
<1>1. IsFiniteSet(S) /\ \A i \in S : f[i] \in Int
    BY BudgetAssumption, FS_Subset
<1>2. GroupBudget(lines, g) = SumFunctionOnSet(f, S)
    BY DEF GroupBudget, SumFunction
<1> HIDE DEF S, f
<1> QED
    BY <1>1, <1>2, SumInt

\* A join leaves the rows and their values, and the budgets it does not reach.
LEMMA JoinIs ==
    ASSUME NEW lines \in BudgetFiles, DatasetInv, MatchBudget(lines)
    PROVE  LET reached == {k \in DOMAIN table : Reaching(metrics, table, lines, k) # {}} IN
           /\ book' = book /\ metrics' = metrics /\ bridges' = bridges
           /\ joined' = joined \cup reached /\ requestVars' = requestVars /\ pc = "idle"
           /\ DOMAIN table' = DOMAIN table
           /\ table' \in [DOMAIN table -> [value : Int, budget : Int \cup {None}]]
           /\ \A k \in DOMAIN table :
                 /\ table'[k].value = table[k].value
                 /\ k \in reached => \E g \in Reaching(metrics, table, lines, k) :
                                        table'[k].budget = GroupBudget(lines, g)
                 /\ k \notin reached => table'[k].budget = table[k].budget
<1> DEFINE reached == {k \in DOMAIN table : Reaching(metrics, table, lines, k) # {}}
<1>1. /\ book' = book /\ metrics' = metrics /\ bridges' = bridges
      /\ joined' = joined \cup reached /\ requestVars' = requestVars /\ pc = "idle"
    BY Zenon DEF MatchBudget
<1>2. PICK last \in [reached -> Groups(lines)] :
          /\ \A k \in reached : last[k] \in Reaching(metrics, table, lines, k)
          /\ table' = [k \in DOMAIN table |->
                          IF k \in reached
                          THEN [table[k] EXCEPT !.budget = GroupBudget(lines, last[k])]
                          ELSE table[k]]
    BY Zenon DEF MatchBudget
<1>3. table \in [DOMAIN table -> [value : Int, budget : Int \cup {None}]]
    BY DEF DatasetInv, SheetTypes
<1>4. \A k \in DOMAIN table : GroupBudget(lines, last[k]) \in Int
    BY GroupBudgetIs
<1> HIDE DEF reached
<1>5. DOMAIN table' = DOMAIN table
    BY <1>2
<1>6. ASSUME NEW k \in DOMAIN table
      PROVE  /\ table'[k] \in [value : Int, budget : Int \cup {None}]
             /\ table'[k].value = table[k].value
             /\ k \in reached => table'[k].budget = GroupBudget(lines, last[k])
             /\ k \notin reached => table'[k].budget = table[k].budget
    <2>1. table[k] \in [value : Int, budget : Int \cup {None}]
        BY <1>3
    <2>2. CASE k \in reached
        <3>1. table'[k] = [table[k] EXCEPT !.budget = GroupBudget(lines, last[k])]
            BY <1>2, <2>2
        <3> QED
            BY <1>4, <2>1, <2>2, <3>1
    <2>3. CASE k \notin reached
        <3>1. table'[k] = table[k]
            BY <1>2, <2>3
        <3> QED
            BY <2>1, <2>3, <3>1
    <2> QED
        BY <2>2, <2>3
<1>7. table' \in [DOMAIN table -> [value : Int, budget : Int \cup {None}]]
    <2>1. table' = [k \in DOMAIN table |-> table'[k]]
        BY <1>2
    <2> QED
        BY <1>6, <2>1
<1> QED
    BY <1>1, <1>2, <1>5, <1>6, <1>7 DEF reached

LEMMA TableSumSame ==
    ASSUME NEW t, NEW u, IsFiniteSet(DOMAIN t), DOMAIN u = DOMAIN t,
           \A k \in DOMAIN t : u[k].value = t[k].value, NEW a, NEW m
    PROVE  TableSum(u, a, m) = TableSum(t, a, m)
<1> DEFINE held == {k \in DOMAIN t : <<k[1][1], k[1][3]>> = a /\ k[2] = m}
<1>1. held = {k \in DOMAIN u : <<k[1][1], k[1][3]>> = a /\ k[2] = m}
    OBVIOUS
<1>2. [k \in held |-> u[k].value] = [k \in held |-> t[k].value]
    OBVIOUS
<1> QED
    BY <1>1, <1>2, Zenon DEF TableSum

LEMMA JoinKeeps ==
    ASSUME NEW lines \in BudgetFiles, DatasetInv, MatchBudget(lines)
    PROVE  DatasetInv'
<1> DEFINE reached == {k \in DOMAIN table : Reaching(metrics, table, lines, k) # {}}
<1>1. /\ book' = book /\ metrics' = metrics /\ bridges' = bridges
      /\ joined' = joined \cup reached
      /\ DOMAIN table' = DOMAIN table
      /\ table' \in [DOMAIN table -> [value : Int, budget : Int \cup {None}]]
      /\ \A k \in DOMAIN table :
            /\ table'[k].value = table[k].value
            /\ k \notin reached => table'[k].budget = table[k].budget
    BY JoinIs
<1>2. table # << >>
    BY Zenon DEF MatchBudget
<1> HIDE DEF reached
<1>3. SheetTypes'
    BY <1>1 DEF DatasetInv, SheetTypes, BookType
<1>4. SheetInv'
    <2>1. \A a, m : TableSum(table', a, m) = TableSum(table, a, m)
        <3>1. IsFiniteSet(DOMAIN table)
            BY DEF DatasetInv, SheetTypes
        <3> QED
            BY <1>1, <3>1, TableSumSame
    <2> QED
        BY <1>1, <1>2, <2>1 DEF DatasetInv, SheetInv
<1>5. BridgeInv'
    <2> SUFFICES ASSUME NEW k \in DOMAIN bridges \ joined', AllPlanned(k)'
                 PROVE  /\ bridges'[k].volume + bridges'[k].price + bridges'[k].mix
                             = table'[k].value - table'[k].budget
                        /\ table'[k].budget \in Int
        BY <1>1 DEF BridgeInv
    <2>1. k \in DOMAIN bridges \ joined /\ k \notin reached /\ k \in DOMAIN table
        BY <1>1 DEF DatasetInv, SheetTypes
    <2>2. AllPlanned(k)
        BY <1>1 DEF AllPlanned
    <2>3. table'[k].value = table[k].value /\ table'[k].budget = table[k].budget
        BY <1>1, <2>1
    <2> QED
        BY <1>1, <2>1, <2>2, <2>3 DEF DatasetInv, BridgeInv
<1> QED
    BY <1>3, <1>4, <1>5 DEF DatasetInv

LEMMA DatasetStays == DatasetInv /\ [MonthEndNext]_monthEndVars => DatasetInv'
<1> SUFFICES ASSUME DatasetInv, [MonthEndNext]_monthEndVars  PROVE DatasetInv'
    OBVIOUS
<1>1. ASSUME NEW layout \in Layouts, NEW idMapped \in BOOLEAN, NEW line \in Written(layout),
             NEW rollUp \in {{}} \cup {{r} : r \in {x \in RollUps(line) :
                                             x.label = None \/ x.marked \/ idMapped}},
             Upload(layout, rollUp, idMapped)
      PROVE  DatasetInv'
    <2>1. \A x \in rollUp : x \in RollUps(line) /\ (x.label = None \/ x.marked \/ idMapped)
        OBVIOUS
    <2>2. \A x \in rollUp : IsRollUp(x, idMapped)
        BY <2>1, RollUpsAre
    <2> QED
        BY <1>1, <2>2, UploadKeeps
<1>2. ASSUME NEW row \in FeedRows, SyncRow(row)  PROVE DatasetInv'
    BY <1>2, SyncKeeps
<1>3. ASSUME NEW lines \in BudgetFiles, MatchBudget(lines)  PROVE DatasetInv'
    BY <1>3, JoinKeeps
<1>4. ASSUME UNCHANGED bookVars  PROVE DatasetInv'
    BY <1>4, BookStays
<1>5. ASSUME NEW kind, NEW metric, NEW context, Load(kind, metric, context)
      PROVE  DatasetInv'
    BY <1>4, <1>5, Zenon DEF Load
<1>6. ASSUME NEW t, ModelAnswers(t)  PROVE DatasetInv'
    BY <1>4, <1>6, Zenon DEF ModelAnswers
<1>7. ASSUME ModelFails \/ FinishInsight \/ FinishAnswer \/ Respond  PROVE DatasetInv'
    <2>1. UNCHANGED bookVars
        BY <1>7, Zenon DEF ModelFails, FinishInsight, FinishAnswer, Respond
    <2> QED
        BY <1>4, <2>1
<1>8. CASE UNCHANGED monthEndVars
    BY <1>4, <1>8, Zenon DEF monthEndVars
<1> QED
    BY <1>1, <1>2, <1>3, <1>5, <1>6, <1>7, <1>8, Zenon DEF MonthEndNext

\* Whatever the layout and its roll-ups, the stored rows of an account and month
\* add up to its items (mapping.py normalize and store_normalized).
THEOREM LayoutsSayTheSame == MonthEndSpec => []LayoutsAgree
<1>1. DatasetInv => LayoutsAgree
    BY Zenon DEF DatasetInv, SheetInv, LayoutsAgree, TableSum, BookSum, Amount, SumFunction
<1> QED
    BY <1>1, DatasetBegins, DatasetStays, PTL DEF MonthEndSpec

LEMMA LargestOfThree ==
    ASSUME NEW a \in Int, NEW b \in Int, NEW c \in Int
    PROVE  \/ Abs(b) <= Abs(a) /\ Abs(c) <= Abs(a) /\ Abs(a) <= Abs(a)
           \/ Abs(a) <= Abs(b) /\ Abs(c) <= Abs(b) /\ Abs(b) <= Abs(b)
           \/ Abs(a) <= Abs(c) /\ Abs(b) <= Abs(c) /\ Abs(c) <= Abs(c)
BY DEF Abs

LEMMA FirstInSeq ==
    ASSUME NEW I \in SUBSET (1 .. 3), I # {}
    PROVE  Min(I) \in {1, 2, 3}
<1>1. \E m \in I : \A v \in I : m <= v
    BY LeastIsIn
<1>2. Min(I) \in I
    BY <1>1 DEF Min
<1>3. \A x \in 1 .. 3 : x \in {1, 2, 3}
    OBVIOUS
<1> QED
    BY <1>2, <1>3, Zenon

LEMMA TopIs ==
    ASSUME NEW bridge \in [volume : Int, price : Int, mix : Int]
    PROVE  /\ DOMAIN bridge = {"volume", "price", "mix"}
           /\ TopComponent(bridge) \in {"volume", "price", "mix"}
<1> DEFINE order == <<"volume", "price", "mix">>
           leads(c) == \A d \in DOMAIN bridge : Abs(bridge[d]) <= Abs(bridge[c])
           I == {i \in 1 .. Len(order) : leads(order[i])}
<1>1. DOMAIN bridge = {"volume", "price", "mix"}
    OBVIOUS
<1>2. leads("volume") \/ leads("price") \/ leads("mix")
    <2>1. bridge.volume \in Int /\ bridge.price \in Int /\ bridge.mix \in Int
        OBVIOUS
    <2> QED
        BY <1>1, <2>1, LargestOfThree, Zenon
<1>3. Len(order) = 3 /\ order[1] = "volume" /\ order[2] = "price" /\ order[3] = "mix"
    OBVIOUS
<1> HIDE DEF leads, order
<1>4. I # {} /\ I \in SUBSET (1 .. 3)
    <2>1. 1 \in 1 .. 3 /\ 2 \in 1 .. 3 /\ 3 \in 1 .. 3
        OBVIOUS
    <2>2. 1 \in I \/ 2 \in I \/ 3 \in I
        BY <1>2, <1>3, <2>1, Zenon
    <2> QED
        BY <1>3, <2>2, Zenon
<1>5. Min(I) \in {1, 2, 3}
    <2> HIDE DEF I
    <2> QED
        BY <1>4, FirstInSeq, Zenon
<1>6. TopComponent(bridge) = order[Min(I)]
    BY <1>4, Zenon DEF TopComponent, SelectInSeq, leads, order
<1> QED
    BY <1>1, <1>3, <1>5, <1>6, Zenon

LEMMA SameSign ==
    ASSUME NEW a \in Int, NEW b \in Int, Sign(a) * Sign(b) >= 0
    PROVE  (a >= 0 /\ b >= 0) \/ (a <= 0 /\ b <= 0)
<1>1. CASE a > 0 /\ b < 0
    BY <1>1 DEF Sign
<1>2. CASE a < 0 /\ b > 0
    BY <1>2 DEF Sign
<1> QED
    BY <1>1, <1>2

\* What is left of the sign of a component of a movement in one direction.
LEMMA ShareOfTop ==
    ASSUME NEW b \in Int, NEW w \in Int, (b >= 0 /\ w >= 0) \/ (b <= 0 /\ w <= 0)
    PROVE  100 * Abs(b) * w = 100 * b * Abs(w)
<1>1. CASE b >= 0 /\ w >= 0
    BY <1>1 DEF Abs
<1>2. CASE b <= 0 /\ w <= 0
    <2>1. Abs(b) = -b /\ Abs(w) = -w
        BY <1>2 DEF Abs
    <2>2. 100 * (-b) * w = 100 * b * (-w)
        OBVIOUS
    <2> QED
        BY <2>1, <2>2
<1> QED
    BY <1>1, <1>2

\* A stored bridge explains the variance of its row, and the share of its top
\* component is its part of that variance (pvm.py and root_cause.py).
THEOREM BridgesExplainVariance == MonthEndSpec => []BridgeExplainsVariance
<1>1. DatasetInv => BridgeExplainsVariance
    <2> SUFFICES ASSUME DatasetInv, NEW k \in DOMAIN bridges \ joined, AllPlanned(k)
                 PROVE  LET bridge == bridges[k]
                            variance == table[k].value - table[k].budget
                            top == TopComponent(bridge) IN
                        /\ bridge.volume + bridge.price + bridge.mix = variance
                        /\ (\A c, d \in DOMAIN bridge : Sign(bridge[c]) * Sign(bridge[d]) >= 0) =>
                              PvmShares(bridge)[top][1] * variance
                                = 100 * bridge[top] * Abs(variance)
        BY Zenon DEF BridgeExplainsVariance, AllPlanned
    <2> DEFINE bridge == bridges[k]
               variance == table[k].value - table[k].budget
               top == TopComponent(bridge)
    <2>1. bridge.volume + bridge.price + bridge.mix = variance
        BY DEF DatasetInv, BridgeInv
    <2>2. bridge \in [volume : Int, price : Int, mix : Int]
        BY DEF DatasetInv, SheetTypes
    <2>3. DOMAIN bridge = {"volume", "price", "mix"} /\ top \in {"volume", "price", "mix"}
        BY <2>2, TopIs, Zenon
    <2> HIDE DEF bridge, variance, top
    <2>4. ASSUME \A c, d \in DOMAIN bridge : Sign(bridge[c]) * Sign(bridge[d]) >= 0
          PROVE  PvmShares(bridge)[top][1] * variance = 100 * bridge[top] * Abs(variance)
        <3>1. PvmShares(bridge)[top][1] = 100 * Abs(bridge[top])
            <4>1. top \in DOMAIN bridge
                BY <2>3, Zenon
            <4> QED
                BY <4>1 DEF PvmShares
        <3>2. bridge.volume \in Int /\ bridge.price \in Int /\ bridge.mix \in Int
            BY <2>2
        <3>3. bridge[top] \in {bridge.volume, bridge.price, bridge.mix}
            BY <2>3, Zenon
        <3>4. /\ Sign(bridge.volume) * Sign(bridge.price) >= 0
              /\ Sign(bridge.volume) * Sign(bridge.mix) >= 0
              /\ Sign(bridge.price) * Sign(bridge.mix) >= 0
            BY <2>3, <2>4, Zenon
        <3>5. 100 * Abs(bridge[top]) * variance = 100 * bridge[top] * Abs(variance)
            <4> DEFINE v == bridge.volume
                       p == bridge.price
                       m == bridge.mix
                       b == bridge[top]
            <4>1. variance = v + p + m /\ b \in {v, p, m}
                BY <2>1, <3>3, Zenon
            <4>2. v \in Int /\ p \in Int /\ m \in Int
                BY <3>2
            <4>3. Sign(v) * Sign(p) >= 0 /\ Sign(v) * Sign(m) >= 0 /\ Sign(p) * Sign(m) >= 0
                BY <3>4
            <4> HIDE DEF v, p, m, b
            <4>4. /\ (v >= 0 /\ p >= 0) \/ (v <= 0 /\ p <= 0)
                  /\ (v >= 0 /\ m >= 0) \/ (v <= 0 /\ m <= 0)
                  /\ (p >= 0 /\ m >= 0) \/ (p <= 0 /\ m <= 0)
                BY <4>2, <4>3, SameSign
            <4>5. /\ b \in Int /\ variance \in Int
                  /\ (b >= 0 /\ variance >= 0) \/ (b <= 0 /\ variance <= 0)
                BY <4>1, <4>2, <4>4
            <4>6. 100 * Abs(b) * variance = 100 * b * Abs(variance)
                BY <4>5, ShareOfTop
            <4> QED
                BY <4>6 DEF b
        <3> QED
            BY <3>1, <3>5, Zenon
    <2> QED
        BY <2>1, <2>4, Zenon DEF bridge, variance, top
<1> QED
    BY <1>1, DatasetBegins, DatasetStays, PTL DEF MonthEndSpec

-----------------------------------------------------------------------------
(* Quarters and years.                                                     *)

\* A series of amounts by month.
IsSeries(s) ==
    /\ s \in [DOMAIN s -> [value : Int, budget : Int \cup {None}]]
    /\ DOMAIN s \subseteq Int
    /\ IsFiniteSet(DOMAIN s)

LEMMA SeriesIs ==
    ASSUME DatasetInv, NEW metric
    PROVE  /\ IsSeries(Series(metric))
           /\ \A m \in DOMAIN Series(metric) : <<metric, m>> \in DOMAIN table
<1> DEFINE K == {x \in DOMAIN table : x[1] = metric}
           D == {k[2] : k \in K}
<1>1. \A k \in DOMAIN table : k = <<k[1], k[2]>> /\ k[2] \in Int
    BY DEF DatasetInv, SheetTypes
<1>2. table \in [DOMAIN table -> [value : Int, budget : Int \cup {None}]]
    BY DEF DatasetInv, SheetTypes
<1>3. D \subseteq Int /\ \A m \in D : <<metric, m>> \in DOMAIN table
    BY <1>1
<1>4. IsFiniteSet(D)
    <2> DEFINE f == [k \in K |-> k[2]]
    <2>1. IsFiniteSet(K)
        BY FS_Subset DEF DatasetInv, SheetTypes
    <2>2. D = {f[k] : k \in K}
        OBVIOUS
    <2> HIDE DEF f, D, K
    <2> QED
        BY <2>1, <2>2, ImageIsFinite
<1>5. Series(metric) = [m \in D |-> table[<<metric, m>>]]
    BY DEF Series
<1> HIDE DEF D
<1> QED
    BY <1>2, <1>3, <1>4, <1>5 DEF IsSeries

LEMMA ComparesAsItsCard ==
    ASSUME NEW s, NEW m, NEW d, m - d \in DOMAIN s
    PROVE  compare_periods(s, m - d, m).pct = Change(s[m].value, ValueAt(s, m - d))
BY DEF compare_periods, compute_kpis, ValueAt

LEMMA SumOfIs ==
    ASSUME NEW s, NEW months, NEW field, months # {},
           \A m \in months : s[m][field] \in Int
    PROVE  SumOf(s, months, field) = SumFunctionOnSet([m \in months |-> s[m][field]], months)
<1>1. {m \in months : s[m][field] # None} = months
    BY NoneAssumption
<1> QED
    BY <1>1, Zenon DEF SumOf, SumFunction

\* The months of a year are those of its quarters.
LEMMA QuartersOfYear ==
    ASSUME NEW m \in Int
    PROVE  (m \div 3) \div 4 = m \div 12
OBVIOUS

LEMMA KeysOfMonth ==
    ASSUME NEW m
    PROVE  period_key(m, "quarter") = m \div 3 /\ period_key(m, "year") = m \div 12
<1>1. MonthsIn("quarter") = 3
    BY DEF MonthsIn
<1>2. MonthsIn("year") = 12
    BY DEF MonthsIn
<1> QED
    BY <1>1, <1>2, Zenon DEF period_key

\* A flow of a quarter or a year: the sums of its months.
LEMMA FlowIs ==
    ASSUME NEW s, IsSeries(s), NEW granularity, NEW k,
           NEW m0 \in DOMAIN s, period_key(m0, granularity) = k
    PROVE  LET all == aggregate_series(s, granularity, "flow")
               months == Bucket(s, granularity, k) IN
           /\ k \in DOMAIN all
           /\ all[k].value = SumFunctionOnSet([m \in months |-> s[m].value], months)
           /\ (\A m \in months : s[m].budget # None) =>
                 all[k].budget = SumFunctionOnSet([m \in months |-> s[m].budget], months)
<1> DEFINE all == aggregate_series(s, granularity, "flow")
           months == Bucket(s, granularity, k)
<1>1. k \in {period_key(m, granularity) : m \in DOMAIN s}
    OBVIOUS
<1>2. DOMAIN all = {period_key(m, granularity) : m \in DOMAIN s}
      /\ all[k] = Reduce(s, months, "flow")
    BY <1>1, Zenon DEF aggregate_series
<1>3. Reduce(s, months, "flow") = [value |-> SumOf(s, months, "value"),
                                   budget |-> SumOf(s, months, "budget")]
    BY Zenon DEF Reduce
<1>4. m0 \in months /\ months \subseteq DOMAIN s
    BY DEF Bucket
<1>5. \A m \in months : s[m].value \in Int /\ s[m].budget \in Int \cup {None}
    BY <1>4 DEF IsSeries
<1> HIDE DEF months, all
<1>6. SumOf(s, months, "value") = SumFunctionOnSet([m \in months |-> s[m].value], months)
    BY <1>4, <1>5, SumOfIs
<1>7. ASSUME \A m \in months : s[m].budget # None
      PROVE  SumOf(s, months, "budget") = SumFunctionOnSet([m \in months |-> s[m].budget], months)
    BY <1>4, <1>5, <1>7, SumOfIs
<1> QED
    BY <1>1, <1>2, <1>3, <1>6, <1>7 DEF months, all

LEMMA YearsAddUp ==
    ASSUME NEW s, IsSeries(s), NEW m0 \in DOMAIN s, NEW y, y = m0 \div 12
    PROVE  LET quarters == aggregate_series(s, "quarter", "flow")
               In == {q \in DOMAIN quarters : q \div 4 = y}
               months == Bucket(s, "year", y) IN
           SumFunctionOnSet([q \in In |-> quarters[q].value], In)
           = SumFunctionOnSet([m \in months |-> s[m].value], months)
<1> DEFINE quarters == aggregate_series(s, "quarter", "flow")
           In == {q \in DOMAIN quarters : q \div 4 = y}
           months == Bucket(s, "year", y)
           F == [m \in months |-> s[m].value]
           G == [q \in In |-> quarters[q].value]
           h == [m \in months |-> m \div 3]
<1>1. \A m \in DOMAIN s : s[m].value \in Int /\ m \in Int
    BY DEF IsSeries
<1>2. months = {m \in DOMAIN s : m \div 12 = y} /\ months \subseteq DOMAIN s
    BY KeysOfMonth DEF Bucket
<1>3. DOMAIN quarters = {m \div 3 : m \in DOMAIN s}
    BY KeysOfMonth DEF aggregate_series
<1>4. \A m \in months : F[m] \in Int /\ h[m] \in In
    <2> SUFFICES ASSUME NEW m \in months  PROVE s[m].value \in Int /\ m \div 3 \in In
        OBVIOUS
    <2>1. m \in Int /\ m \div 12 = y /\ m \div 3 \in DOMAIN quarters
        BY <1>1, <1>2, <1>3
    <2>2. (m \div 3) \div 4 = y
        BY <2>1, QuartersOfYear
    <2> HIDE DEF quarters
    <2> QED
        BY <1>1, <1>2, <2>1, <2>2
<1>5. IsFiniteSet(months) /\ IsFiniteSet(In)
    <2> DEFINE f == [m \in DOMAIN s |-> m \div 3]
    <2>1. IsFiniteSet(DOMAIN s)
        BY DEF IsSeries
    <2>2. DOMAIN quarters = {f[m] : m \in DOMAIN s}
        BY <1>3
    <2> HIDE DEF f, quarters, months
    <2>3. IsFiniteSet(DOMAIN quarters)
        BY <2>1, <2>2, ImageIsFinite
    <2> QED
        BY <1>2, <2>1, <2>3, FS_Subset
<1>6. ASSUME NEW q \in In  PROVE G[q] = SumFunctionOnSet(F, {m \in months : h[m] = q})
    <2> DEFINE of == Bucket(s, "quarter", q)
    <2>1. PICK m1 \in DOMAIN s : q = m1 \div 3
        BY <1>3
    <2>2. period_key(m1, "quarter") = q
        BY <2>1, KeysOfMonth
    <2>3. quarters[q].value = SumFunctionOnSet([m \in of |-> s[m].value], of)
        BY <2>2, FlowIs, Zenon
    <2>4. of = {m \in months : h[m] = q}
        <3>1. of = {m \in DOMAIN s : m \div 3 = q}
            BY KeysOfMonth DEF Bucket
        <3>2. \A m \in DOMAIN s : m \div 3 = q => m \div 12 = y
            <4> SUFFICES ASSUME NEW m \in DOMAIN s, m \div 3 = q  PROVE m \div 12 = y
                OBVIOUS
            <4>1. q \div 4 = y
                OBVIOUS
            <4> QED
                BY <1>1, <4>1, QuartersOfYear
        <3> HIDE DEF of, months
        <3> QED
            BY <1>2, <3>1, <3>2
    <2>5. IsFiniteSet(of)
        BY <1>5, <2>4, FS_Subset
    <2>6. \A m \in of : [x \in of |-> s[x].value][m] = F[m]
        BY <2>4
    <2> HIDE DEF of, F
    <2>7. SumFunctionOnSet([m \in of |-> s[m].value], of) = SumFunctionOnSet(F, of)
        BY <2>5, <2>6, SumSame
    <2>8. G[q] = quarters[q].value
        BY <1>6
    <2> QED
        BY <2>3, <2>4, <2>7, <2>8, Zenon
<1>7. SumFunctionOnSet(G, In) = SumFunctionOnSet(F, months)
    <2> HIDE DEF G, F, In, months, h
    <2>1. Parted(months, In, h, F, G)
        BY <1>4, <1>5, <1>6 DEF Parted
    <2> QED
        BY <2>1, SumByParts
<1> QED
    BY <1>7

LEMMA YearVaries ==
    ASSUME NEW s, IsSeries(s), NEW months \in SUBSET DOMAIN s,
           \A m \in months : s[m].budget # None
    PROVE  LET V == [m \in months |-> s[m].value]
               B == [m \in months |-> s[m].budget]
               D == [m \in months |-> compute_kpis(s, m).var] IN
           /\ SumFunctionOnSet(B, months) \in Int
           /\ SumFunctionOnSet(V, months) - SumFunctionOnSet(B, months)
                = SumFunctionOnSet(D, months)
<1> DEFINE V == [m \in months |-> s[m].value]
           B == [m \in months |-> s[m].budget]
           D == [m \in months |-> compute_kpis(s, m).var]
<1>1. \A m \in months : s[m].value \in Int /\ s[m].budget \in Int
    BY DEF IsSeries
<1>2. \A m \in months : compute_kpis(s, m).var = s[m].value - s[m].budget
    BY <1>1 DEF compute_kpis, Variance
<1>3. \A m \in months : B[m] \in Int /\ D[m] \in Int /\ V[m] = B[m] + D[m]
    BY <1>1, <1>2
<1>4. IsFiniteSet(months)
    BY FS_Subset DEF IsSeries
<1> HIDE DEF V, B, D
<1>5. SumFunctionOnSet(V, months) = SumFunctionOnSet(B, months) + SumFunctionOnSet(D, months)
    BY <1>3, <1>4, SumSplits
<1>6. SumFunctionOnSet(B, months) \in Int /\ SumFunctionOnSet(D, months) \in Int
    BY <1>3, <1>4, SumInt
<1>7. SumFunctionOnSet(V, months) - SumFunctionOnSet(B, months) = SumFunctionOnSet(D, months)
    BY <1>5, <1>6
<1> QED
    BY <1>6, <1>7 DEF V, B, D

\* Years are the sums of their quarters and compare as their cards do
\* (aggregate.py, correlations.py).
THEOREM GranularitiesSayTheSame == MonthEndSpec => []GranularitiesAgree
<1>1. DatasetInv => GranularitiesAgree
    <2> SUFFICES ASSUME DatasetInv, NEW metric \in DOMAIN metrics
        PROVE LET s == Series(metric)
                  quarters == aggregate_series(s, "quarter", "flow")
                  In(y) == {q \in DOMAIN quarters : q \div 4 = y} IN
              /\ \A m \in DOMAIN s :
                    /\ m - 1 \in DOMAIN s => compare_periods(s, m - 1, m).pct = compute_kpis(s, m).mom
                    /\ m - 12 \in DOMAIN s => compare_periods(s, m - 12, m).pct = compute_kpis(s, m).yoy
              /\ \A y \in {m \div 12 : m \in DOMAIN s} :
                  LET card == AggregatedFact(s, "year", "flow", y)
                      months == Bucket(s, "year", y) IN
                  /\ card.value = SumFunction([q \in In(y) |-> quarters[q].value])
                  /\ (\A m \in months : s[m].budget # None) =>
                        card.var = SumFunction([m \in months |-> compute_kpis(s, m).var])
        BY Zenon DEF GranularitiesAgree
    <2> DEFINE s == Series(metric)
               quarters == aggregate_series(s, "quarter", "flow")
               In(y) == {q \in DOMAIN quarters : q \div 4 = y}
    <2>1. IsSeries(s)
        BY SeriesIs
    <2> HIDE DEF s
    <2>2. ASSUME NEW m \in DOMAIN s
          PROVE  /\ m - 1 \in DOMAIN s => compare_periods(s, m - 1, m).pct = compute_kpis(s, m).mom
                 /\ m - 12 \in DOMAIN s => compare_periods(s, m - 12, m).pct = compute_kpis(s, m).yoy
        BY ComparesAsItsCard DEF compute_kpis
    <2>3. ASSUME NEW m0 \in DOMAIN s, NEW y, y = m0 \div 12
          PROVE  LET card == AggregatedFact(s, "year", "flow", y)
                     months == Bucket(s, "year", y) IN
                 /\ card.value = SumFunction([q \in In(y) |-> quarters[q].value])
                 /\ (\A m \in months : s[m].budget # None) =>
                       card.var = SumFunction([m \in months |-> compute_kpis(s, m).var])
        <3> DEFINE card == AggregatedFact(s, "year", "flow", y)
                   months == Bucket(s, "year", y)
                   all == aggregate_series(s, "year", "flow")
                   V == SumFunctionOnSet([m \in months |-> s[m].value], months)
                   B == SumFunctionOnSet([m \in months |-> s[m].budget], months)
        <3>1. period_key(m0, "year") = y
            BY <2>3, KeysOfMonth
        <3>2. /\ all[y].value = V
              /\ (\A m \in months : s[m].budget # None) => all[y].budget = B
            BY <2>1, <3>1, FlowIs, Zenon
        <3>3. card.value = all[y].value /\ card.var = Variance(all[y].value, all[y].budget)
            BY DEF AggregatedFact
        <3>4. SumFunction([q \in In(y) |-> quarters[q].value]) = V
            <4>1. SumFunctionOnSet([q \in In(y) |-> quarters[q].value], In(y)) = V
                BY <2>1, <2>3, YearsAddUp, Zenon
            <4> QED
                BY <4>1, Zenon DEF SumFunction
        <3>5. ASSUME \A m \in months : s[m].budget # None
              PROVE  card.var = SumFunction([m \in months |-> compute_kpis(s, m).var])
            <4>1. months \in SUBSET DOMAIN s
                BY DEF Bucket
            <4>2. /\ B \in Int
                  /\ V - B = SumFunctionOnSet([m \in months |-> compute_kpis(s, m).var], months)
                <5> HIDE DEF months
                <5> QED
                    BY <2>1, <3>5, <4>1, YearVaries, Zenon
            <4>3. card.var = V - B
                <5>1. B # None
                    BY <4>2, NoneAssumption
                <5> QED
                    BY <3>2, <3>3, <3>5, <5>1, Zenon DEF Variance
            <4> QED
                BY <4>2, <4>3, Zenon DEF SumFunction
        <3> QED
            BY <3>2, <3>3, <3>4, <3>5, Zenon
    <2>4. \A y \in {m \div 12 : m \in DOMAIN s} : \E m0 \in DOMAIN s : y = m0 \div 12
        OBVIOUS
    <2> QED
        BY <2>2, <2>3, <2>4, Zenon DEF s
<1> QED
    BY <1>1, DatasetBegins, DatasetStays, PTL DEF MonthEndSpec

-----------------------------------------------------------------------------
(* Streaks.                                                                *)

\* m is a month whose value moved from that of the month before, other than
\* zero, the way d says.
Moves(s, m, d) ==
    /\ {m - 1, m} \subseteq DOMAIN s
    /\ s[m - 1].value # 0
    /\ d * (s[m].value - s[m - 1].value) > 0

LEMMA DirectionOf ==
    ASSUME NEW v \in Int, NEW b \in Int, NEW d \in {-1, 1}
    PROVE  d * (v - b) > 0 <=> Sign(100 * (v - b)) = d
<1>1. CASE d = 1
    BY <1>1 DEF Sign
<1>2. CASE d = -1
    BY <1>2 DEF Sign
<1> QED
    BY <1>1, <1>2

LEMMA MovesIs ==
    ASSUME NEW s, IsSeries(s), NEW p \in Int, NEW m \in Int, m <= p, NEW d \in {-1, 1}
    PROVE  Moves(s, m, d) <=> m \in History(s, p) /\ Direction(s, m) = d
<1> DEFINE mom == compute_kpis(s, m).mom
<1>1. mom = Change(s[m].value, ValueAt(s, m - 1))
    BY DEF compute_kpis
<1>2. CASE ~({m - 1, m} \subseteq DOMAIN s)
    <2>1. m \in DOMAIN s => mom = None
        BY <1>1, <1>2 DEF ValueAt, Change
    <2> QED
        BY <1>2, <2>1 DEF Moves, History
<1>3. CASE {m - 1, m} \subseteq DOMAIN s
    <2> DEFINE v == s[m].value
               b == s[m - 1].value
    <2>1. v \in Int /\ b \in Int
        BY <1>3 DEF IsSeries
    <2>2. mom = Change(v, b)
        BY <1>1, <1>3 DEF ValueAt
    <2>3. CASE b = 0
        <3>1. mom = None
            BY <2>2, <2>3 DEF Change
        <3> QED
            BY <2>3, <3>1 DEF Moves, History
    <2>4. CASE b # 0
        <3>1. mom = <<100 * (v - b), Abs(b)>>
            BY <2>1, <2>2, <2>4, NoneAssumption DEF Change
        <3>2. 100 * (v - b) \in Int /\ Abs(b) \in Int
            BY <2>1 DEF Abs
        <3>3. mom # None
            BY <3>1, <3>2, NoneAssumption
        <3>4. m \in History(s, p)
            BY <1>3, <3>3 DEF History
        <3>5. Direction(s, m) = Sign(100 * (v - b))
            <4> HIDE DEF v, b
            <4>1. Direction(s, m) = Sign(mom[1])
                BY Zenon DEF Direction
            <4>2. mom[1] = 100 * (v - b)
                BY <3>1
            <4> QED
                BY <4>1, <4>2, Zenon
        <3>6. Moves(s, m, d) <=> d * (v - b) > 0
            BY <1>3, <2>4 DEF Moves
        <3>7. d * (v - b) > 0 <=> Sign(100 * (v - b)) = d
            BY <2>1, DirectionOf
        <3> QED
            BY <3>4, <3>5, <3>6, <3>7, Zenon
    <2> QED
        BY <2>3, <2>4
<1> QED
    BY <1>2, <1>3

\* A run is all the months from some month on.
LEMMA RunIs ==
    ASSUME NEW s, IsSeries(s), NEW p \in Int, p \in History(s, p)
    PROVE  \E n \in Nat \ {0} : /\ Run(s, p) = p - n + 1 .. p
                                /\ p - n \notin Run(s, p)
                                /\ Cardinality(Run(s, p)) = n
<1> DEFINE R == Run(s, p)
           D == {n \in Nat : p - n \notin R}
<1>1. R \subseteq Int /\ IsFiniteSet(R) /\ \A m \in R : m <= p
    <2>1. R \in SUBSET DOMAIN s /\ \A m \in R : m <= p
        BY DEF Run, History
    <2> HIDE DEF R
    <2> QED
        BY <2>1, FS_Subset DEF IsSeries
<1>2. p \in R
    BY DEF Run
<1>3. ASSUME NEW m \in R, NEW k \in m .. p  PROVE k \in R
    <2>1. m \in Int /\ \A j \in m .. p : j \in History(s, p) /\ Direction(s, j) = Direction(s, p)
        BY <1>1 DEF Run
    <2>2. \A j \in k .. p : j \in m .. p
        BY <2>1
    <2>3. k \in History(s, p)
        BY <2>1
    <2> QED
        BY <2>1, <2>2, <2>3 DEF Run
<1> HIDE DEF R
<1>4. D # {}
    <2> SUFFICES ASSUME \A n \in Nat : p - n \in R  PROVE FALSE
        OBVIOUS
    <2> DEFINE N == Cardinality(R)
    <2>1. N \in Nat
        BY <1>1, FS_CardinalityType
    <2>2. p - N .. p \in SUBSET R
        <3> SUFFICES ASSUME NEW k \in p - N .. p  PROVE k \in R
            OBVIOUS
        <3>1. p - k \in Nat /\ p - (p - k) = k
            BY <2>1
        <3> QED
            BY <3>1
    <2>3. Cardinality(p - N .. p) <= N
        BY <1>1, <2>2, FS_Subset
    <2>4. Cardinality(p - N .. p) = N + 1
        <3> HIDE DEF N
        <3>1. p - N \in Int /\ ~(p - N > p) /\ p - (p - N) + 1 = N + 1
            BY <2>1
        <3> QED
            BY <3>1, FS_Interval
    <2> QED
        BY <2>1, <2>3, <2>4
<1>5. PICK n \in D : \A j \in D : n <= j
    <2> HIDE DEF D
    <2>1. D \in SUBSET Nat
        BY DEF D
    <2> QED
        BY <1>4, <2>1, LeastIsIn
<1>6. n \in Nat \ {0}
    BY <1>2, <1>5
<1>7. ASSUME NEW k \in R  PROVE k \in p - n + 1 .. p
    <2>1. k \in Int /\ k <= p
        BY <1>1
    <2>2. ~(k <= p - n)
        <3> SUFFICES ASSUME k <= p - n  PROVE FALSE
            OBVIOUS
        <3>1. p - n \in k .. p
            BY <1>6, <2>1
        <3> QED
            BY <1>3, <1>5, <3>1
    <2> QED
        BY <1>6, <2>1, <2>2
<1>8. ASSUME NEW k \in p - n + 1 .. p  PROVE k \in R
    <2>1. p - k \in Nat /\ ~(n <= p - k) /\ p - (p - k) = k
        BY <1>6
    <2>2. p - k \notin D
        BY <1>5, <2>1
    <2> QED
        BY <2>1, <2>2
<1>9. R = p - n + 1 .. p
    BY <1>7, <1>8
<1>10. Cardinality(p - n + 1 .. p) = n
    <2>1. p - n + 1 \in Int /\ ~(p - n + 1 > p) /\ p - (p - n + 1) + 1 = n
        BY <1>6
    <2> QED
        BY <2>1, FS_Interval
<1>11. p - n \notin R
    BY <1>5
<1> QED
    BY <1>6, <1>9, <1>10, <1>11 DEF R

\* n months up to p moved the way d says, and the one before them did not.
IsRun(s, p, n, d) == (\A k \in p - n + 1 .. p : Moves(s, k, d)) /\ ~Moves(s, p - n, d)

LEMMA RunMoves ==
    ASSUME NEW s, IsSeries(s), NEW p \in Int, p \in History(s, p), Direction(s, p) # 0
    PROVE  IsRun(s, p, Cardinality(Run(s, p)), Direction(s, p))
<1> DEFINE d == Direction(s, p)
<1>1. d \in {-1, 1}
    BY DEF Direction, Sign
<1>2. PICK n \in Nat \ {0} : /\ Run(s, p) = p - n + 1 .. p
                             /\ p - n \notin Run(s, p)
                             /\ Cardinality(Run(s, p)) = n
    BY RunIs
<1> HIDE DEF d
<1>3. ASSUME NEW k \in p - n + 1 .. p  PROVE Moves(s, k, d)
    <2>1. k \in Int /\ k <= p /\ k \in k .. p
        BY <1>2
    <2>2. k \in History(s, p) /\ Direction(s, k) = d
        BY <1>2, <2>1 DEF Run, d
    <2> QED
        BY <1>1, <2>1, <2>2, MovesIs
<1>4. ASSUME Moves(s, p - n, d)  PROVE FALSE
    <2>1. p - n \in Int /\ p - n <= p
        BY <1>2
    <2>2. p - n \in History(s, p) /\ Direction(s, p - n) = d
        BY <1>1, <1>4, <2>1, MovesIs
    <2>3. ASSUME NEW k \in (p - n) .. p
          PROVE  k \in History(s, p) /\ Direction(s, k) = d
        <3>1. CASE k = p - n
            BY <2>2, <3>1
        <3>2. CASE k # p - n
            <4>1. k \in p - n + 1 .. p /\ k \in Int /\ k <= p
                BY <1>2, <2>1, <3>2
            <4> QED
                BY <1>1, <1>3, <4>1, MovesIs
        <3> QED
            BY <3>1, <3>2
    <2>4. p - n \in Run(s, p)
        BY <2>2, <2>3 DEF Run, d
    <2> QED
        BY <1>2, <2>4
<1> QED
    BY <1>2, <1>3, <1>4 DEF IsRun, d

LEMMA OnlyTheRun ==
    ASSUME NEW s, IsSeries(s), NEW p \in Int, NEW n \in Nat \ {0}, NEW d \in {-1, 1},
           IsRun(s, p, n, d)
    PROVE  p \in History(s, p) /\ Direction(s, p) = d /\ Cardinality(Run(s, p)) = n
<1>1. p \in p - n + 1 .. p
    OBVIOUS
<1>2. p \in History(s, p) /\ Direction(s, p) = d
    BY <1>1, MovesIs DEF IsRun
<1>3. PICK c \in Nat \ {0} : /\ Run(s, p) = p - c + 1 .. p
                             /\ Cardinality(Run(s, p)) = c
    BY <1>2, RunIs
<1>4. p - n \notin Run(s, p)
    <2> SUFFICES ASSUME p - n \in Run(s, p)  PROVE FALSE
        OBVIOUS
    <2>1. p - n \in Int /\ p - n <= p /\ p - n \in (p - n) .. p
        OBVIOUS
    <2>2. p - n \in History(s, p) /\ Direction(s, p - n) = d
        BY <1>2, <2>1 DEF Run
    <2> QED
        BY <2>1, <2>2, MovesIs DEF IsRun
<1>5. p - n + 1 \in Run(s, p)
    <2>1. p - n + 1 \in p - n + 1 .. p
        OBVIOUS
    <2>2. ASSUME NEW k \in p - n + 1 .. p
          PROVE  k \in History(s, p) /\ Direction(s, k) = Direction(s, p)
        <3>1. k \in Int /\ k <= p
            OBVIOUS
        <3> QED
            BY <1>2, <3>1, MovesIs DEF IsRun
    <2> QED
        BY <2>1, <2>2 DEF Run
<1>6. p - n \notin p - c + 1 .. p /\ p - n + 1 \in p - c + 1 .. p
    BY <1>3, <1>4, <1>5
<1>7. c = n
    BY <1>3, <1>6
<1> QED
    BY <1>2, <1>3, <1>7

\* The streak of a month is the longest run that ends there (correlations.py).
THEOREM StreaksAreRuns == MonthEndSpec => []StreakIsMonotoneRun
<1>1. DatasetInv => StreakIsMonotoneRun
    <2> SUFFICES ASSUME DatasetInv, NEW metric \in DOMAIN metrics,
                        NEW p \in DOMAIN Series(metric)
        PROVE LET s == Series(metric)
                  streak == streak_from_history(s, p) IN
              IF streak.months = 0
              THEN \A d \in {-1, 1}, n \in 1 .. Cardinality(DOMAIN s) :
                      IsRun(s, p, n, d) => n < MinMonths
              ELSE streak.months >= MinMonths /\ IsRun(s, p, streak.months, streak.direction)
        BY Zenon DEF StreakIsMonotoneRun, IsRun, Moves
    <2> DEFINE s == Series(metric)
               streak == streak_from_history(s, p)
               c == Cardinality(Run(s, p))
    <2>1. IsSeries(s) /\ p \in Int
        BY SeriesIs DEF IsSeries
    <2> HIDE DEF s
    <2>2. CASE p \in History(s, p) /\ Direction(s, p) # 0 /\ c >= MinMonths
        <3>1. streak = [months |-> c, direction |-> Direction(s, p)]
            BY <2>2, Zenon DEF streak_from_history
        <3>2. c \in Nat \ {0}
            BY <2>1, <2>2, RunIs
        <3>3. IsRun(s, p, c, Direction(s, p))
            BY <2>1, <2>2, RunMoves
        <3> HIDE DEF c, streak
        <3>4. streak.months = c /\ streak.direction = Direction(s, p) /\ c # 0
            BY <3>1, <3>2
        <3> QED
            BY <2>2, <3>3, <3>4, Zenon DEF s, streak, c
    <2>3. CASE ~(p \in History(s, p) /\ Direction(s, p) # 0 /\ c >= MinMonths)
        <3>1. streak = [months |-> 0, direction |-> 0]
            BY <2>3, Zenon DEF streak_from_history
        <3>2. ASSUME NEW d \in {-1, 1}, NEW n \in 1 .. Cardinality(DOMAIN s), IsRun(s, p, n, d)
              PROVE  n < MinMonths
            <4>1. n \in Nat \ {0}
                <5>1. Cardinality(DOMAIN s) \in Nat
                    BY <2>1, FS_CardinalityType DEF IsSeries
                <5> QED
                    BY <5>1
            <4>2. p \in History(s, p) /\ Direction(s, p) = d /\ c = n
                BY <2>1, <3>2, <4>1, OnlyTheRun
            <4>3. ~(n >= MinMonths)
                BY <2>3, <4>2
            <4> QED
                BY <4>1, <4>3, MinMonthsAssumption
        <3> HIDE DEF streak
        <3>3. streak.months = 0
            BY <3>1
        <3> QED
            BY <3>2, <3>3, Zenon DEF s, streak
    <2> QED
        BY <2>2, <2>3
<1> QED
    BY <1>1, DatasetBegins, DatasetStays, PTL DEF MonthEndSpec

-----------------------------------------------------------------------------
(* What requests bill.                                                     *)

\* The calls a request has made are the calls it has billed, until it dies; it
\* dies before it has a second call.
BillingInv ==
    /\ calls \in Nat
    /\ pc \in {"idle", "first", "retry", "finish", "shown"}
    /\ billed = IF pc = "idle" THEN 0 ELSE calls
    /\ pc \in {"idle", "retry"} => calls <= 1
    /\ pc = "first" => calls = 0
    /\ pc \in {"first", "retry", "finish"} => insight.kind = None
    /\ pc = "idle" => insight.kind \in {None, "none"}
    /\ pc = "shown" => insight.kind \in {"insight", "ask"}

LEMMA BillingBegins == MonthEndInit => BillingInv
BY DEF MonthEndInit, BillingInv, NoInsight

LEMMA BillingStays == BillingInv /\ [MonthEndNext]_monthEndVars => BillingInv'
<1> SUFFICES ASSUME BillingInv, [MonthEndNext]_monthEndVars  PROVE BillingInv'
    OBVIOUS
<1> USE DEF BillingInv
<1>1. ASSUME UNCHANGED requestVars  PROVE BillingInv'
    BY <1>1 DEF requestVars
<1>2. ASSUME NEW layout, NEW rollUp, NEW idMapped, Upload(layout, rollUp, idMapped)
      PROVE  BillingInv'
    BY <1>1, <1>2, Zenon DEF Upload
<1>3. ASSUME NEW row, SyncRow(row)  PROVE BillingInv'
    BY <1>1, <1>3, Zenon DEF SyncRow
<1>4. ASSUME NEW lines, MatchBudget(lines)  PROVE BillingInv'
    BY <1>1, <1>4, Zenon DEF MatchBudget
<1>5. ASSUME NEW kind, NEW metric, NEW context, Load(kind, metric, context)
      PROVE  BillingInv'
    <2>1. /\ pc' = "first" /\ calls' = 0 /\ billed' = 0 /\ insight' = NoInsight
        BY <1>5, Zenon DEF Load
    <2> QED
        BY <2>1 DEF NoInsight
<1>6. ASSUME NEW t, ModelAnswers(t)  PROVE BillingInv'
    <2>1. /\ pc \in {"first", "retry"} /\ calls' = calls + 1 /\ billed' = billed + 1
          /\ pc' = "finish" \/ (pc = "first" /\ pc' = "retry")
          /\ insight' = insight
        BY <1>6, Zenon DEF ModelAnswers, Tokens
    <2> QED
        BY <2>1
<1>7. ASSUME ModelFails  PROVE BillingInv'
    <2>1. CASE pc = "retry" /\ request.kind = "ask"
        <3>1. pc' = "finish" /\ calls' = calls /\ billed' = billed /\ insight' = insight
            BY <1>7, <2>1, Zenon DEF ModelFails
        <3> QED
            BY <2>1, <3>1
    <2>2. CASE ~(pc = "retry" /\ request.kind = "ask")
        <3>1. pc \in {"first", "retry"} /\ pc' = "idle" /\ calls' = calls /\ billed' = 0
              /\ insight' = [NoInsight EXCEPT !.kind = "none"]
            BY <1>7, <2>2, Zenon DEF ModelFails
        <3>2. insight'.kind = "none"
            BY <3>1 DEF NoInsight
        <3> QED
            BY <3>1, <3>2
    <2> QED
        BY <2>1, <2>2
<1>8. ASSUME FinishInsight  PROVE BillingInv'
    <2>1. /\ pc = "finish" /\ pc' = "shown" /\ calls' = calls /\ billed' = billed
          /\ insight'.kind = "insight"
        BY <1>8 DEF FinishInsight
    <2> QED
        BY <2>1
<1>9. ASSUME FinishAnswer  PROVE BillingInv'
    <2>1. /\ pc = "finish" /\ pc' = "shown" /\ calls' = calls /\ billed' = billed
          /\ insight'.kind = "ask"
        BY <1>9 DEF FinishAnswer, NoInsight
    <2> QED
        BY <2>1
<1>10. ASSUME Respond  PROVE BillingInv'
    BY <1>10 DEF Respond, NoInsight
<1>11. CASE UNCHANGED monthEndVars
    BY <1>1, <1>11 DEF monthEndVars
<1>12. QED
    BY <1>2, <1>3, <1>4, <1>5, <1>6, <1>7, <1>8, <1>9, <1>10, <1>11, Zenon DEF MonthEndNext

\* A request that returned a text has billed its calls, and at most one call of
\* a request that died is unbilled (services.log_llm_call).
THEOREM BillsWhatItCalls == MonthEndSpec => []UnbilledOnlyWhenRetryDies
<1>1. BillingInv => UnbilledOnlyWhenRetryDies
    BY NoneAssumption DEF BillingInv, UnbilledOnlyWhenRetryDies
<1>2. QED
    BY <1>1, BillingBegins, BillingStays, PTL DEF MonthEndSpec

-----------------------------------------------------------------------------
(* Insights and answers.                                                   *)

Fractions == Int \X (Nat \ {0})

FactTypes(fact) ==
    /\ fact.value \in Int
    /\ fact.prior \in Int \cup {None} /\ fact.var \in Int \cup {None}
    /\ fact.mom \in Fractions \cup {None} /\ fact.yoy \in Fractions \cup {None}
    /\ fact.varPct \in Fractions \cup {None}
    /\ fact.bridge \in [volume : Int, price : Int, mix : Int] \cup {None}
    /\ fact.unit \in {"USD", "count", "%"}
    /\ fact.name.figures \subseteq Figured /\ fact.name.words \subseteq Int

LEMMA ChangeType ==
    ASSUME NEW v \in Int, NEW base \in Int \cup {None}
    PROVE  Change(v, base) \in Fractions \cup {None}
BY NoneAssumption DEF Change, Fractions, Abs

LEMMA KpiTypes ==
    ASSUME NEW s, \A k \in DOMAIN s : s[k] \in [value : Int, budget : Int \cup {None}],
           NEW m \in DOMAIN s
    PROVE  LET f == compute_kpis(s, m) IN
           /\ f.value \in Int
           /\ f.prior \in Int \cup {None} /\ f.var \in Int \cup {None}
           /\ f.mom \in Fractions \cup {None} /\ f.yoy \in Fractions \cup {None}
           /\ f.varPct \in Fractions \cup {None}
<1>1. \A k : ValueAt(s, k) \in Int \cup {None}
  BY DEF ValueAt
<1>2. s[m].value \in Int /\ s[m].budget \in Int \cup {None}
  OBVIOUS
<1>3. Variance(s[m].value, s[m].budget) \in Int \cup {None}
  BY <1>2, NoneAssumption DEF Variance
<1>4. QED
  BY <1>1, <1>2, <1>3, ChangeType DEF compute_kpis

LEMMA FactOfIs ==
    ASSUME NEW metric, NEW m
    PROVE  LET f == compute_kpis(Series(metric), m)
               g == FactOf(metric, m) IN
           /\ g.value = f.value /\ g.prior = f.prior /\ g.mom = f.mom /\ g.yoy = f.yoy
           /\ g.var = f.var /\ g.varPct = f.varPct
           /\ g.bridge = IF <<metric, m>> \in DOMAIN bridges THEN bridges[<<metric, m>>] ELSE None
           /\ g.unit = Naming(metric).unit
           /\ g.name.figures = Naming(metric).figures /\ g.name.words = Naming(metric).words
BY DEF FactOf, compute_kpis

\* What a metric's name and unit are.
LEMMA NamingIs ==
    ASSUME NEW metric
    PROVE  /\ Naming(metric).unit \in {"USD", "count", "%"}
           /\ Naming(metric).figures \subseteq Figured
           /\ Naming(metric).words \subseteq Int
BY NamesAssumption DEF Naming

LEMMA GreatestIsIn ==
    ASSUME NEW S, IsFiniteSet(S), S \subseteq Int, S # {}
    PROVE  Max(S) \in S
<1> DEFINE C == {T \in SUBSET S : T # {} => \E m \in T : \A v \in T : m >= v}
<1>1. {} \in C
    OBVIOUS
<1>2. ASSUME NEW T \in SUBSET S, T # {}, \A x \in T : T \ {x} \in C
      PROVE  T \in C
    <2>1. PICK x \in T : TRUE
        BY <1>2
    <2>2. CASE T \ {x} = {}
        BY <2>1, <2>2
    <2>3. CASE T \ {x} # {}
        <3>1. PICK m \in T \ {x} : \A v \in T \ {x} : m >= v
            BY <1>2, <2>1, <2>3
        <3>2. CASE m >= x
            BY <2>1, <3>1, <3>2
        <3>3. CASE x >= m
            <4>1. \A v \in T : x >= v
                BY <2>1, <3>1, <3>3
            <4> QED
                BY <2>1, <4>1
        <3> QED
            BY <2>1, <3>1, <3>2, <3>3
    <2> QED
        BY <2>2, <2>3
<1>3. SUBSET S \subseteq C
    <2> HIDE DEF C
    <2> QED
        BY <1>1, <1>2, SubsetsFill
<1>4. \E m \in S : \A v \in S : m >= v
    BY <1>3
<1> QED
    BY <1>4 DEF Max

\* The newest month of a metric has a fact.
LEMMA NewestFact ==
    ASSUME DatasetInv, NEW metric, DOMAIN Series(metric) # {}
    PROVE  FactTypes(FactOf(metric, Max(DOMAIN Series(metric))))
<1> DEFINE s == Series(metric)
           m == Max(DOMAIN s)
<1>1. IsSeries(s)
    BY SeriesIs
<1> HIDE DEF s
<1>2. m \in DOMAIN s
    BY <1>1, GreatestIsIn DEF IsSeries, s
<1>3. \A k \in DOMAIN s : s[k] \in [value : Int, budget : Int \cup {None}]
    BY <1>1 DEF IsSeries
<1> HIDE DEF m
<1>4. LET f == compute_kpis(s, m) IN
        /\ f.value \in Int
        /\ f.prior \in Int \cup {None} /\ f.var \in Int \cup {None}
        /\ f.mom \in Fractions \cup {None} /\ f.yoy \in Fractions \cup {None}
        /\ f.varPct \in Fractions \cup {None}
    BY <1>2, <1>3, KpiTypes
<1>5. \A k \in DOMAIN bridges : bridges[k] \in [volume : Int, price : Int, mix : Int]
    BY DEF DatasetInv, SheetTypes
<1>6. LET f == compute_kpis(s, m)
          g == FactOf(metric, m) IN
        /\ g.value = f.value /\ g.prior = f.prior /\ g.mom = f.mom /\ g.yoy = f.yoy
        /\ g.var = f.var /\ g.varPct = f.varPct
        /\ g.bridge = IF <<metric, m>> \in DOMAIN bridges THEN bridges[<<metric, m>>] ELSE None
        /\ g.unit = Naming(metric).unit
        /\ g.name.figures = Naming(metric).figures /\ g.name.words = Naming(metric).words
    BY FactOfIs DEF s
<1>7. FactTypes(FactOf(metric, m))
    BY <1>4, <1>5, <1>6, NamingIs, Zenon DEF FactTypes
<1> QED
    BY <1>7 DEF m, s

TextShape ==
    [figures : SUBSET Figured, words : SUBSET Int, limits : BOOLEAN, cites : BOOLEAN,
     saysYear : BOOLEAN]

\* What is printed of an amount or a percentage is a figure.
LEMMA RoundedIs ==
    ASSUME NEW n \in Int, NEW unit \in Nat \ {0}
    PROVE  /\ Rounded(n, unit) \in Int
           /\ Abs(Rounded(n, unit)) = unit * ((2 * Abs(n) + unit) \div (2 * unit))
<1> DEFINE k == (2 * Abs(n) + unit) \div (2 * unit)
<1>1. k \in Nat
    BY DEF Abs
<1> HIDE DEF k
<1>2. unit * k \in Nat
    BY <1>1
<1> DEFINE p == unit * k
<1>3. Rounded(n, unit) = (IF n < 0 THEN -1 ELSE 1) * p
    BY <1>1 DEF Rounded, k
<1> HIDE DEF p
<1>4. p \in Nat
    BY <1>2 DEF p
<1>5. Rounded(n, unit) \in Int /\ Abs(Rounded(n, unit)) = p
    BY <1>3, <1>4 DEF Abs
<1> QED
    BY <1>5 DEF p, k

LEMMA DollarsAre ==
    ASSUME NEW n \in Int
    PROVE  PrintedDollars(n) \in Figured
<1>1. Rounded(n, 1000) \in Int /\ Rounded(n, 10000) \in Int
    BY RoundedIs, SMT
<1>2. Abs(n) \in Int
    BY DEF Abs
<1> QED
    BY <1>1, <1>2, SMT DEF PrintedDollars, Figured

LEMMA PrintedPercentIs ==
    ASSUME NEW v \in Fractions
    PROVE  PrintedPercent(v) \in Figured
<1>1. v[1] \in Int /\ v[2] \in Int /\ v[2] > 0
    BY DEF Fractions
<1>2. (20 * Abs(v[1]) + v[2]) \div (2 * v[2]) \in Int
    BY <1>1 DEF Abs
<1> QED
    BY <1>2 DEF PrintedPercent, Figured

LEMMA PrintedIs ==
    ASSUME NEW n \in Int, NEW unit \in {"USD", "count", "%"}
    PROVE  Printed(n, unit) \in Figured
<1>1. Whole(n) \in Fractions
    BY DEF Whole, Fractions
<1>2. PrintedPercent(Whole(n)) \in Figured /\ PrintedDollars(n) \in Figured
    BY <1>1, PrintedPercentIs, DollarsAre
<1>3. PrintedCount(n) \in Figured
    BY DEF PrintedCount, Figured
<1>4. CASE unit = "%"
    BY <1>2, <1>4, Zenon DEF Printed
<1>5. CASE unit = "count"
    <2>1. "count" # "%"
        OBVIOUS
    <2> QED
        BY <1>3, <1>5, <2>1, Zenon DEF Printed
<1>6. CASE unit = "USD"
    <2>1. "USD" # "%" /\ "USD" # "count"
        OBVIOUS
    <2> QED
        BY <1>2, <1>6, <2>1, Zenon DEF Printed
<1> QED
    BY <1>4, <1>5, <1>6

LEMMA SaysIs ==
    ASSUME NEW t \in Texts, FactTypes(request.fact), request.context \in Contexts
    PROVE  Says(t) \in TextShape
<1>1. t \in [claim : Claims, limits : BOOLEAN, cites : BOOLEAN, saysYear : BOOLEAN]
    BY TextAssumption
<1>2. t.claim \in Claims /\ t.limits \in BOOLEAN /\ t.cites \in BOOLEAN /\ t.saysYear \in BOOLEAN
    BY <1>1
<1>3. request.context.figures \subseteq Figured
    BY TextAssumption
<1>4. Printed(request.fact.value, request.fact.unit) \in Figured
    BY PrintedIs DEF FactTypes
<1>5. request.fact.mom # None => PrintedPercent(request.fact.mom) \in Figured
    BY PrintedPercentIs, Zenon DEF FactTypes
<1>6. Figure(<<47, 1>>, FALSE) \subseteq Figured
    BY DEF Figure, Figured
<1>7. ClaimFigures(t.claim) \subseteq Figured
    <2>1. CASE t.claim = "value"
        BY <1>4, <2>1, Zenon DEF ClaimFigures
    <2>2. CASE t.claim = "change"
        BY <1>5, <2>2, Zenon DEF ClaimFigures
    <2>3. CASE t.claim = "context"
        BY <1>3, <2>3, Zenon DEF ClaimFigures
    <2>4. CASE t.claim = "invented"
        BY <1>6, <2>4 DEF ClaimFigures
    <2>5. CASE t.claim \in {"doubled", "nothing"}
        BY <2>5 DEF ClaimFigures
    <2> QED
        BY <1>2, <2>1, <2>2, <2>3, <2>4, <2>5, Zenon DEF Claims
<1>8. (IF t.claim = "doubled" THEN {100} ELSE {}) \subseteq Int
    OBVIOUS
<1> QED
    BY <1>2, <1>7, <1>8 DEF Says, TextShape

FinalText(x, fact, streak) ==
    IF x.cites THEN x ELSE WithoutContextClosing(x, fact, streak)

\* The insight that is made of a request and the model's text.
Told(r, x) ==
    LET final == FinalText(x, r.fact, r.streak)
        passed == Faithful(final, r.fact, r.context) IN
    [kind |-> "insight", passed |-> passed, text |-> x, narrative |-> final,
     confidence |-> Confidence(passed, r.context, x.cites)]

\* A request keeps the fact it loaded, and the insight shown is made of it and
\* of the model's last text.
AnswerInv ==
    /\ pc # "idle" => /\ FactTypes(request.fact)
                      /\ request.context \in Contexts
                      /\ request.kind \in {"insight", "ask"}
    /\ pc \in {"finish", "shown"} \/ (pc = "retry" /\ request.kind = "ask")
          => text \in TextShape
    /\ \/ pc = "shown" /\ insight = Told(request, text)
       \/ insight.kind # "insight" /\ insight.confidence = "Low"

LEMMA AnswerBegins == MonthEndInit => AnswerInv
<1> SUFFICES ASSUME MonthEndInit  PROVE AnswerInv
    OBVIOUS
<1>1. pc = "idle" /\ insight.kind = None /\ insight.confidence = "Low"
    BY DEF MonthEndInit, NoInsight
<1> QED
    BY <1>1, NoneAssumption DEF AnswerInv

LEMMA AnswerStays ==
    DatasetInv /\ BillingInv /\ AnswerInv /\ [MonthEndNext]_monthEndVars => AnswerInv'
<1> SUFFICES ASSUME DatasetInv, BillingInv, AnswerInv, [MonthEndNext]_monthEndVars
             PROVE  AnswerInv'
    OBVIOUS
<1>1. ASSUME UNCHANGED requestVars  PROVE AnswerInv'
    BY <1>1, Zenon DEF AnswerInv, requestVars
<1>2. ASSUME NEW layout, NEW rollUp, NEW idMapped, Upload(layout, rollUp, idMapped)
      PROVE  AnswerInv'
    BY <1>1, <1>2, Zenon DEF Upload
<1>3. ASSUME NEW row, SyncRow(row)  PROVE AnswerInv'
    BY <1>1, <1>3, Zenon DEF SyncRow
<1>4. ASSUME NEW lines, MatchBudget(lines)  PROVE AnswerInv'
    BY <1>1, <1>4, Zenon DEF MatchBudget
<1>5. ASSUME NEW kind \in {"insight", "ask"}, NEW metric, NEW context \in Contexts,
             Load(kind, metric, context)
      PROVE  AnswerInv'
    <2> DEFINE fact == FactOf(metric, Max(DOMAIN Series(metric)))
               streak == streak_from_history(Series(metric), Max(DOMAIN Series(metric)))
    <2>1. /\ pc' = "first" /\ insight' = NoInsight
          /\ request' = [kind |-> kind, fact |-> fact, streak |-> streak, context |-> context]
        BY <1>5, Zenon DEF Load
    <2>2. FactTypes(fact)
        BY <1>5, NewestFact, Zenon DEF Load
    <2> HIDE DEF fact, streak
    <2>3. request'.fact = fact /\ request'.context = context /\ request'.kind = kind
        BY <2>1
    <2>4. insight'.kind = None /\ insight'.confidence = "Low"
        BY <2>1 DEF NoInsight
    <2>5. FactTypes(request'.fact)
        BY <2>2, <2>3, Zenon
    <2>6. None # "insight"
        BY NoneAssumption
    <2> QED
        BY <2>1, <2>3, <2>4, <2>5, <2>6, Zenon DEF AnswerInv
<1>6. ASSUME NEW t \in Texts, ModelAnswers(t)  PROVE AnswerInv'
    <2>1. /\ pc \in {"first", "retry"} /\ request' = request /\ insight' = insight
          /\ pc' \in {"retry", "finish"}
        BY <1>6, Zenon DEF ModelAnswers
    <2>2. Says(t) \in TextShape
        BY <2>1, SaysIs DEF AnswerInv
    <2>3. pc' = "finish" \/ request.kind # "insight" => text' = Says(t)
        BY <1>6 DEF ModelAnswers
    <2>4. insight.kind # "insight" /\ insight.confidence = "Low"
        BY <2>1 DEF AnswerInv
    <2>5. "finish" # "retry" /\ "finish" # "shown" /\ "retry" # "shown" /\ "ask" # "insight"
          /\ "idle" # "first" /\ "idle" # "retry"
        OBVIOUS
    <2> QED
        BY <2>1, <2>2, <2>3, <2>4, <2>5, Zenon DEF AnswerInv
<1>7. ASSUME ModelFails  PROVE AnswerInv'
    <2>1. CASE pc = "retry" /\ request.kind = "ask"
        <3>1. pc' = "finish" /\ request' = request /\ text' = text /\ insight' = insight
            BY <1>7, <2>1, Zenon DEF ModelFails
        <3>2. "finish" # "retry" /\ "retry" # "shown" /\ "retry" # "idle"
            OBVIOUS
        <3> QED
            BY <2>1, <3>1, <3>2, Zenon DEF AnswerInv
    <2>2. CASE ~(pc = "retry" /\ request.kind = "ask")
        <3>1. pc' = "idle" /\ insight' = [NoInsight EXCEPT !.kind = "none"]
            BY <1>7, <2>2, Zenon DEF ModelFails
        <3>2. insight'.kind = "none" /\ insight'.confidence = "Low"
            BY <3>1 DEF NoInsight
        <3> QED
            BY <3>1, <3>2 DEF AnswerInv
    <2> QED
        BY <2>1, <2>2
<1>8. ASSUME FinishInsight  PROVE AnswerInv'
    <2>1. /\ pc = "finish" /\ pc' = "shown" /\ request' = request /\ text' = text
          /\ insight' = Told(request, text)
        BY <1>8, Zenon DEF FinishInsight, Told, FinalText, Passes
    <2>2. "finish" # "idle"
        OBVIOUS
    <2> QED
        BY <2>1, <2>2, Zenon DEF AnswerInv
<1>9. ASSUME FinishAnswer  PROVE AnswerInv'
    <2>1. pc = "finish" /\ pc' = "shown" /\ request' = request /\ text' = text
        BY <1>9, Zenon DEF FinishAnswer
    <2>2. insight'.kind # "insight" /\ insight'.confidence = "Low"
        BY <1>9 DEF FinishAnswer, NoInsight
    <2>3. "finish" # "idle"
        OBVIOUS
    <2> QED
        BY <2>1, <2>2, <2>3, Zenon DEF AnswerInv
<1>10. ASSUME Respond  PROVE AnswerInv'
    <2>1. pc' = "idle" /\ insight'.kind = None /\ insight'.confidence = "Low"
        BY <1>10 DEF Respond, NoInsight
    <2> QED
        BY <2>1, NoneAssumption DEF AnswerInv
<1>11. CASE UNCHANGED monthEndVars
    BY <1>1, <1>11, Zenon DEF monthEndVars
<1>12. QED
    BY <1>2, <1>3, <1>4, <1>5, <1>6, <1>7, <1>8, <1>9, <1>10, <1>11, Zenon DEF MonthEndNext

\* An insight of high confidence passed the guard, cites its context and rests
\* on three snippets that a semantic embedder scored (generate.py).
THEOREM HighIsEarned == MonthEndSpec => []ConfidenceIsEarned
<1>1. AnswerInv => ConfidenceIsEarned
    <2> SUFFICES ASSUME AnswerInv, insight.confidence = "High"
                 PROVE  /\ insight.passed
                        /\ insight.text.cites
                        /\ request.context.semantic
                        /\ request.context.size >= 3
                        /\ request.context.top # None => request.context.top >= 25
        BY Zenon DEF ConfidenceIsEarned
    <2>1. insight = Told(request, text) /\ pc = "shown"
        BY DEF AnswerInv
    <2>2. request.context \in Contexts /\ text \in TextShape
        BY <2>1 DEF AnswerInv
    <2> DEFINE c == request.context
               final == FinalText(text, request.fact, request.streak)
               passed == Faithful(final, request.fact, c)
    <2>3. /\ insight.passed = passed /\ insight.text = text
          /\ insight.confidence = Confidence(passed, c, text.cites)
        BY <2>1 DEF Told
    <2>4. c.size \in Nat /\ c.top \in Int \cup {None} /\ c.semantic \in BOOLEAN
          /\ text.cites \in BOOLEAN
        BY <2>2, TextAssumption DEF TextShape
    <2>5. passed \in BOOLEAN
        BY DEF Faithful
    <2> HIDE DEF c, passed
    <2>6. passed /\ ~(c.size > 0 /\ ~text.cites) /\ Capped(FromContext(c), c) = "High"
        <3>1. CASE ~passed
            BY <2>3, <3>1 DEF Confidence, Capped
        <3>2. CASE passed /\ c.size > 0 /\ ~text.cites
            BY <2>3, <3>2 DEF Confidence, NotchedDown
        <3>3. CASE passed /\ ~(c.size > 0 /\ ~text.cites)
            BY <2>3, <3>3, Zenon DEF Confidence
        <3> QED
            BY <2>5, <3>1, <3>2, <3>3
    <2>7. c.semantic /\ FromContext(c) = "High"
        BY <2>6 DEF Capped
    <2>8. c.size >= 3 /\ (c.top # None => c.top >= 25)
        <3>1. CASE c.size < 2
            <4>1. FromContext(c) = "Low"
                BY <3>1, <2>4 DEF FromContext
            <4> QED
                BY <4>1, <2>7
        <3>2. CASE c.size >= 2 /\ c.top = None
            <4>1. FromContext(c) = IF c.size >= 3 THEN "High" ELSE "Medium"
                BY <3>2, <2>4 DEF FromContext
            <4> QED
                BY <3>2, <4>1, <2>7
        <3>3. CASE c.size >= 2 /\ c.top # None
            <4>1. FromContext(c) = IF c.size >= 3 /\ c.top >= 25 THEN "High" ELSE "Medium"
                BY <3>3, <2>4 DEF FromContext
            <4> QED
                BY <3>3, <4>1, <2>7
        <3> QED
            BY <2>4, <3>1, <3>2, <3>3
    <2> QED
        BY <2>3, <2>4, <2>6, <2>7, <2>8 DEF c
<1> QED
    BY <1>1, DatasetBegins, DatasetStays, BillingBegins, BillingStays, AnswerBegins, AnswerStays,
       PTL DEF MonthEndSpec

-----------------------------------------------------------------------------
(* The number guard, the drill-down and the closing.                       *)

\* The entries of the drill-down, by kind, are the values the guard allows.
LEMMA EntriesAre ==
    ASSUME NEW fact, NEW pct \in BOOLEAN, FactTypes(fact)
    PROVE  LET entries == LabeledFactValues(fact) IN
           /\ Len(entries) = 9
           /\ \A v : v \in (IF pct THEN Percents(fact) ELSE Magnitudes(fact))
                        <=> \E i \in 1 .. 9 : entries[i].pct = pct /\ v \in entries[i].values
<1> DEFINE entries == LabeledFactValues(fact)
           bridge == IF fact.bridge = None THEN {}
                     ELSE {Whole(fact.bridge[c]) : c \in DOMAIN fact.bridge}
           now == AsPercents(fact, {fact.value})
           before == AsPercents(fact, {fact.prior})
<1>1. /\ Len(entries) = 9
      /\ entries[1] = Entry("value", {Whole(fact.value)}, FALSE)
      /\ entries[2] = Entry("prior", WholeOrNone(fact.prior), FALSE)
      /\ entries[3] = Entry("value", now, TRUE)
      /\ entries[4] = Entry("prior", before, TRUE)
      /\ entries[5] = Entry("var", WholeOrNone(fact.var), FALSE)
      /\ entries[6] = Entry("mom", {fact.mom} \ {None}, TRUE)
      /\ entries[7] = Entry("yoy", {fact.yoy} \ {None}, TRUE)
      /\ entries[8] = Entry("varPct", {fact.varPct} \ {None}, TRUE)
      /\ entries[9] = Entry("bridge", bridge, FALSE)
    BY DEF LabeledFactValues
<1>3. /\ entries[1].values = {Whole(fact.value)} /\ entries[1].pct = FALSE
      /\ entries[2].values = WholeOrNone(fact.prior) /\ entries[2].pct = FALSE
      /\ entries[3].values = now /\ entries[3].pct = TRUE
      /\ entries[4].values = before /\ entries[4].pct = TRUE
      /\ entries[5].values = WholeOrNone(fact.var) /\ entries[5].pct = FALSE
      /\ entries[6].values = {fact.mom} \ {None} /\ entries[6].pct = TRUE
      /\ entries[7].values = {fact.yoy} \ {None} /\ entries[7].pct = TRUE
      /\ entries[8].values = {fact.varPct} \ {None} /\ entries[8].pct = TRUE
      /\ entries[9].values = bridge /\ entries[9].pct = FALSE
    <2> HIDE DEF entries, bridge, now, before
    <2> QED
        BY <1>1 DEF Entry
<1>4. \A i \in 1 .. 9 : i \in {1, 2, 3, 4, 5, 6, 7, 8, 9}
    OBVIOUS
<1>5. \A i \in {1, 2, 3, 4, 5, 6, 7, 8, 9} : i \in 1 .. 9
    OBVIOUS
<1>6. Magnitudes(fact) = {Whole(fact.value)} \cup WholeOrNone(fact.prior)
                            \cup WholeOrNone(fact.var) \cup bridge
    <2>1. fact.value # None
        BY NoneAssumption DEF FactTypes
    <2> HIDE DEF bridge
    <2>2. {Whole(n) : n \in {fact.value, fact.prior, fact.var} \ {None}}
              = {Whole(fact.value)} \cup WholeOrNone(fact.prior) \cup WholeOrNone(fact.var)
        BY <2>1 DEF WholeOrNone
    <2> QED
        BY <2>2, Zenon DEF Magnitudes, bridge
<1>8. AsPercents(fact, {fact.value, fact.prior}) = now \cup before
    BY DEF AsPercents
<1> HIDE DEF entries, bridge, now, before
<1>7. ASSUME NEW v
      PROVE  v \in (IF pct THEN Percents(fact) ELSE Magnitudes(fact))
                <=> \E i \in 1 .. 9 : entries[i].pct = pct /\ v \in entries[i].values
    <2>0. \A i : i \in 1 .. 9 <=> i \in {3, 4, 6, 7, 8} \/ i \in {1, 2, 5, 9}
        BY <1>4, <1>5, Zenon
    <2>1. CASE pct = TRUE
        <3>1. v \in Percents(fact) <=> \/ v \in {fact.mom} \ {None}
                                       \/ v \in {fact.yoy} \ {None}
                                       \/ v \in {fact.varPct} \ {None}
                                       \/ v \in now \/ v \in before
            BY <1>8 DEF Percents
        <3>2. \A i \in {1, 2, 5, 9} : entries[i].pct # pct
            BY <1>3, <2>1, ZenonT(60)
        <3>3. (\E i \in {3, 4, 6, 7, 8} : v \in entries[i].values) <=> v \in Percents(fact)
            BY <1>3, <3>1, ZenonT(60)
        <3>4. \A i \in {3, 4, 6, 7, 8} : entries[i].pct = pct
            BY <1>3, <2>1, ZenonT(60)
        <3> QED
            BY <2>0, <2>1, <3>2, <3>3, <3>4, ZenonT(60)
    <2>2. CASE pct = FALSE
        <3>1. v \in Magnitudes(fact) <=> \/ v \in {Whole(fact.value)}
                                         \/ v \in WholeOrNone(fact.prior)
                                         \/ v \in WholeOrNone(fact.var)
                                         \/ v \in bridge
            BY <1>6, Zenon
        <3>2. \A i \in {3, 4, 6, 7, 8} : entries[i].pct # pct
            BY <1>3, <2>2, ZenonT(60)
        <3>3. (\E i \in {1, 2, 5, 9} : v \in entries[i].values) <=> v \in Magnitudes(fact)
            BY <1>3, <3>1, ZenonT(60)
        <3>4. \A i \in {1, 2, 5, 9} : entries[i].pct = pct
            BY <1>3, <2>2, ZenonT(60)
        <3> QED
            BY <2>0, <2>2, <3>2, <3>3, <3>4, ZenonT(60)
    <2> QED
        BY <2>1, <2>2
<1> QED
    BY <1>1, <1>7 DEF entries

LEMMA CitedFieldIs ==
    ASSUME NEW fact, FactTypes(fact), NEW f \in Figured
    PROVE  CitedField(f, fact) # 0
              <=> \E v \in (IF f.pct THEN Percents(fact) ELSE Magnitudes(fact)) : Matches(f, v)
<1> DEFINE entries == LabeledFactValues(fact)
           I == {i \in 1 .. Len(entries) : /\ entries[i].pct = f.pct
                                            /\ \E v \in entries[i].values : Matches(f, v)}
<1>1. CitedField(f, fact) = IF I # {} THEN Min(I) ELSE 0
    BY Zenon DEF CitedField, SelectInSeq
<1>2. f.pct \in BOOLEAN
    BY DEF Figured
<1>3. /\ Len(entries) = 9
      /\ \A v : v \in (IF f.pct THEN Percents(fact) ELSE Magnitudes(fact))
                   <=> \E i \in 1 .. 9 : entries[i].pct = f.pct /\ v \in entries[i].values
    BY <1>2, EntriesAre, Zenon
<1> HIDE DEF entries
<1>4. I # {} <=> \E v \in (IF f.pct THEN Percents(fact) ELSE Magnitudes(fact)) : Matches(f, v)
    BY <1>3, Zenon
<1>5. I # {} => Min(I) # 0
    <2>1. I \in SUBSET Nat /\ 0 \notin I
        BY <1>3
    <2> HIDE DEF I
    <2>2. I # {} => Min(I) \in I
        BY <2>1, LeastIsIn DEF Min
    <2> QED
        BY <2>1, <2>2
<1> QED
    BY <1>1, <1>4, <1>5, Zenon

\* The figures and words that the drill-down leaves unverified are the guard's.
LEMMA DrillDownIs ==
    ASSUME NEW x \in TextShape, NEW fact, FactTypes(fact), NEW context
    PROVE  /\ attribute(x, fact, context).faithful <=> Faithful(x, fact, context)
           /\ attribute(x, fact, context).faithful
                 <=> attribute(x, fact, context).messages = {}
<1> DEFINE a == attribute(x, fact, context)
           u == {f \in x.figures : CitedField(f, fact) = 0 /\ ~SourceHas(f, context)}
                    \cup {Claimed(w) : w \in {y \in x.words : ~Implied(y, fact)}}
<1>1. a.faithful = (u = {}) /\ a.messages = Messages(x, fact, context)
    BY DEF attribute
<1>2. \A f \in x.figures : f \in Figured
    BY DEF TextShape
<1>3. u = {} <=> /\ \A f \in x.figures : CitedField(f, fact) # 0 \/ SourceHas(f, context)
                 /\ \A w \in x.words : Implied(w, fact)
    BY Zenon
<1>4. ASSUME NEW f \in x.figures
      PROVE  CitedField(f, fact) # 0 \/ SourceHas(f, context)
                <=> \E v \in (IF f.pct THEN Percents(fact) ELSE Magnitudes(fact))
                           \cup {<<c.num, c.den>> : c \in {d \in context.figures : d.pct = f.pct}} :
                        Matches(f, v)
    <2>1. CitedField(f, fact) # 0
              <=> \E v \in (IF f.pct THEN Percents(fact) ELSE Magnitudes(fact)) : Matches(f, v)
        BY <1>2, CitedFieldIs
    <2>2. SourceHas(f, context)
              <=> \E v \in {<<c.num, c.den>> : c \in {d \in context.figures : d.pct = f.pct}} :
                      Matches(f, v)
        BY Zenon DEF SourceHas
    <2> QED
        BY <2>1, <2>2, Zenon
<1>5. u = {} <=> Faithful(x, fact, context)
    <2> HIDE DEF u
    <2> QED
        BY <1>3, <1>4, Zenon DEF Faithful
<1>6. Messages(x, fact, context) = {} <=> Faithful(x, fact, context)
    <2>1. CASE Faithful(x, fact, context)
        <3>1. Unmatched(x, fact, context) = {}
            <4> SUFFICES ASSUME NEW f \in x.figures
                         PROVE  Faithful([x EXCEPT !.figures = {f}, !.words = {}], fact, context)
                BY Zenon DEF Unmatched
            <4> DEFINE y == [x EXCEPT !.figures = {f}, !.words = {}]
            <4>1. y.figures = {f} /\ y.words = {}
                BY DEF TextShape
            <4> HIDE DEF y
            <4>2. Faithful(y, fact, context)
                BY <2>1, <4>1, Zenon DEF Faithful
            <4> QED
                BY <4>2 DEF y
        <3> QED
            BY <2>1, <3>1, Zenon DEF Messages
    <2>2. CASE ~Faithful(x, fact, context) /\ Unmatched(x, fact, context) # {}
        BY <2>2, Zenon DEF Messages
    <2>3. CASE ~Faithful(x, fact, context) /\ ~(Unmatched(x, fact, context) # {})
        <3>1. Messages(x, fact, context) = {"the claimed change"}
            BY <2>3, Zenon DEF Messages
        <3> QED
            BY <2>3, <3>1, Zenon
    <2> QED
        BY <2>1, <2>2, <2>3, Zenon
<1> HIDE DEF a, u
<1>7. /\ a.faithful <=> Faithful(x, fact, context)
      /\ a.faithful <=> a.messages = {}
    BY <1>1, <1>5, <1>6, Zenon
<1> QED
    BY <1>7, Zenon DEF a

\* What is faithful to some sources is faithful to more of them.
LEMMA MoreSources ==
    ASSUME NEW x, NEW fact, NEW few, NEW many, few.figures \subseteq many.figures,
           Faithful(x, fact, few)
    PROVE  Faithful(x, fact, many)
BY Zenon DEF Faithful

LEMMA ClosingShape ==
    ASSUME NEW x \in TextShape, NEW fact, FactTypes(fact), NEW streak
    PROVE  /\ FinalText(x, fact, streak) \in TextShape
           /\ ~x.cites =>
                 LET final == WithoutContextClosing(x, fact, streak) IN
                 /\ final = FinalText(x, fact, streak)
                 /\ final.words \subseteq x.words \cup fact.name.words
                 /\ \A f \in final.figures : \/ f \in x.figures
                                             \/ f = Printed(fact.value, fact.unit)
                                             \/ f \in fact.name.figures
                                             \/ fact.yoy # None /\ f = PrintedPercent(fact.yoy)
<1>1. CASE x.cites
    BY <1>1 DEF FinalText
<1>2. CASE ~x.cites
    <2> DEFINE nothing == x.limits /\ x.figures = {} /\ x.words = {}
               body == IF nothing THEN {Printed(fact.value, fact.unit)} \cup fact.name.figures
                       ELSE x.figures
               words == IF nothing THEN fact.name.words ELSE x.words
               yearly == streak.months = 0 /\ fact.yoy # None /\ ~x.saysYear
               more == IF yearly THEN {PrintedPercent(fact.yoy)} ELSE {}
               final == WithoutContextClosing(x, fact, streak)
    <2>1. final = [x EXCEPT !.limits = FALSE, !.words = words, !.figures = body \cup more]
        BY Zenon DEF WithoutContextClosing
    <2>2. Printed(fact.value, fact.unit) \in Figured /\ fact.name.figures \subseteq Figured
          /\ fact.name.words \subseteq Int
        BY PrintedIs DEF FactTypes
    <2>3. fact.yoy # None => PrintedPercent(fact.yoy) \in Figured
        BY PrintedPercentIs, Zenon DEF FactTypes
    <2>4. \A f \in body \cup more : \/ f \in x.figures
                                    \/ f = Printed(fact.value, fact.unit)
                                    \/ f \in fact.name.figures
                                    \/ fact.yoy # None /\ f = PrintedPercent(fact.yoy)
        BY Zenon
    <2>5. x.figures \subseteq Figured /\ x.words \subseteq Int
        BY DEF TextShape
    <2>6. body \cup more \subseteq Figured
        BY <2>2, <2>3, <2>4, <2>5, Zenon
    <2>8. words \subseteq Int /\ words \subseteq x.words \cup fact.name.words
        BY <2>2, <2>5, Zenon
    <2> HIDE DEF body, more, final, words
    <2>7. final \in TextShape /\ final.words = words /\ final.figures = body \cup more
        BY <2>1, <2>6, <2>8 DEF TextShape
    <2> QED
        BY <1>2, <2>4, <2>7, <2>8, Zenon DEF FinalText, final
<1> QED
    BY <1>1, <1>2

\* The drill-down of a stored insight says what the guard says, save for what it
\* read and does not cite (attribution.py).
THEOREM DrillDownSaysTheSame == MonthEndSpec => []DrillDownAgrees
<1>1. AnswerInv => DrillDownAgrees
    <2> SUFFICES ASSUME AnswerInv, insight.kind = "insight"
                 PROVE  /\ report_grounding.faithful => insight.passed
                        /\ report_grounding.faithful <=> report_grounding.messages = {}
                        /\ insight.narrative.cites => (report_grounding.faithful <=> insight.passed)
        BY Zenon DEF DrillDownAgrees
    <2> DEFINE fact == request.fact
               context == request.context
               final == FinalText(text, fact, request.streak)
               cited == [figures |-> IF final.cites THEN context.figures ELSE {}]
    <2>1. pc = "shown" /\ insight = Told(request, text)
        BY DEF AnswerInv
    <2>2. insight.passed = Faithful(final, fact, context) /\ insight.narrative = final
        BY <2>1 DEF Told
    <2>3. FactTypes(fact) /\ text \in TextShape
        BY <2>1 DEF AnswerInv
    <2>4. final \in TextShape
        BY <2>3, ClosingShape
    <2>5. report_grounding = attribute(final, fact, cited)
        BY <2>2, Zenon DEF report_grounding
    <2>6. cited.figures \subseteq context.figures /\ (final.cites => cited.figures = context.figures)
        OBVIOUS
    <2> HIDE DEF fact, context, final, cited
    <2>7. /\ report_grounding.faithful <=> Faithful(final, fact, cited)
          /\ report_grounding.faithful <=> report_grounding.messages = {}
        BY <2>3, <2>4, <2>5, DrillDownIs, Zenon
    <2>8. Faithful(final, fact, cited) => Faithful(final, fact, context)
        BY <2>6, MoreSources
    <2>9. final.cites => (Faithful(final, fact, context) => Faithful(final, fact, cited))
        BY <2>6, MoreSources
    <2> QED
        BY <2>2, <2>7, <2>8, <2>9, Zenon
<1> QED
    BY <1>1, DatasetBegins, DatasetStays, BillingBegins, BillingStays, AnswerBegins, AnswerStays,
       PTL DEF MonthEndSpec

\* An amount in dollars is matched by what is printed of it.
LEMMA DollarsMatch ==
    ASSUME NEW n \in Int
    PROVE  Matches(PrintedDollars(n), Whole(n)) /\ PrintedDollars(n).pct = FALSE
<1> DEFINE p == PrintedDollars(n)
           a == Abs(n)
           small == a < 1000
           large == a >= 1000000
<1>1. a \in Nat
    BY DEF Abs
<1>2. Whole(n)[1] = n /\ Whole(n)[2] = 1 /\ p.den = 1 /\ p.pct = FALSE
    BY DEF Whole, PrintedDollars
<1>3. CASE small
    <2>1. p.num = n
        BY <1>3, SMT DEF PrintedDollars
    <2> HIDE DEF p
    <2>2. Within(p, Whole(n))
        BY <1>1, <1>2, <2>1 DEF Within, Abs, Larger
    <2> QED
        BY <1>2, <2>2 DEF Matches, p
<1>4. CASE ~small /\ ~large
    <2>1. /\ p.num = Rounded(n, 1000)
          /\ p.compact = TRUE
        <3>1. Abs(n) >= 1000 /\ Abs(n) < 1000000 /\ ~(Abs(n) < 1000)
            BY <1>1, <1>4, SMT
        <3>2. p.num = Rounded(n, 1000)
            BY <3>1, SMT DEF PrintedDollars
        <3> DEFINE K == Abs(n) >= 1000 /\ Abs(n) < 1000000
        <3>3. K
            BY <3>1
        <3>4. p.compact = K
            BY DEF PrintedDollars
        <3> HIDE DEF K
        <3>5. p.compact = TRUE
            BY <3>3, <3>4, Zenon
        <3> HIDE DEF p
        <3> QED
            BY <3>2, <3>5, SMT
    <2>2. Abs(p.num) = p.den * 1000 * ((2 * a + 1000 * 1) \div (2000 * 1))
        <3>1. Abs(Rounded(n, 1000)) = 1000 * ((2 * a + 1000) \div (2 * 1000))
            BY RoundedIs, SMT
        <3> QED
            BY <1>1, <1>2, <2>1, <3>1, SMT
    <2> HIDE DEF p
    <2>3. RoundsTo(p, Whole(n))
        BY <1>1, <1>2, <1>4, <2>1, <2>2, SMT DEF RoundsTo
    <2> QED
        BY <1>2, <2>3, Zenon DEF Matches, p
<1>5. CASE large
    <2> DEFINE k == (2 * a + 10000) \div (2 * 10000)
               e == Abs(Abs(p.num) * 1 - a * 1)
               w == Larger(25 * 1 * 1, a * 1) \div 50
    <2>1. p.num = Rounded(n, 10000)
        BY <1>1, <1>5, SMT DEF PrintedDollars
    <2>2. Abs(p.num) = 10000 * k
        <3>1. Abs(Rounded(n, 10000)) = 10000 * ((2 * a + 10000) \div (2 * 10000))
            BY RoundedIs, SMT
        <3> QED
            BY <2>1, <3>1, SMT
    <2>3. k \in Nat /\ 20000 * k <= 2 * a + 10000 /\ 2 * a + 10000 < 20000 * k + 20000
        BY <1>1, SMT
    <2> HIDE DEF k, p
    <2>4. e \in Int /\ e <= 5000
        BY <1>1, <2>2, <2>3, SMT DEF Abs
    <2>5. w \in Int /\ w >= 20000
        BY <1>1, <1>5, SMT DEF Larger
    <2>6. e <= w
        <3> HIDE DEF e, w
        <3> QED
            BY <2>4, <2>5, SMT
    <2>7. Within(p, Whole(n))
        BY <1>2, <2>6, SMT DEF Within
    <2> QED
        BY <1>2, <2>7, Zenon DEF Matches, p
<1> HIDE DEF small, large
<1> QED
    BY <1>3, <1>4, <1>5, Zenon

\* A percentage is matched by what is printed of it.
LEMMA PercentMatches ==
    ASSUME NEW v \in Fractions
    PROVE  Matches(PrintedPercent(v), v) /\ PrintedPercent(v).pct = TRUE
<1> DEFINE p == PrintedPercent(v)
           a == Abs(v[1])
           d == v[2]
           q == (20 * a + d) \div (2 * d)
<1>1. a \in Nat /\ d \in Nat /\ d > 0 /\ v[1] \in Int
    BY DEF Fractions, Abs
<1>2. p.num = (IF v[1] < 0 THEN -1 ELSE 1) * q /\ p.den = 10 /\ p.pct = TRUE
    BY DEF PrintedPercent
<1> HIDE DEF a, d
<1>3. q \in Nat /\ q * (2 * d) <= 20 * a + d /\ 20 * a + d < q * (2 * d) + 2 * d
    <2> DEFINE x == 20 * a + d
               y == 2 * d
    <2>1. x \in Nat /\ y \in Nat /\ y > 0
        BY <1>1
    <2> HIDE DEF x, y
    <2>2. x \div y \in Nat /\ (x \div y) * y <= x /\ x < (x \div y) * y + y
        BY <2>1
    <2> QED
        BY <2>2 DEF x, y
<1> HIDE DEF p, q
<1>4. Abs(p.num) = q
    BY <1>1, <1>2, <1>3 DEF Abs
<1>5. Abs(q * d - a * 10) <= 5 * d
    <2> DEFINE z == q * d
    <2>1. z \in Int /\ q * (2 * d) = 2 * z
        BY <1>1, <1>3
    <2> HIDE DEF z
    <2>2. 2 * z <= 20 * a + d /\ 20 * a + d < 2 * z + 2 * d
        BY <1>3, <2>1
    <2>3. Abs(z - a * 10) <= 5 * d
        BY <1>1, <2>1, <2>2 DEF Abs
    <2> QED
        BY <2>3 DEF z
<1>6. 5 * d <= Larger(25 * 10 * d, a * 10) \div 50
    <2>1. Larger(25 * 10 * d, a * 10) \in Int /\ Larger(25 * 10 * d, a * 10) >= 250 * d
        BY <1>1 DEF Larger
    <2> DEFINE l == Larger(25 * 10 * d, a * 10)
    <2> HIDE DEF l
    <2>2. l \in Int /\ l >= 250 * d
        BY <2>1 DEF l
    <2>3. 5 * d <= l \div 50
        BY <1>1, <2>2
    <2> QED
        BY <2>3 DEF l
<1>7. Within(p, v)
    <2>1. /\ Abs(q * d - a * 10) \in Int /\ Larger(25 * 10 * d, a * 10) \div 50 \in Int
          /\ 5 * d \in Int
        <3>1. q * d \in Int /\ a * 10 \in Int /\ 25 * 10 * d \in Int
            BY <1>1, <1>3
        <3>2. Abs(q * d - a * 10) \in Int /\ Larger(25 * 10 * d, a * 10) \in Int
            BY <3>1 DEF Abs, Larger
        <3> QED
            BY <1>1, <3>2
    <2>2. Abs(q * d - a * 10) <= Larger(25 * 10 * d, a * 10) \div 50
        <3> DEFINE e == Abs(q * d - a * 10)
                   f == Larger(25 * 10 * d, a * 10) \div 50
        <3> HIDE DEF e, f
        <3>1. e \in Int /\ f \in Int /\ e <= 5 * d /\ 5 * d <= f /\ 5 * d \in Int
            BY <1>5, <1>6, <2>1 DEF e, f
        <3>2. e <= f
            BY <3>1
        <3> QED
            BY <3>2 DEF e, f
    <2> QED
        BY <1>2, <1>4, <2>2 DEF Within, a, d
<1> QED
    BY <1>2, <1>7 DEF Matches, p

\* A value is matched by what is printed of it, whatever its unit.
LEMMA PrintedMatches ==
    ASSUME NEW fact, FactTypes(fact)
    PROVE  LET p == Printed(fact.value, fact.unit) IN
           \E v \in (IF p.pct THEN Percents(fact) ELSE Magnitudes(fact)) : Matches(p, v)
<1> DEFINE n == fact.value
           p == Printed(n, fact.unit)
<1>1. n \in Int /\ n # None /\ Whole(n) \in Fractions
    BY NoneAssumption DEF FactTypes, Whole, Fractions
<1>2. Whole(n) \in Magnitudes(fact)
    BY <1>1, Zenon DEF Magnitudes
<1> HIDE DEF n
<1>3. CASE fact.unit = "%"
    <2>1. Matches(p, Whole(n)) /\ p.pct = TRUE
        BY <1>1, <1>3, PercentMatches, Zenon DEF Printed
    <2>2. Whole(n) \in Percents(fact)
        BY <1>1, <1>3, Zenon DEF Percents, AsPercents, n
    <2> QED
        BY <2>1, <2>2, Zenon DEF n
<1>4. CASE fact.unit = "count"
    <2>1. p = PrintedCount(n)
        <3>1. "count" # "%"
            OBVIOUS
        <3> QED
            BY <1>4, <3>1, Zenon DEF Printed
    <2>2. p.pct = FALSE /\ p.num = n /\ p.den = 1
        BY <2>1 DEF PrintedCount
    <2> HIDE DEF p
    <2>3. Whole(n)[1] = n /\ Whole(n)[2] = 1
        BY DEF Whole
    <2>4. Abs(n) \in Nat
        BY <1>1 DEF Abs
    <2>5. Within(p, Whole(n))
        BY <1>1, <2>2, <2>3, <2>4, SMT DEF Within, Abs, Larger
    <2> QED
        BY <1>2, <2>2, <2>5, Zenon DEF Matches, p, n
<1>5. CASE fact.unit = "USD"
    <2>1. p = PrintedDollars(n)
        <3>1. "USD" # "%" /\ "USD" # "count"
            OBVIOUS
        <3> QED
            BY <1>5, <3>1, Zenon DEF Printed
    <2>2. Matches(p, Whole(n)) /\ p.pct = FALSE
        BY <1>1, <2>1, DollarsMatch, Zenon
    <2> QED
        BY <1>2, <2>2, Zenon DEF n
<1> QED
    BY <1>3, <1>4, <1>5, Zenon DEF FactTypes

\* The observation that closes an insight leaves it as faithful as it was, unless
\* the metric's name states a figure (generate.py _without_context_closing).
THEOREM ClosingIsFaithful == MonthEndSpec => []ClosingKeepsFaith
<1>1. AnswerInv => ClosingKeepsFaith
    <2> SUFFICES ASSUME AnswerInv, insight.kind = "insight", Passes(insight.text),
                        Passes(request.fact.name)
                 PROVE  insight.passed
        BY Zenon DEF ClosingKeepsFaith
    <2> DEFINE fact == request.fact
               context == request.context
               final == FinalText(text, fact, request.streak)
    <2>1. pc = "shown" /\ insight = Told(request, text)
        BY DEF AnswerInv
    <2>2. insight.passed = Faithful(final, fact, context) /\ insight.text = text
        BY <2>1 DEF Told
    <2>3. FactTypes(fact) /\ text \in TextShape
        BY <2>1 DEF AnswerInv
    <2>4. Faithful(text, fact, context) /\ Faithful(fact.name, fact, context)
        BY <2>2, Zenon DEF Passes
    <2>5. CASE text.cites
        BY <2>2, <2>4, <2>5, Zenon DEF FinalText
    <2>6. CASE ~text.cites
        <3> DEFINE Allowed(f) ==
                (IF f.pct THEN Percents(fact) ELSE Magnitudes(fact))
                    \cup {<<c.num, c.den>> : c \in {d \in context.figures : d.pct = f.pct}}
        <3>0. final = WithoutContextClosing(text, fact, request.streak)
            BY <2>6, Zenon DEF FinalText
        <3>1. /\ final.words \subseteq text.words \cup fact.name.words
              /\ \A f \in final.figures : \/ f \in text.figures
                                          \/ f = Printed(fact.value, fact.unit)
                                          \/ f \in fact.name.figures
                                          \/ fact.yoy # None /\ f = PrintedPercent(fact.yoy)
            BY <2>3, <2>6, <3>0, ClosingShape
        <3>2. fact.yoy \in Fractions \cup {None}
            BY <2>3, Zenon DEF FactTypes
        <3>4. fact.yoy # None => fact.yoy \in Percents(fact)
            BY Zenon DEF Percents
        <3> HIDE DEF fact, context, final
        <3>5. ASSUME NEW f \in final.figures
              PROVE  \E v \in Allowed(f) : Matches(f, v)
            <4>1. CASE f \in text.figures
                BY <2>4, <4>1, Zenon DEF Faithful
            <4>2. CASE f = Printed(fact.value, fact.unit)
                BY <2>3, <4>2, PrintedMatches, Zenon
            <4>4. CASE f \in fact.name.figures
                BY <2>4, <4>4, Zenon DEF Faithful
            <4>3. CASE fact.yoy # None /\ f = PrintedPercent(fact.yoy)
                <5>1. Matches(f, fact.yoy) /\ f.pct = TRUE
                    BY <3>2, <4>3, PercentMatches, Zenon
                <5> QED
                    BY <3>4, <4>3, <5>1, Zenon
            <4> QED
                BY <3>1, <4>1, <4>2, <4>3, <4>4, Zenon
        <3>6. \A w \in final.words : Implied(w, fact)
            BY <2>4, <3>1, Zenon DEF Faithful
        <3>7. Faithful(final, fact, context)
            BY <3>5, <3>6, Zenon DEF Faithful
        <3> QED
            BY <2>2, <3>7, Zenon DEF fact, context, final
    <2> QED
        BY <2>5, <2>6
<1> QED
    BY <1>1, DatasetBegins, DatasetStays, BillingBegins, BillingStays, AnswerBegins, AnswerStays,
       PTL DEF MonthEndSpec

-----------------------------------------------------------------------------
(* Joins.                                                                  *)

\* Every metric has a name.
NamesInv == None \notin DOMAIN metrics

LEMMA NamesBegin == MonthEndInit => NamesInv
BY DEF MonthEndInit, NamesInv

LEMMA NamesStay == DatasetInv /\ NamesInv /\ [MonthEndNext]_monthEndVars => NamesInv'
<1> SUFFICES ASSUME DatasetInv, NamesInv, [MonthEndNext]_monthEndVars  PROVE NamesInv'
    OBVIOUS
<1>1. ASSUME metrics' = metrics  PROVE NamesInv'
    BY <1>1 DEF NamesInv
<1>2. ASSUME NEW layout \in Layouts, NEW idMapped \in BOOLEAN, book # NoBook,
             NEW line \in Written(layout),
             NEW rollUp \in {{}} \cup {{r} : r \in {x \in RollUps(line) :
                                             x.label = None \/ x.marked \/ idMapped}},
             Upload(layout, rollUp, idMapped)
      PROVE  NamesInv'
    <2>1. \A x \in rollUp : IsRollUp(x, idMapped)
        BY <1>2, RollUpsAre
    <2>2. BookType
        BY DEF DatasetInv, SheetTypes
    <2>3. UNCHANGED bookVars \/ DOMAIN metrics' = {MetricOf(layout, i) : i \in Items}
        BY <1>2, <2>1, <2>2, UploadIs, Zenon
    <2>4. \A i \in Items : MetricOf(layout, i) # None
        BY BooksAssumption, Zenon DEF MetricOf
    <2> QED
        BY <1>1, <2>3, <2>4, Zenon DEF NamesInv, bookVars
<1>3. ASSUME NEW row, SyncRow(row)  PROVE NamesInv'
    <2>1. DOMAIN metrics' = {Feed}
        BY <1>3 DEF SyncRow
    <2> QED
        BY <2>1, FeedAssumption DEF NamesInv
<1>4. ASSUME NEW lines, MatchBudget(lines)  PROVE NamesInv'
    BY <1>1, <1>4, Zenon DEF MatchBudget
<1>5. ASSUME UNCHANGED bookVars  PROVE NamesInv'
    BY <1>1, <1>5, Zenon DEF bookVars
<1>6. ASSUME NEW kind, NEW metric, NEW context, Load(kind, metric, context)
      PROVE  NamesInv'
    BY <1>5, <1>6, Zenon DEF Load
<1>7. ASSUME (\E t \in Texts : ModelAnswers(t)) \/ ModelFails \/ FinishInsight
                 \/ FinishAnswer \/ Respond
      PROVE  NamesInv'
    BY <1>5, <1>7, Zenon DEF ModelAnswers, ModelFails, FinishInsight, FinishAnswer, Respond
<1>8. CASE UNCHANGED monthEndVars
    BY <1>5, <1>8, Zenon DEF monthEndVars
<1> QED
    BY <1>2, <1>3, <1>4, <1>6, <1>7, <1>8, Zenon DEF MonthEndNext

\* A group that is matched to a metric is for it.
LEMMA MatchedIsFor ==
    ASSUME NamesInv, NEW line, NEW m \in DOMAIN metrics, Matched(metrics, GroupOf(line)) = m
    PROVE  IsFor(line, m)
<1> DEFINE g == GroupOf(line)
           byId == ById(metrics, g[3])
<1>1. g[1] = line.label /\ g[3] = line.id
    BY DEF GroupOf
<1>2. Matched(metrics, g) = m
    OBVIOUS
<1> HIDE DEF g
<1>3. CASE byId # {}
    <2>1. Matched(metrics, g) = CHOOSE x \in byId : TRUE
        BY <1>3, Zenon DEF Matched
    <2>2. m \in byId
        BY <1>2, <1>3, <2>1, Zenon
    <2> QED
        BY <1>1, <2>2, Zenon DEF ById, IsFor
<1>4. CASE byId = {}
    <2>1. \A x \in DOMAIN metrics : line.id = None \/ metrics[x] # line.id
        BY <1>1, <1>4, Zenon DEF ById
    <2>2. SameName(m, line.label)
        <3>1. CASE g[1] \in DOMAIN metrics
            BY <1>1, <1>2, <1>4, <3>1, Zenon DEF Matched, SameName
        <3>2. CASE g[1] \notin DOMAIN metrics /\ Cardinality(BySpelling(metrics, g[1])) = 1
            <4> DEFINE S == BySpelling(metrics, g[1])
            <4>1. Matched(metrics, g) = CHOOSE x \in S : TRUE
                BY <1>4, <3>2, Zenon DEF Matched
            <4>2. S # {}
                BY <3>2, FS_EmptySet
            <4>3. m \in S
                BY <1>2, <4>1, <4>2, Zenon
            <4> QED
                BY <1>1, <4>3, Zenon DEF BySpelling
        <3>3. CASE g[1] \notin DOMAIN metrics /\ Cardinality(BySpelling(metrics, g[1])) # 1
            <4>1. Matched(metrics, g) = None
                BY <1>4, <3>3, Zenon DEF Matched
            <4> QED
                BY <1>2, <4>1, Zenon DEF NamesInv
        <3> QED
            BY <3>1, <3>2, <3>3, Zenon
    <2> QED
        BY <2>1, <2>2, Zenon DEF IsFor
<1> QED
    BY <1>3, <1>4, Zenon

\* A line for a metric that shares its name or identifier with no other is
\* matched to it.
LEMMA ForIsMatched ==
    ASSUME NEW line, NEW m \in DOMAIN metrics, IsFor(line, m),
           \A x \in DOMAIN metrics \ {m} :
              /\ ~SameName(x, m)
              /\ metrics[x] = None \/ metrics[x] # metrics[m]
    PROVE  Matched(metrics, GroupOf(line)) = m
<1> DEFINE g == GroupOf(line)
           byId == ById(metrics, g[3])
<1>1. g[1] = line.label /\ g[3] = line.id
    BY DEF GroupOf
<1> HIDE DEF g
<1>2. CASE line.id # None /\ metrics[m] = line.id
    <2>1. byId = {m}
        BY <1>1, <1>2, Zenon DEF ById
    <2>2. Matched(metrics, g) = CHOOSE x \in {m} : TRUE
        BY <2>1, Zenon DEF Matched
    <2> QED
        BY <2>2 DEF g
<1>3. CASE /\ \A x \in DOMAIN metrics : line.id = None \/ metrics[x] # line.id
           /\ SameName(m, line.label)
    <2>1. byId = {}
        BY <1>1, <1>3, Zenon DEF ById
    <2>2. CASE g[1] \in DOMAIN metrics
        <3>1. Matched(metrics, g) = g[1]
            BY <2>1, <2>2, Zenon DEF Matched
        <3>2. SameName(g[1], m)
            BY <1>1, <1>3, Zenon DEF SameName
        <3> QED
            BY <2>2, <3>1, <3>2, Zenon DEF g
    <2>3. CASE g[1] \notin DOMAIN metrics
        <3>1. BySpelling(metrics, g[1]) = {m}
            <4>1. m \in BySpelling(metrics, g[1])
                BY <1>1, <1>3, Zenon DEF BySpelling
            <4>2. ASSUME NEW x \in BySpelling(metrics, g[1])  PROVE x = m
                <5>1. x \in DOMAIN metrics /\ SameName(x, m)
                    BY <1>1, <1>3, Zenon DEF BySpelling, SameName
                <5> QED
                    BY <5>1, Zenon
            <4> QED
                BY <4>1, <4>2, Zenon
        <3>2. Cardinality({m}) = 1
            BY FS_Singleton
        <3>3. Matched(metrics, g) = CHOOSE x \in {m} : TRUE
            BY <2>1, <2>3, <3>1, <3>2, Zenon DEF Matched
        <3> QED
            BY <3>3 DEF g
    <2> QED
        BY <2>2, <2>3, Zenon
<1> QED
    BY <1>2, <1>3, Zenon DEF IsFor

\* A join changes budgets only, to amounts of the lines for their rows
\* (mapping.py match_budget_to_dataset).
THEOREM JoinsOnlyFillIn == MonthEndSpec => JoinOnlyFillsIn
<1>1. ASSUME DatasetInv, NamesInv, [MonthEndNext]_monthEndVars
      PROVE  [\A lines \in BudgetFiles : MatchBudget(lines) => FillsIn(lines)]_monthEndVars
    <2> SUFFICES ASSUME NEW lines \in BudgetFiles, MatchBudget(lines)  PROVE FillsIn(lines)
        OBVIOUS
    <2> DEFINE reached == {k \in DOMAIN table : Reaching(metrics, table, lines, k) # {}}
               For(k) == {i \in DOMAIN lines : lines[i].period = k[2] /\ IsFor(lines[i], k[1])}
               One(k, i) == {j \in For(k) : /\ lines[j].label = lines[i].label
                                             /\ lines[j].id = lines[i].id}
               Sure(k) == \A m \in DOMAIN metrics \ {k[1]} :
                              /\ ~SameName(m, k[1])
                              /\ metrics[m] = None \/ metrics[m] # metrics[k[1]]
    <2>1. /\ DOMAIN table' = DOMAIN table
          /\ \A k \in DOMAIN table :
                /\ table'[k].value = table[k].value
                /\ k \in reached => \E g \in Reaching(metrics, table, lines, k) :
                                       table'[k].budget = GroupBudget(lines, g)
                /\ k \notin reached => table'[k].budget = table[k].budget
        BY <1>1, JoinIs, Zenon
    <2>2. \A k \in DOMAIN table : k = <<k[1], k[2]>> /\ k[1] \in DOMAIN metrics
        BY <1>1 DEF DatasetInv, SheetTypes
    <2>3. \A i, j : GroupOf(lines[j]) = GroupOf(lines[i])
                       <=> /\ lines[j].label = lines[i].label
                           /\ lines[j].period = lines[i].period
                           /\ lines[j].id = lines[i].id
        BY DEF GroupOf
    <2>4. \A i : GroupOf(lines[i])[2] = lines[i].period
        BY DEF GroupOf
    <2>5. ASSUME NEW k \in DOMAIN table, NEW g \in Reaching(metrics, table, lines, k)
          PROVE  \E i \in For(k) : /\ g = GroupOf(lines[i])
                                   /\ GroupBudget(lines, g)
                                        = SumFunction([j \in One(k, i) |-> lines[j].value])
        <3>1. PICK i \in DOMAIN lines : g = GroupOf(lines[i])
            BY Zenon DEF Reaching, Groups
        <3>2. <<Matched(metrics, g), g[2]>> = k
            BY Zenon DEF Reaching
        <3>3. Matched(metrics, g) = k[1] /\ lines[i].period = k[2]
            BY <3>1, <3>2, <2>4
        <3>4. IsFor(lines[i], k[1])
            BY <1>1, <2>2, <3>1, <3>3, MatchedIsFor, Zenon
        <3>5. {j \in DOMAIN lines : GroupOf(lines[j]) = g} = One(k, i)
            <4>1. \A j : lines[j].label = lines[i].label /\ lines[j].id = lines[i].id
                            => IsFor(lines[j], k[1])
                <5> SUFFICES ASSUME NEW j, lines[j].label = lines[i].label,
                                    lines[j].id = lines[i].id
                             PROVE  IsFor(lines[j], k[1])
                    OBVIOUS
                <5>1. CASE lines[i].id # None /\ metrics[k[1]] = lines[i].id
                    BY <5>1, Zenon DEF IsFor
                <5>2. CASE /\ \A x \in DOMAIN metrics :
                                lines[i].id = None \/ metrics[x] # lines[i].id
                           /\ SameName(k[1], lines[i].label)
                    BY <5>2, Zenon DEF IsFor
                <5> QED
                    BY <3>4, <5>1, <5>2, Zenon DEF IsFor
            <4>2. ASSUME NEW j \in DOMAIN lines
                  PROVE  GroupOf(lines[j]) = g <=> j \in One(k, i)
                <5>1. GroupOf(lines[j]) = g <=> /\ lines[j].label = lines[i].label
                                                /\ lines[j].period = k[2]
                                                /\ lines[j].id = lines[i].id
                    BY <2>3, <3>1, <3>3, Zenon
                <5> QED
                    BY <4>1, <5>1, Zenon
            <4> QED
                BY <4>2, Zenon
        <3>6. GroupBudget(lines, g) = SumFunction([j \in One(k, i) |-> lines[j].value])
            BY <3>5, Zenon DEF GroupBudget
        <3> QED
            BY <3>1, <3>3, <3>4, <3>6, Zenon
    <2>6. ASSUME NEW k \in DOMAIN table, NEW i \in For(k), Sure(k)
          PROVE  k \in reached
        <3>1. Matched(metrics, GroupOf(lines[i])) = k[1]
            BY <2>2, <2>6, ForIsMatched, Zenon
        <3>2. GroupOf(lines[i]) \in Reaching(metrics, table, lines, k)
            <4>1. <<Matched(metrics, GroupOf(lines[i])), GroupOf(lines[i])[2]>> = k
                BY <2>2, <2>4, <3>1, Zenon
            <4> QED
                BY <4>1, Zenon DEF Reaching, Groups
        <3> QED
            BY <3>2, Zenon
    <2> HIDE DEF reached
    <2>7. ASSUME NEW k \in DOMAIN table
          PROVE  /\ table'[k].value = table[k].value
                 /\ For(k) = {} => table'[k].budget = table[k].budget
                 /\ For(k) # {} /\ Sure(k) =>
                       \E i \in For(k) :
                           table'[k].budget = SumFunction([j \in One(k, i) |-> lines[j].value])
        <3> HIDE DEF For, One, Sure
        <3>1. k \in reached =>
                 \E i \in For(k) :
                     table'[k].budget = SumFunction([j \in One(k, i) |-> lines[j].value])
            BY <2>1, <2>5, Zenon
        <3>2. For(k) # {} /\ Sure(k) => k \in reached
            BY <2>6, Zenon
        <3> QED
            BY <2>1, <3>1, <3>2, Zenon
    <2> QED
        BY <2>1, <2>7, Zenon DEF FillsIn
<1> QED
    BY <1>1, DatasetBegins, DatasetStays, NamesBegin, NamesStay,
       PTL DEF MonthEndSpec, JoinOnlyFillsIn

=============================================================================
