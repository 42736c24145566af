------------------------- MODULE YampChannelsProofs -------------------------
(***************************************************************************)
(* Proofs about YampChannels, for any accounts, names, asked positions and *)
(* bounds, with any number of failed writes, aborted requests and crashes. *)
(*                                                                         *)
(* The properties about positions speak of states between two requests;    *)
(* the inductive invariant says what holds in the middle of one: the group *)
(* a request works on has a gap, which is the position the inserted row or *)
(* the moved channel is about to take, and its other channels are as they  *)
(* should be.                                                              *)
(***************************************************************************)
EXTENDS YampChannels, SequenceTheorems, FiniteSetTheorems,
        WellFoundedInduction, TLAPS

-----------------------------------------------------------------------------
(* The inductive invariant.                                                *)

\* A request that is about to insert a channel was let in with room for it.
RoomForRow ==
    job.op \in {"general", "insert"} => Len(channels) < MaxChannels

\* A new space is known to nobody before its creator is a member of it.
NewSpacesAreEmpty ==
    /\ \A c \in DOMAIN channels : channels[c].space <= made
    /\ \A m \in DOMAIN members : members[m].space <= made
    /\ job.op = "insert" => job.row.space <= made
    /\ job.op \in {"general", "member"} =>
           /\ job.space = made
           /\ \A m \in DOMAIN members : members[m].space # made
    /\ job.op = "general" =>
           \A c \in DOMAIN channels : channels[c].space # made

\* Only members with a connection were sent the channels of a space.
ViewersAreMembers ==
    \A u \in Users, s \in Spaces :
        view[u][s] # NoList => u \in online /\ IsMember(u, s)

\* The channels a move has taken out of their places; the position it, or an
\* insertion, keeps free; the channels of a group that are in place.
Moving ==
    IF job.op \in {"shift", "place"} THEN Named(job.space, job.name) ELSE {}

Gap ==
    CASE job.op = "insert" -> job.row.pos
      [] job.op = "shift" -> job.from
      [] job.op = "place" -> job.to
      [] OTHER -> 0

Settled(g) == Siblings(g) \ Moving

\* The positions of a set of channels in a table; no two of them the same.
PosOf(ch, S) == {ch[c].pos : c \in S}
Distinct(ch, S) == \A c, d \in S : c # d => ch[c].pos # ch[d].pos

Positions(S) == PosOf(channels, S)
Apart(S) == Distinct(channels, S)

\* The channels in place are apart, and the gap is free for the only channel
\* that is to go there.
InPlace(g) ==
    /\ Apart(Settled(g))
    /\ g \in Unfinished =>
           /\ Gap \notin Positions(Settled(g))
           /\ Moving # {} => \E c \in DOMAIN channels : Moving = {c}

\* The channels in place leave out the gap and no other position.
Numbered(g) ==
    \E N \in Nat :
        IF g \in Unfinished
        THEN /\ Positions(Settled(g)) = (0 .. N) \ {Gap}
             /\ Gap \in 0 .. N
             /\ job.op = "shift" => job.to \in 0 .. N
        ELSE Positions(Settled(g)) = 0 .. N - 1

UntiedAreInPlace == \A g \in Groups \ tied : InPlace(g)
SmoothAreNumbered == \A g \in Groups \ (tied \cup gappy) : Numbered(g)

IInv ==
    /\ TypeOK
    /\ RoomForRow
    /\ NewSpacesAreEmpty
    /\ ViewersAreMembers
    /\ ListsAreCurrent
    /\ PromisedSpacesHaveMembers
    /\ SpacesAreInOrder
    /\ UntiedAreInPlace
    /\ SmoothAreNumbered

-----------------------------------------------------------------------------
(* Least and greatest elements.                                            *)

\* A set of natural numbers has a least element.
LEMMA LeastExists ==
    ASSUME NEW S \in SUBSET Nat, S # {}
    PROVE  \E k \in S : \A l \in S : k <= l
<1> DEFINE Below(k) == {l \in S : l < k}
           F == {Below(k) : k \in S}
<1>1. ASSUME NEW k \in S PROVE Below(k) \in FiniteSubsetsOf(Nat)
  <2>. k \in Nat /\ S \subseteq Nat
    OBVIOUS
  <2>1. IsFiniteSet(0 .. k - 1)
    BY FS_Interval
  <2>2. Below(k) \in SUBSET (0 .. k - 1)
    <3>1. ASSUME NEW m \in S, m < k PROVE m \in 0 .. k - 1
      <4>1. m \in Nat
        OBVIOUS
      <4>. QED
        BY <3>1, <4>1
    <3>. QED
      BY <3>1
  <2>3. IsFiniteSet(Below(k))
    BY <2>1, <2>2, FS_Subset
  <2>. QED
    BY <2>3 DEF FiniteSubsetsOf
<1>2. F \subseteq FiniteSubsetsOf(Nat) /\ F # {}
  BY <1>1
<1>3. IsWellFoundedOn(StrictSubsetOrdering(Nat), FiniteSubsetsOf(Nat))
  BY FS_StrictSubsetOrderingWellFounded
<1>4. PICK T \in F : \A U \in F : ~ (<<U, T>> \in StrictSubsetOrdering(Nat))
  BY <1>2, <1>3, WFMin
<1>5. PICK k \in S : T = Below(k)
  BY <1>4
<1>6. ASSUME NEW l \in S, l < k PROVE FALSE
  <2>. k \in Nat /\ l \in Nat /\ S \subseteq Nat
    OBVIOUS
  <2>0. Below(l) \subseteq Below(k)
    <3>1. ASSUME NEW m \in S, m < l PROVE m < k
      <4>1. m \in Nat
        OBVIOUS
      <4>. QED
        BY <1>6, <3>1, <4>1
    <3>. QED
      BY <3>1
  <2>1. Below(l) \subseteq Below(k) /\ l \in Below(k) /\ l \notin Below(l)
    BY <1>6, <2>0
  <2>2. Below(l) \in SUBSET Nat /\ Below(k) \in SUBSET Nat /\ Below(l) # Below(k)
    BY <2>1
  <2>3. <<Below(l), Below(k)>> \in StrictSubsetOrdering(Nat)
    BY <2>1, <2>2 DEF StrictSubsetOrdering
  <2>. QED
    BY <1>4, <1>5, <2>3
<1>. QED
  BY <1>6

\* A finite set of integers has a greatest element, which Greatest chooses.
LEMMA GreatestExists ==
    ASSUME NEW S \in SUBSET Int, IsFiniteSet(S), S # {}
    PROVE  Greatest(S) \in S /\ \A x \in S : x <= Greatest(S)
<1> DEFINE Above(k) == {l \in S : k < l}
           F == {Above(k) : k \in S}
<1>1. ASSUME NEW k \in S PROVE Above(k) \in FiniteSubsetsOf(Int)
  <2>1. Above(k) \in SUBSET S
    OBVIOUS
  <2>2. IsFiniteSet(Above(k))
    BY <2>1, FS_Subset
  <2>. QED
    BY <2>1, <2>2 DEF FiniteSubsetsOf
<1>2. F \subseteq FiniteSubsetsOf(Int) /\ F # {}
  BY <1>1
<1>3. IsWellFoundedOn(StrictSubsetOrdering(Int), FiniteSubsetsOf(Int))
  BY FS_StrictSubsetOrderingWellFounded
<1>4. PICK T \in F : \A U \in F : ~ (<<U, T>> \in StrictSubsetOrdering(Int))
  BY <1>2, <1>3, WFMin
<1>5. PICK k \in S : T = Above(k)
  BY <1>4
<1>6. ASSUME NEW l \in S, k < l PROVE FALSE
  <2>. k \in Int /\ l \in Int /\ S \subseteq Int
    OBVIOUS
  <2>0. Above(l) \subseteq Above(k)
    <3>1. ASSUME NEW m \in S, l < m PROVE k < m
      <4>1. m \in Int
        OBVIOUS
      <4>. QED
        BY <1>6, <3>1, <4>1
    <3>. QED
      BY <3>1
  <2>1. Above(l) \subseteq Above(k) /\ l \in Above(k) /\ l \notin Above(l)
    BY <1>6, <2>0
  <2>2. /\ Above(l) \in SUBSET Int /\ Above(k) \in SUBSET Int
        /\ Above(l) # Above(k)
    BY <2>1
  <2>3. <<Above(l), Above(k)>> \in StrictSubsetOrdering(Int)
    BY <2>1, <2>2 DEF StrictSubsetOrdering
  <2>. QED
    BY <1>4, <1>5, <2>3
<1>7. \A l \in S : l <= k
  BY <1>6
<1>. QED
  BY <1>7 DEF Greatest

\* An element that is no smaller than the others is the greatest.
LEMMA GreatestIs ==
    ASSUME NEW S \in SUBSET Int, NEW x \in S, \A y \in S : y <= x
    PROVE  Greatest(S) = x
<1>1. Greatest(S) \in S /\ \A y \in S : y <= Greatest(S)
  BY DEF Greatest
<1>2. Greatest(S) <= x /\ x <= Greatest(S) /\ x \in Int /\ Greatest(S) \in Int
  BY <1>1
<1>. QED
  BY <1>2

-----------------------------------------------------------------------------
(* The tables.                                                             *)

\* Rows have groups, and tables are finite.
LEMMA RowFacts ==
    ASSUME TypeOK
    PROVE  /\ DOMAIN channels = 1 .. Len(channels) /\ Len(channels) \in Nat
           /\ \A c \in DOMAIN channels :
                  /\ channels[c] \in Rows
                  /\ channels[c].space \in Spaces /\ channels[c].name \in Names
                  /\ channels[c].parent \in 0 .. MaxChannels
                  /\ channels[c].pos \in Int
                  /\ Group(c) \in Groups /\ c \in 1 .. MaxChannels
           /\ IsFiniteSet(DOMAIN channels)
<1>1. DOMAIN channels = 1 .. Len(channels) /\ Len(channels) \in Nat
  BY DEF TypeOK
<1>2. ASSUME NEW c \in DOMAIN channels
      PROVE  channels[c] \in Rows /\ c \in 1 .. MaxChannels
  BY <1>1, BoundsAssumption DEF TypeOK
<1>3. ASSUME NEW r \in Rows
      PROVE  /\ r.space \in Spaces /\ r.name \in Names
             /\ r.parent \in 0 .. MaxChannels /\ r.pos \in Int
  BY DEF Rows
<1>4. \A c \in DOMAIN channels : Group(c) \in Groups
  BY <1>2, <1>3 DEF Group, Groups
<1>5. IsFiniteSet(DOMAIN channels)
  BY <1>1, FS_Interval
<1>. QED
  BY <1>1, <1>2, <1>3, <1>4, <1>5

LEMMA SiblingsFinite ==
    ASSUME TypeOK, NEW g
    PROVE  /\ IsFiniteSet(Siblings(g)) /\ IsFiniteSet(Positions(Siblings(g)))
           /\ Positions(Siblings(g)) \in SUBSET Int
           /\ Siblings(g) = {} <=> Positions(Siblings(g)) = {}
<1>1. Siblings(g) \in SUBSET DOMAIN channels
  BY DEF Siblings
<1>2. IsFiniteSet(Siblings(g))
  BY <1>1, RowFacts, FS_Subset
<1>3. IsFiniteSet(Positions(Siblings(g)))
  <2> DEFINE f == [c \in Siblings(g) |-> channels[c].pos]
  <2>1. f \in Surjection(Siblings(g), Positions(Siblings(g)))
    BY DEF Surjection, Positions, PosOf
  <2>. QED
    BY <1>2, <2>1, FS_Surjection
<1>4. Positions(Siblings(g)) \in SUBSET Int
  BY <1>1, RowFacts DEF Positions, PosOf
<1>. QED
  BY <1>2, <1>3, <1>4 DEF Positions, PosOf

\* The next position of a group is behind those of its channels.
LEMMA NextPosIsBehind ==
    ASSUME TypeOK, NEW g
    PROVE  /\ NextPos(g) \in Int
           /\ \A c \in Siblings(g) : channels[c].pos < NextPos(g)
<1> DEFINE P == Positions(Siblings(g))
<1>1. CASE Siblings(g) = {}
  BY <1>1 DEF NextPos
<1>2. CASE Siblings(g) # {}
  <2>1. P \in SUBSET Int /\ IsFiniteSet(P) /\ P # {}
    BY <1>2, SiblingsFinite
  <2>2. Greatest(P) \in P /\ \A x \in P : x <= Greatest(P)
    BY <2>1, GreatestExists
  <2>3. NextPos(g) = Greatest(P) + 1
    BY <1>2 DEF NextPos, Positions, PosOf
  <2>4. \A c \in Siblings(g) : channels[c].pos \in P
    BY DEF Positions, PosOf
  <2>5. Greatest(P) \in Int
    BY <2>1, <2>2
  <2>6. ASSUME NEW x \in P
        PROVE  x < Greatest(P) + 1
    <3>1. x \in Int /\ x <= Greatest(P)
      BY <2>1, <2>2
    <3>. QED
      BY <2>5, <3>1
  <2>. QED
    BY <2>3, <2>4, <2>5, <2>6
<1>. QED
  BY <1>1, <1>2

\* If a group is numbered 0 .. N-1 its next position is N.
LEMMA NextPosOfDense ==
    ASSUME TypeOK, NEW g, NEW N \in Nat, Positions(Siblings(g)) = 0 .. N - 1
    PROVE  NextPos(g) = N
<1>1. CASE N = 0
  <2>1. Siblings(g) = {}
    BY <1>1, SiblingsFinite
  <2>. QED
    BY <1>1, <2>1 DEF NextPos
<1>2. CASE N # 0
  <2>1. Siblings(g) # {}
    <3>1. 0 \in Positions(Siblings(g))
      BY <1>2
    <3>. QED
      BY <3>1 DEF Positions, PosOf
  <2>2. N - 1 \in 0 .. N - 1 /\ 0 .. N - 1 \in SUBSET Int
    BY <1>2
  <2>3. \A y \in 0 .. N - 1 : y <= N - 1
    OBVIOUS
  <2>4. Greatest(0 .. N - 1) = N - 1
    BY <2>2, <2>3, GreatestIs
  <2>5. NextPos(g) = Greatest(Positions(Siblings(g))) + 1
    BY <2>1 DEF NextPos, Positions, PosOf
  <2>. QED
    BY <2>4, <2>5
<1>. QED
  BY <1>1, <1>2

\* A step that changes no more of the table than positions.
OnlyMoves ==
    /\ channels' = [c \in DOMAIN channels |-> channels'[c]]
    /\ \A c \in DOMAIN channels :
           \E x \in Int : channels'[c] = [channels[c] EXCEPT !.pos = x]

LEMMA UnchangedMoves ==
    ASSUME TypeOK, UNCHANGED channels
    PROVE  OnlyMoves
<1>1. ASSUME NEW r \in Rows
      PROVE  r.pos \in Int /\ r = [r EXCEPT !.pos = r.pos]
  BY DEF Rows
<1>2. ASSUME NEW c \in DOMAIN channels
      PROVE  \E x \in Int : channels'[c] = [channels[c] EXCEPT !.pos = x]
  BY <1>1, RowFacts
<1>3. channels = [c \in DOMAIN channels |-> channels[c]]
  BY DEF TypeOK
<1>. QED
  BY <1>2, <1>3 DEF OnlyMoves

LEMMA ShiftMoves ==
    ASSUME TypeOK, NEW S, NEW d \in Int, channels' = Shift(S, d)
    PROVE  /\ OnlyMoves
           /\ \A c \in DOMAIN channels :
                  channels'[c].pos = IF c \in S THEN channels[c].pos + d
                                     ELSE channels[c].pos
<1>1. channels' = [c \in DOMAIN channels |-> channels'[c]]
  BY DEF Shift
<1>2. ASSUME NEW r \in Rows
      PROVE  /\ r.pos \in Int /\ r = [r EXCEPT !.pos = r.pos] /\ r.pos + d \in Int
             /\ \A x : [r EXCEPT !.pos = x].pos = x
  BY DEF Rows
<1>3. ASSUME NEW c \in DOMAIN channels
      PROVE  /\ \E x \in Int : channels'[c] = [channels[c] EXCEPT !.pos = x]
             /\ channels'[c].pos = IF c \in S THEN channels[c].pos + d
                                   ELSE channels[c].pos
  <2>1. channels'[c] = IF c \in S
                       THEN [channels[c] EXCEPT !.pos = channels[c].pos + d]
                       ELSE channels[c]
    BY DEF Shift
  <2>. QED
    BY <1>2, <2>1, RowFacts
<1>. QED
  BY <1>1, <1>3 DEF OnlyMoves

LEMMA PlaceMoves ==
    ASSUME TypeOK, NEW S, NEW p \in Int, channels' = Place(S, p)
    PROVE  /\ OnlyMoves
           /\ \A c \in DOMAIN channels :
                  channels'[c].pos = IF c \in S THEN p ELSE channels[c].pos
<1>1. channels' = [c \in DOMAIN channels |-> channels'[c]]
  BY DEF Place
<1>2. ASSUME NEW r \in Rows
      PROVE  /\ r.pos \in Int /\ r = [r EXCEPT !.pos = r.pos]
             /\ \A x : [r EXCEPT !.pos = x].pos = x
  BY DEF Rows
<1>3. ASSUME NEW c \in DOMAIN channels
      PROVE  /\ \E x \in Int : channels'[c] = [channels[c] EXCEPT !.pos = x]
             /\ channels'[c].pos = IF c \in S THEN p ELSE channels[c].pos
  <2>1. channels'[c] = IF c \in S THEN [channels[c] EXCEPT !.pos = p]
                       ELSE channels[c]
    BY DEF Place
  <2>. QED
    BY <1>2, <2>1, RowFacts
<1>. QED
  BY <1>1, <1>3 DEF OnlyMoves

\* Moving channels changes no group, no name and no list.
LEMMA MovesKeep ==
    ASSUME TypeOK, OnlyMoves
    PROVE  /\ channels' \in Seq(Rows) /\ Len(channels') = Len(channels)
           /\ \A c \in DOMAIN channels : Group(c)' = Group(c)
           /\ \A c \in DOMAIN channels :
                  /\ channels'[c].space = channels[c].space
                  /\ channels'[c].name = channels[c].name
           /\ \A g : Siblings(g)' = Siblings(g)
           /\ \A s : InSpace(s)' = InSpace(s)
           /\ \A s, n : Named(s, n)' = Named(s, n)
           /\ \A s, n : OwnGroups(s, n)' = OwnGroups(s, n)
<1>1. ASSUME NEW r \in Rows, NEW x \in Int
      PROVE  /\ [r EXCEPT !.pos = x] \in Rows
             /\ [r EXCEPT !.pos = x].space = r.space
             /\ [r EXCEPT !.pos = x].name = r.name
             /\ [r EXCEPT !.pos = x].parent = r.parent
  BY DEF Rows
<1>2. ASSUME NEW c \in DOMAIN channels
      PROVE  /\ channels'[c] \in Rows
             /\ channels'[c].space = channels[c].space
             /\ channels'[c].name = channels[c].name
             /\ channels'[c].parent = channels[c].parent
  <2>1. PICK x \in Int : channels'[c] = [channels[c] EXCEPT !.pos = x]
    BY DEF OnlyMoves
  <2>. QED
    BY <1>1, <2>1, RowFacts
<1>3. DOMAIN channels' = 1 .. Len(channels) /\ Len(channels) \in Nat
  BY RowFacts DEF OnlyMoves
<1>4. channels' = [c \in 1 .. Len(channels) |-> channels'[c]]
  BY RowFacts DEF OnlyMoves
<1>5. channels' \in Seq(Rows) /\ Len(channels') = Len(channels)
  BY <1>2, <1>3, <1>4, IsASeq
<1>6. \A c \in DOMAIN channels : Group(c)' = Group(c)
  BY <1>2 DEF Group
<1>7. \A g : Siblings(g)' = Siblings(g)
  BY <1>3, <1>6, RowFacts DEF Siblings
<1>8. \A s : InSpace(s)' = InSpace(s)
  BY <1>2, <1>3, RowFacts DEF InSpace
<1>9. \A s, n : Named(s, n)' = Named(s, n)
  BY <1>2, <1>8 DEF Named, InSpace
<1>10. \A s, n : OwnGroups(s, n)' = OwnGroups(s, n)
  <2>1. ASSUME NEW s, NEW n
        PROVE  OwnGroups(s, n)' = OwnGroups(s, n)
    <3>1. Named(s, n)' = Named(s, n) /\ Named(s, n) \subseteq DOMAIN channels
      BY <1>9 DEF Named, InSpace
    <3>. QED
      BY <1>6, <3>1 DEF OwnGroups
  <2>. QED
    BY <2>1
<1>. QED
  BY <1>2, <1>5, <1>6, <1>7, <1>8, <1>9, <1>10

\* Appending a row adds one channel to one group and one space.
LEMMA AppendAdds ==
    ASSUME TypeOK, NEW row \in Rows, channels' = Append(channels, row)
    PROVE  LET k == Len(channels) + 1
           IN  /\ k \notin DOMAIN channels
               /\ channels' \in Seq(Rows) /\ Len(channels') = k
               /\ DOMAIN channels' = DOMAIN channels \cup {k}
               /\ channels'[k] = row
               /\ \A c \in DOMAIN channels : channels'[c] = channels[c]
               /\ \A g : Siblings(g)' =
                      IF g = <<row.space, row.parent>>
                      THEN Siblings(g) \cup {k} ELSE Siblings(g)
               /\ \A s : InSpace(s)' = IF s = row.space
                                       THEN InSpace(s) \cup {k} ELSE InSpace(s)
<1> DEFINE k == Len(channels) + 1
<1>1. DOMAIN channels = 1 .. Len(channels) /\ Len(channels) \in Nat
  BY RowFacts
<1>2. channels \in Seq(Rows)
  BY DEF TypeOK
<1>3. /\ channels' \in Seq(Rows) /\ Len(channels') = k
      /\ channels'[k] = row
      /\ \A c \in 1 .. Len(channels) : channels'[c] = channels[c]
  BY <1>2, AppendProperties
<1>4. DOMAIN channels' = 1 .. k
  BY <1>3
<1>5. k \notin DOMAIN channels /\ DOMAIN channels' = DOMAIN channels \cup {k}
  BY <1>1, <1>4
<1>6. \A g : Siblings(g)' = IF g = <<row.space, row.parent>>
                            THEN Siblings(g) \cup {k} ELSE Siblings(g)
  BY <1>1, <1>3, <1>5 DEF Siblings, Group
<1>7. \A s : InSpace(s)' = IF s = row.space THEN InSpace(s) \cup {k}
                           ELSE InSpace(s)
  BY <1>1, <1>3, <1>5 DEF InSpace
<1>. QED
  BY <1>1, <1>3, <1>5, <1>6, <1>7

-----------------------------------------------------------------------------
(* The spaces of an account.                                               *)

\* The memberships of an account, and those of them before a row.
Own(u) == {m \in DOMAIN members : members[m].user = u}
OwnBefore(u, m) == {k \in 1 .. m - 1 : members[k].user = u}

LEMMA MemberFacts ==
    ASSUME TypeOK
    PROVE  /\ DOMAIN members = 1 .. Len(members) /\ Len(members) \in Nat
           /\ \A m \in DOMAIN members :
                  /\ members[m].user \in Users /\ members[m].space \in Spaces
                  /\ members[m].pos \in Nat
           /\ \A u : Own(u) \in SUBSET Nat /\ IsFiniteSet(Own(u))
<1>1. DOMAIN members = 1 .. Len(members) /\ Len(members) \in Nat
  BY DEF TypeOK
<1>2. ASSUME NEW m \in DOMAIN members
      PROVE  /\ members[m].user \in Users /\ members[m].space \in Spaces
             /\ members[m].pos \in Nat
  <2> DEFINE Row == [user : Users, space : Spaces, pos : Nat]
  <2>1. members \in Seq(Row) /\ m \in 1 .. Len(members)
    BY <1>1 DEF TypeOK
  <2>. HIDE DEF Row
  <2>2. members[m] \in Row
    BY <2>1
  <2>. QED
    BY <2>2 DEF Row
<1>3. ASSUME NEW u
      PROVE  Own(u) \in SUBSET Nat /\ IsFiniteSet(Own(u))
  <2>1. Own(u) \in SUBSET (1 .. Len(members))
    BY <1>1 DEF Own
  <2>2. IsFiniteSet(1 .. Len(members))
    BY <1>1, FS_Interval
  <2>3. 1 .. Len(members) \in SUBSET Nat
    OBVIOUS
  <2>. QED
    BY <2>1, <2>2, <2>3, FS_Subset
<1>. QED
  BY <1>1, <1>2, <1>3

\* The position a new membership gets is the number of those the account has:
\* the greatest one so far is that of the account's last row.
LEMMA NextSpacePosCounts ==
    ASSUME TypeOK, SpacesAreInOrder, NEW u
    PROVE  NextSpacePos(u) = Cardinality(Own(u))
<1> DEFINE P == {members[m].pos : m \in Own(u)}
<1>1. CASE Own(u) = {}
  <2>1. Cardinality(Own(u)) = 0
    BY <1>1, FS_EmptySet
  <2>2. NextSpacePos(u) = 0
    BY <1>1 DEF NextSpacePos, Own
  <2>. QED
    BY <2>1, <2>2
<1>2. CASE Own(u) # {}
  <2> DEFINE last == Greatest(Own(u))
             n == Cardinality(Own(u))
  <2>1. IsFiniteSet(Own(u)) /\ Own(u) \in SUBSET Int
    BY MemberFacts
  <2>2. last \in Own(u) /\ \A m \in Own(u) : m <= last
    BY <1>2, <2>1, GreatestExists
  <2>. HIDE DEF last
  <2>3. n \in Nat
    BY <2>1, FS_CardinalityType
  <2>4. ASSUME NEW m \in Own(u)
        PROVE  /\ OwnBefore(u, m) \subseteq Own(u) \ {m}
               /\ members[m].pos = Cardinality(OwnBefore(u, m))
               /\ Cardinality(Own(u) \ {m}) = n - 1
               /\ members[m].pos <= n - 1 /\ members[m].pos \in Nat
    <3>1. m \in DOMAIN members /\ members[m].user = u
      BY DEF Own
    <3>2. m \in 1 .. Len(members) /\ Len(members) \in Nat
          /\ DOMAIN members = 1 .. Len(members)
      BY <3>1, MemberFacts
    <3>3. 1 .. m - 1 \subseteq DOMAIN members /\ m \notin 1 .. m - 1
      BY <3>2
    <3>4. OwnBefore(u, m) \subseteq Own(u) \ {m}
      BY <3>3 DEF OwnBefore, Own
    <3>5. members[m].pos = Cardinality(OwnBefore(u, m))
      BY <3>1 DEF SpacesAreInOrder, OwnBefore
    <3>6. IsFiniteSet(Own(u) \ {m}) /\ Cardinality(Own(u) \ {m}) = n - 1
      BY <2>1, FS_RemoveElement
    <3>7. Cardinality(OwnBefore(u, m)) <= n - 1
      BY <3>4, <3>6, FS_Subset
    <3>8. members[m].pos \in Nat
      BY <3>1, MemberFacts
    <3>. QED
      BY <3>4, <3>5, <3>6, <3>7, <3>8
  <2>5. OwnBefore(u, last) = Own(u) \ {last}
    <3>1. ASSUME NEW m \in Own(u), m # last
          PROVE  m \in OwnBefore(u, last)
      <4>1. m \in 1 .. Len(members) /\ last \in 1 .. Len(members)
            /\ Len(members) \in Nat /\ members[m].user = u
        BY <2>2, MemberFacts DEF Own
      <4>2. m <= last
        BY <2>2
      <4>3. m \in 1 .. last - 1
        BY <3>1, <4>1, <4>2
      <4>. QED
        BY <4>1, <4>3 DEF OwnBefore
    <3>. QED
      BY <2>2, <2>4, <3>1
  <2>6. members[last].pos = n - 1
    BY <2>2, <2>4, <2>5
  <2>7. P \in SUBSET Int /\ n - 1 \in P /\ \A y \in P : y <= n - 1
    <3>1. members[last].pos \in P
      BY <2>2
    <3>2. ASSUME NEW y \in P
          PROVE  y \in Int /\ y <= n - 1
      <4>1. PICK m \in Own(u) : y = members[m].pos
        OBVIOUS
      <4>2. members[m].pos <= n - 1 /\ members[m].pos \in Nat
        BY <2>4
      <4>. QED
        BY <4>1, <4>2
    <3>. QED
      BY <2>6, <3>1, <3>2
  <2>8. Greatest(P) = n - 1
    BY <2>7, GreatestIs
  <2>9. NextSpacePos(u) = Greatest(P) + 1
    BY <1>2 DEF NextSpacePos, Own
  <2>. QED
    BY <2>3, <2>8, <2>9
<1>. QED
  BY <1>1, <1>2

\* One more membership, with the position NextSpacePos gives it.
LEMMA MemberAdded ==
    ASSUME TypeOK, SpacesAreInOrder, NEW u \in Users, NEW s \in Spaces,
           members' = Append(members, [user |-> u, space |-> s,
                                       pos |-> NextSpacePos(u)])
    PROVE  /\ members' \in Seq([user : Users, space : Spaces, pos : Nat])
           /\ DOMAIN members' = DOMAIN members \cup {Len(members) + 1}
           /\ \A m \in DOMAIN members : members'[m] = members[m]
           /\ members'[Len(members) + 1].user = u
           /\ members'[Len(members) + 1].space = s
           /\ SpacesAreInOrder'
<1> DEFINE k == Len(members) + 1
           row == [user |-> u, space |-> s, pos |-> NextSpacePos(u)]
           Row == [user : Users, space : Spaces, pos : Nat]
<1>1. NextSpacePos(u) = Cardinality(Own(u)) /\ IsFiniteSet(Own(u))
  BY NextSpacePosCounts, MemberFacts
<1>2. NextSpacePos(u) \in Nat
  BY <1>1, FS_CardinalityType
<1>3. row \in Row /\ members \in Seq(Row)
  BY <1>2 DEF TypeOK
<1>4. DOMAIN members = 1 .. Len(members) /\ Len(members) \in Nat
  BY MemberFacts
<1>5. /\ members' \in Seq(Row) /\ Len(members') = k /\ members'[k] = row
      /\ \A m \in 1 .. Len(members) : members'[m] = members[m]
  BY <1>3, AppendProperties
<1>6. DOMAIN members' = 1 .. k /\ 1 .. k = (1 .. Len(members)) \cup {k}
  BY <1>4, <1>5
<1>7. ASSUME NEW m \in 1 .. k
      PROVE  /\ 1 .. m - 1 \subseteq 1 .. Len(members)
             /\ \A v : {i \in 1 .. m - 1 : members'[i].user = v} = OwnBefore(v, m)
  <2>1. 1 .. m - 1 \subseteq 1 .. Len(members)
    BY <1>4
  <2>. QED
    BY <1>5, <2>1 DEF OwnBefore
<1>8. ASSUME NEW m \in DOMAIN members'
      PROVE  members'[m].pos =
                 Cardinality({i \in 1 .. m - 1 :
                                 members'[i].user = members'[m].user})
  <2>1. CASE m = k
    <3>1. members'[k].user = u /\ members'[k].pos = NextSpacePos(u)
      BY <1>5
    <3>2. OwnBefore(u, k) = Own(u)
      <4>1. k - 1 = Len(members)
        BY <1>4
      <4>. QED
        BY <1>4, <4>1 DEF OwnBefore, Own
    <3>3. {i \in 1 .. k - 1 : members'[i].user = u} = OwnBefore(u, k)
      BY <1>4, <1>7
    <3>. QED
      BY <1>1, <2>1, <3>1, <3>2, <3>3
  <2>2. CASE m # k
    <3>1. m \in DOMAIN members /\ members'[m] = members[m]
      BY <1>4, <1>5, <1>6, <2>2
    <3>2. members[m].pos = Cardinality(OwnBefore(members[m].user, m))
      BY <3>1 DEF SpacesAreInOrder, OwnBefore
    <3>3. {i \in 1 .. m - 1 : members'[i].user = members[m].user}
              = OwnBefore(members[m].user, m)
      BY <1>6, <1>7
    <3>. QED
      BY <3>1, <3>2, <3>3
  <2>. QED
    BY <2>1, <2>2
<1>9. SpacesAreInOrder'
  BY <1>8 DEF SpacesAreInOrder
<1>10. members'[k].user = u /\ members'[k].space = s
  BY <1>5
<1>. QED
  BY <1>4, <1>5, <1>6, <1>9, <1>10

-----------------------------------------------------------------------------
(* Type correctness.                                                       *)

LEMMA JobFacts ==
    ASSUME TypeOK
    PROVE  /\ job.op \in {"general", "member"} =>
                  job \in [op : {"general", "member"}, user : Users,
                           space : Spaces]
           /\ job.op = "insert" => job \in [op : {"insert"}, row : Rows]
           /\ job.op \in {"shift", "place"} =>
                  job \in [op : {"shift", "place"}, space : Spaces,
                           name : Names, from : Int, to : Int]
           /\ Idle.op = "idle"
<1>1. Idle.op = "idle"
  BY DEF Idle
<1>2. CASE job = Idle
  BY <1>1, <1>2
<1>3. CASE job \in [op : {"general", "member"}, user : Users, space : Spaces]
  BY <1>1, <1>3
<1>4. CASE job \in [op : {"insert"}, row : Rows]
  BY <1>1, <1>4
<1>5. CASE job \in [op : {"shift", "place"}, space : Spaces, name : Names,
                    from : Int, to : Int]
  BY <1>1, <1>5
<1>. QED
  BY <1>1, <1>2, <1>3, <1>4, <1>5 DEF TypeOK, Jobs

LEMMA GroupFacts ==
    ASSUME TypeOK
    PROVE  /\ \A s, n : OwnGroups(s, n) \subseteq Groups
           /\ Unfinished \subseteq Groups
<1>1. ASSUME NEW s, NEW n
      PROVE  OwnGroups(s, n) \subseteq Groups
  BY RowFacts DEF OwnGroups, Named, InSpace
<1>2. ASSUME job.op = "insert"
      PROVE  <<job.row.space, job.row.parent>> \in Groups
  <2>1. job.row \in Rows
    BY <1>2, JobFacts
  <2>. QED
    BY <2>1 DEF Rows, Groups
<1>. QED
  BY <1>1, <1>2 DEF Unfinished

LEMMA TypeInit == Init => TypeOK
<1>. SUFFICES ASSUME Init PROVE TypeOK
  OBVIOUS
<1>1. channels \in Seq(Rows) /\ Len(channels) = 0
  BY EmptySeq DEF Init
<1>2. members \in Seq([user : Users, space : Spaces, pos : Nat])
  BY EmptySeq DEF Init
<1>3. 0 \in 0 .. MaxSpaces /\ 0 \in 0 .. MaxFaults /\ 0 <= MaxChannels
  BY BoundsAssumption
<1>4. view \in [Users -> [Spaces -> {NoList} \cup SUBSET (1 .. MaxChannels)]]
  BY DEF Init
<1>. QED
  BY <1>1, <1>2, <1>3, <1>4 DEF Init, TypeOK, Jobs

LEMMA OutcomeType ==
    ASSUME faults \in 0 .. MaxFaults, NEW ok \in BOOLEAN,
           Outcome(ok)
    PROVE  faults' \in 0 .. MaxFaults
BY BoundsAssumption DEF Outcome

\* What an INSERT into channels may do, of whatever request.
LEMMA InsertType ==
    ASSUME TypeOK, NEW row \in Rows, NEW ok \in BOOLEAN, Insert(row, ok),
           Len(channels) < MaxChannels
    PROVE  /\ channels' \in Seq(Rows) /\ Len(channels') <= MaxChannels
           /\ view' \in [Users -> [Spaces ->
                             {NoList} \cup SUBSET (1 .. MaxChannels)]]
<1>. USE DEF TypeOK
<1>1. CASE ~ ok
  BY <1>1 DEF Insert
<1>2. CASE ok
  <2> DEFINE list == ChannelList(row.space) \cup {Len(channels')}
  <2>1. channels' = Append(channels, row) /\ PushUpdatedChannels(row.space, list)
    BY <1>2 DEF Insert
  <2>2. Len(channels') = Len(channels) + 1 /\ channels' \in Seq(Rows)
    BY <2>1, AppendAdds
  <2>3. Len(channels) \in Nat
    BY RowFacts
  <2>4. Len(channels') \in 1 .. MaxChannels
    BY <2>2, <2>3, BoundsAssumption
  <2>5. ChannelList(row.space) \subseteq 1 .. MaxChannels
    BY RowFacts DEF ChannelList, InSpace
  <2>6. list \in SUBSET (1 .. MaxChannels)
    BY <2>4, <2>5
  <2>. HIDE DEF list
  <2>7. view' \in [Users -> [Spaces -> {NoList} \cup SUBSET (1 .. MaxChannels)]]
    BY <2>1, <2>6 DEF PushUpdatedChannels
  <2>. QED
    BY <2>2, <2>4, <2>7
<1>. QED
  BY <1>1, <1>2

LEMMA TypeKept ==
    ASSUME TypeOK, RoomForRow, SpacesAreInOrder, [Next]_vars
    PROVE  TypeOK'
<1>. USE DEF TypeOK
<1>0. Idle \in Jobs
  BY DEF Jobs
<1>1. ASSUME NEW u \in Users, auth(u)
      PROVE  TypeOK'
  BY <1>1 DEF auth
<1>2. ASSUME NEW u \in Users, Disconnect(u)
      PROVE  TypeOK'
  BY <1>2 DEF Disconnect
<1>3. ASSUME NEW u \in Users, NEW s \in KnownSpaces, GetChannels(u, s)
      PROVE  TypeOK'
  <2>1. ChannelList(s) \in SUBSET (1 .. MaxChannels)
    BY RowFacts DEF ChannelList, InSpace
  <2>2. view' \in [Users -> [Spaces -> {NoList} \cup SUBSET (1 .. MaxChannels)]]
    BY <1>3, <2>1 DEF GetChannels
  <2>. QED
    BY <1>3, <2>2 DEF GetChannels
<1>4. ASSUME NEW u \in Users, NEW s \in KnownSpaces, NEW n \in Names,
             NEW parent \in {Top} \cup DOMAIN channels, NEW ok \in BOOLEAN
      PROVE  /\ InsertChannelLast(u, s, n, parent, ok) => TypeOK'
             /\ \A pos \in AskedPos :
                    InsertChannelAt(u, s, n, parent, pos, ok) => TypeOK'
  <2>1. s \in Spaces /\ parent \in 0 .. MaxChannels
    <3>1. made \in Nat /\ made <= MaxSpaces /\ s \in 1 .. made
      BY BoundsAssumption DEF KnownSpaces
    <3>2. Top \in 0 .. MaxChannels
      BY BoundsAssumption DEF Top
    <3>3. DOMAIN channels \subseteq 0 .. MaxChannels
      BY RowFacts, BoundsAssumption
    <3>. QED
      BY <3>1, <3>2, <3>3, BoundsAssumption DEF Spaces
  <2>2. CASE InsertChannelLast(u, s, n, parent, ok)
    <3> DEFINE row == [space |-> s, name |-> n, parent |-> parent,
                       pos |-> NextPos(<<s, parent>>)]
    <3>1. row \in Rows
      BY <2>1, NextPosIsBehind DEF Rows
    <3>2. Insert(row, ok) /\ Len(channels) < MaxChannels
      BY <2>2 DEF InsertChannelLast
    <3>. HIDE DEF row
    <3>3. /\ channels' \in Seq(Rows) /\ Len(channels') <= MaxChannels
          /\ view' \in [Users -> [Spaces ->
                            {NoList} \cup SUBSET (1 .. MaxChannels)]]
      BY <3>1, <3>2, InsertType
    <3>4. faults' \in 0 .. MaxFaults
      BY <2>2, OutcomeType DEF InsertChannelLast
    <3>. QED
      BY <2>2, <3>3, <3>4 DEF InsertChannelLast
  <2>3. ASSUME NEW pos \in AskedPos, InsertChannelAt(u, s, n, parent, pos, ok)
        PROVE  TypeOK'
    <3> DEFINE g == <<s, parent>>
               row == [space |-> s, name |-> n, parent |-> parent, pos |-> pos]
    <3>1. pos \in Int
      BY AskedAssumption
    <3>2. row \in Rows /\ g \in Groups
      BY <2>1, <3>1 DEF Rows, Groups
    <3>3. [op |-> "insert", row |-> row] \in Jobs
      BY <3>2 DEF Jobs
    <3>4. OnlyMoves
      <4>1. CASE ~ ok
        BY <2>3, <4>1, UnchangedMoves DEF InsertChannelAt
      <4>2. CASE ok
        <5>1. \E S : channels' = Shift(S, 1)
          BY <2>3, <4>2 DEF InsertChannelAt
        <5>. QED
          BY <5>1, ShiftMoves
      <4>. QED
        BY <4>1, <4>2
    <3>5. channels' \in Seq(Rows) /\ Len(channels') <= MaxChannels
      BY <3>4, MovesKeep
    <3>6. faults' \in 0 .. MaxFaults
      BY <2>3, OutcomeType DEF InsertChannelAt
    <3>7. tied' \subseteq Groups /\ gappy' \subseteq Groups
      BY <2>3, <3>2 DEF InsertChannelAt
    <3>8. job' \in Jobs
      BY <2>3, <3>3 DEF InsertChannelAt
    <3>. QED
      BY <2>3, <3>5, <3>6, <3>7, <3>8 DEF InsertChannelAt
  <2>. QED
    BY <2>2, <2>3
<1>5. ASSUME NEW ok \in BOOLEAN, NEW u \in Users, CreateSpace(u, ok)
      PROVE  TypeOK'
  <2>1. made + 1 \in Spaces /\ made + 1 \in 0 .. MaxSpaces
    BY <1>5, BoundsAssumption DEF CreateSpace, Spaces
  <2>2. faults' \in 0 .. MaxFaults
    BY <1>5, OutcomeType DEF CreateSpace
  <2>3. job' \in Jobs
    BY <1>5, <2>1 DEF CreateSpace, Jobs
  <2>. QED
    BY <1>5, <2>1, <2>2, <2>3 DEF CreateSpace
<1>6. ASSUME NEW ok \in BOOLEAN, CreateSpaceGeneral(ok)
      PROVE  TypeOK'
  <2> DEFINE row == [space |-> job.space, name |-> General, parent |-> Top,
                     pos |-> 0]
  <2>1. job \in [op : {"general", "member"}, user : Users, space : Spaces]
    BY <1>6, JobFacts DEF CreateSpaceGeneral
  <2>2. row \in Rows
    BY <2>1, GeneralAssumption, BoundsAssumption DEF Rows, Top
  <2>3. channels' \in Seq(Rows) /\ Len(channels') <= MaxChannels
    <3>1. CASE ~ ok
      BY <1>6, <3>1 DEF CreateSpaceGeneral
    <3>2. CASE ok
      <4>1. channels' = Append(channels, row)
        BY <1>6, <3>2 DEF CreateSpaceGeneral
      <4>2. channels' \in Seq(Rows) /\ Len(channels') = Len(channels) + 1
        BY <2>2, <4>1, AppendAdds
      <4>3. Len(channels) < MaxChannels /\ Len(channels) \in Nat
        BY <1>6, RowFacts DEF CreateSpaceGeneral, RoomForRow
      <4>. QED
        BY <4>2, <4>3, BoundsAssumption
    <3>. QED
      BY <3>1, <3>2
  <2>4. job' \in Jobs
    <3>1. job' = [job EXCEPT !.op = "member"]
      BY <1>6 DEF CreateSpaceGeneral
    <3>2. job' \in [op : {"general", "member"}, user : Users, space : Spaces]
      BY <2>1, <3>1
    <3>. QED
      BY <3>2 DEF Jobs
  <2>5. faults' \in 0 .. MaxFaults
    BY <1>6, OutcomeType DEF CreateSpaceGeneral
  <2>. QED
    BY <1>6, <2>3, <2>4, <2>5 DEF CreateSpaceGeneral
<1>7. ASSUME NEW ok \in BOOLEAN, CreateSpaceMember(ok)
      PROVE  TypeOK'
  <2>1. job.user \in Users /\ job.space \in Spaces
    BY <1>7, JobFacts DEF CreateSpaceMember
  <2>2. faults' \in 0 .. MaxFaults
    BY <1>7, OutcomeType DEF CreateSpaceMember
  <2>3. CASE ~ ok
    BY <1>7, <1>0, <2>2, <2>3 DEF CreateSpaceMember
  <2>4. CASE ok
    <3>1. members' \in Seq([user : Users, space : Spaces, pos : Nat])
      BY <1>7, <2>1, <2>4, MemberAdded DEF CreateSpaceMember
    <3>2. promised' \subseteq Spaces
      BY <1>7, <2>1, <2>4 DEF CreateSpaceMember
    <3>. QED
      BY <1>7, <1>0, <2>2, <3>1, <3>2 DEF CreateSpaceMember
  <2>. QED
    BY <2>3, <2>4
<1>8. ASSUME NEW ok \in BOOLEAN, InsertRow(ok)
      PROVE  TypeOK'
  <2>1. job.row \in Rows /\ Len(channels) < MaxChannels
    BY <1>8, JobFacts DEF InsertRow, RoomForRow
  <2>2. /\ channels' \in Seq(Rows) /\ Len(channels') <= MaxChannels
        /\ view' \in [Users -> [Spaces ->
                          {NoList} \cup SUBSET (1 .. MaxChannels)]]
    BY <1>8, <2>1, InsertType DEF InsertRow
  <2>3. faults' \in 0 .. MaxFaults
    BY <1>8, OutcomeType DEF InsertRow
  <2>4. gappy' \subseteq Groups
    BY <1>8, <2>1 DEF InsertRow, Rows, Groups
  <2>. QED
    BY <1>0, <1>8, <2>2, <2>3, <2>4 DEF InsertRow
<1>9. ASSUME NEW ok \in BOOLEAN, RepositionShift(ok)
      PROVE  TypeOK'
  <2> DEFINE own == OwnGroups(job.space, job.name)
             moved == {c \in InSpace(job.space) :
                          Between(job.from, job.to, channels[c].pos)}
             others == {Group(c) : c \in moved} \ own
  <2>1. job \in [op : {"shift", "place"}, space : Spaces, name : Names,
                 from : Int, to : Int]
    BY <1>9, JobFacts DEF RepositionShift
  <2>2. OnlyMoves
    <3>1. CASE ~ ok
      BY <1>9, <3>1, UnchangedMoves DEF RepositionShift
    <3>2. CASE ok
      <4>1. channels' = Shift(moved, IF job.to < job.from THEN 1 ELSE -1)
        BY <1>9, <3>2 DEF RepositionShift
      <4>2. (IF job.to < job.from THEN 1 ELSE -1) \in Int
        OBVIOUS
      <4>. QED
        BY <4>1, <4>2, ShiftMoves
    <3>. QED
      BY <3>1, <3>2
  <2>3. channels' \in Seq(Rows) /\ Len(channels') <= MaxChannels
    BY <2>2, MovesKeep
  <2>4. own \subseteq Groups /\ others \subseteq Groups
    BY GroupFacts, RowFacts DEF InSpace
  <2>5. tied' \subseteq Groups /\ gappy' \subseteq Groups
    BY <1>9, <2>4 DEF RepositionShift
  <2>6. job' \in Jobs
    <3>1. job' = [job EXCEPT !.op = "place"]
      BY <1>9 DEF RepositionShift
    <3>2. job' \in [op : {"shift", "place"}, space : Spaces, name : Names,
                    from : Int, to : Int]
      BY <2>1, <3>1
    <3>. QED
      BY <3>2 DEF Jobs
  <2>7. faults' \in 0 .. MaxFaults
    BY <1>9, OutcomeType DEF RepositionShift
  <2>. QED
    BY <1>9, <2>3, <2>5, <2>6, <2>7 DEF RepositionShift
<1>10. ASSUME NEW ok \in BOOLEAN, RepositionPlace(ok)
       PROVE  TypeOK'
  <2>1. job.to \in Int
    BY <1>10, JobFacts DEF RepositionPlace
  <2>2. OnlyMoves
    <3>1. CASE ~ ok
      BY <1>10, <3>1, UnchangedMoves DEF RepositionPlace
    <3>2. CASE ok
      <4>1. channels' = Place(Named(job.space, job.name), job.to)
        BY <1>10, <3>2 DEF RepositionPlace
      <4>. QED
        BY <2>1, <4>1, PlaceMoves
    <3>. QED
      BY <3>1, <3>2
  <2>3. channels' \in Seq(Rows) /\ Len(channels') <= MaxChannels
    BY <2>2, MovesKeep
  <2>4. tied' \subseteq Groups /\ gappy' \subseteq Groups
    BY <1>10, GroupFacts DEF RepositionPlace
  <2>5. faults' \in 0 .. MaxFaults
    BY <1>10, OutcomeType DEF RepositionPlace
  <2>. QED
    BY <1>0, <1>10, <2>3, <2>4, <2>5 DEF RepositionPlace
<1>11. ASSUME NEW s \in KnownSpaces, NEW n \in Names, NEW newpos \in AskedPos,
              NEW ok \in BOOLEAN, RepositionChannel(s, n, newpos, ok)
       PROVE  TypeOK'
  <2> DEFINE oldpos == channels[Least(Named(s, n))].pos
  <2>1. s \in Spaces /\ newpos \in Int
    <3>1. made \in Nat /\ made <= MaxSpaces /\ s \in 1 .. made
      BY BoundsAssumption DEF KnownSpaces
    <3>. QED
      BY <3>1, BoundsAssumption, AskedAssumption DEF Spaces
  <2>2. Least(Named(s, n)) \in DOMAIN channels
    <3>1. Named(s, n) # {} /\ Named(s, n) \subseteq DOMAIN channels
      BY <1>11 DEF RepositionChannel, Named, InSpace
    <3>2. PICK S : S = Named(s, n)
      OBVIOUS
    <3>3. S \in SUBSET Nat /\ S # {}
      BY <3>1, <3>2, RowFacts
    <3>4. Least(S) \in S
      BY <3>3, LeastExists DEF Least
    <3>. QED
      BY <3>1, <3>2, <3>4
  <2>3. oldpos \in Int
    BY <2>2, RowFacts
  <2>4. OnlyMoves
    <3>1. CASE ~ ok
      BY <1>11, <3>1, UnchangedMoves DEF RepositionChannel
    <3>2. CASE ok
      <4>1. channels' = Place(Named(s, n), -1)
        BY <1>11, <3>2 DEF RepositionChannel
      <4>. QED
        BY <4>1, PlaceMoves
    <3>. QED
      BY <3>1, <3>2
  <2>5. channels' \in Seq(Rows) /\ Len(channels') <= MaxChannels
    BY <2>4, MovesKeep
  <2>6. tied' \subseteq Groups /\ gappy' \subseteq Groups
    BY <1>11, GroupFacts DEF RepositionChannel
  <2>7. faults' \in 0 .. MaxFaults
    BY <1>11, OutcomeType DEF RepositionChannel
  <2>8. job' \in Jobs
    <3>1. job' = [op |-> "shift", space |-> s, name |-> n, from |-> oldpos,
                  to |-> newpos]
      BY <1>11 DEF RepositionChannel
    <3>. QED
      BY <2>1, <2>3, <3>1 DEF Jobs
  <2>. QED
    BY <1>11, <2>5, <2>6, <2>7, <2>8 DEF RepositionChannel
<1>12. CASE Abort \/ Crash
  <2>1. faults' \in 0 .. MaxFaults
    BY <1>12, BoundsAssumption DEF Abort, Crash
  <2>2. tied' \subseteq Groups /\ gappy' \subseteq Groups
    BY <1>12, GroupFacts DEF Abort, Crash
  <2>3. view' \in [Users -> [Spaces -> {NoList} \cup SUBSET (1 .. MaxChannels)]]
    BY <1>12 DEF Abort, Crash
  <2>. QED
    BY <1>0, <1>12, <2>1, <2>2, <2>3 DEF Abort, Crash
<1>13. CASE UNCHANGED vars
  BY <1>13 DEF vars
<1>. HIDE DEF TypeOK
<1>14. ASSUME NEW u \in Users, NEW s \in KnownSpaces, NEW n \in Names,
              NEW parent \in {Top} \cup DOMAIN channels, NEW ok \in BOOLEAN,
              \/ InsertChannelLast(u, s, n, parent, ok)
              \/ \E pos \in AskedPos :
                     InsertChannelAt(u, s, n, parent, pos, ok)
       PROVE  TypeOK'
  BY <1>4, <1>14
<1>15. ASSUME NEW ok \in BOOLEAN,
              \/ \E u \in Users : CreateSpace(u, ok)
              \/ CreateSpaceGeneral(ok)
              \/ CreateSpaceMember(ok)
              \/ InsertRow(ok)
              \/ RepositionShift(ok)
              \/ RepositionPlace(ok)
       PROVE  TypeOK'
  BY <1>5, <1>6, <1>7, <1>8, <1>9, <1>10, <1>15
<1>. QED
  BY <1>1, <1>2, <1>3, <1>11, <1>12, <1>13, <1>14, <1>15 DEF Next

-----------------------------------------------------------------------------
(* What the steps do to the tables.                                        *)

\* The request whose turn it is moves channels at most.
LEMMA StepsThatMove ==
    ASSUME TypeOK,
           \/ \E u \in Users, s \in KnownSpaces, n \in Names,
                 parent \in {Top} \cup DOMAIN channels, pos \in AskedPos,
                 ok \in BOOLEAN : InsertChannelAt(u, s, n, parent, pos, ok)
           \/ \E s \in KnownSpaces, n \in Names, newpos \in AskedPos,
                 ok \in BOOLEAN : RepositionChannel(s, n, newpos, ok)
           \/ \E ok \in BOOLEAN : RepositionShift(ok) \/ RepositionPlace(ok)
    PROVE  OnlyMoves /\ UNCHANGED <<spaces, made, members, online, view, promised>>
<1>1. ASSUME \E S : \E d \in Int : channels' = Shift(S, d)
      PROVE  OnlyMoves
  BY <1>1, ShiftMoves
<1>2. ASSUME \E S : \E p \in Int : channels' = Place(S, p)
      PROVE  OnlyMoves
  BY <1>2, PlaceMoves
<1>3. ASSUME UNCHANGED channels
      PROVE  OnlyMoves
  BY <1>3, UnchangedMoves
<1>4. ASSUME NEW u \in Users, NEW s \in KnownSpaces, NEW n \in Names,
             NEW parent \in {Top} \cup DOMAIN channels, NEW pos \in AskedPos,
             NEW ok \in BOOLEAN, InsertChannelAt(u, s, n, parent, pos, ok)
      PROVE  /\ OnlyMoves
             /\ UNCHANGED <<spaces, made, members, online, view, promised>>
  <2>1. \/ UNCHANGED channels
        \/ \E S : channels' = Shift(S, 1)
    BY <1>4 DEF InsertChannelAt
  <2>. QED
    BY <1>1, <1>3, <1>4, <2>1 DEF InsertChannelAt
<1>5. ASSUME NEW s \in KnownSpaces, NEW n \in Names, NEW newpos \in AskedPos,
             NEW ok \in BOOLEAN, RepositionChannel(s, n, newpos, ok)
      PROVE  /\ OnlyMoves
             /\ UNCHANGED <<spaces, made, members, online, view, promised>>
  <2>1. \/ UNCHANGED channels
        \/ \E S : channels' = Place(S, -1)
    BY <1>5 DEF RepositionChannel
  <2>. QED
    BY <1>2, <1>3, <1>5, <2>1 DEF RepositionChannel
<1>6. ASSUME NEW ok \in BOOLEAN, RepositionShift(ok)
      PROVE  /\ OnlyMoves
             /\ UNCHANGED <<spaces, made, members, online, view, promised>>
  <2>1. \/ UNCHANGED channels
        \/ \E S : channels' = Shift(S, IF job.to < job.from THEN 1 ELSE -1)
    BY <1>6 DEF RepositionShift
  <2>2. (IF job.to < job.from THEN 1 ELSE -1) \in Int
    OBVIOUS
  <2>. QED
    BY <1>1, <1>3, <1>6, <2>1, <2>2 DEF RepositionShift
<1>7. ASSUME NEW ok \in BOOLEAN, RepositionPlace(ok)
      PROVE  /\ OnlyMoves
             /\ UNCHANGED <<spaces, made, members, online, view, promised>>
  <2>1. \/ UNCHANGED channels
        \/ \E S : channels' = Place(S, job.to)
    BY <1>7 DEF RepositionPlace
  <2>2. job.to \in Int
    BY <1>7, JobFacts DEF RepositionPlace
  <2>. QED
    BY <1>2, <1>3, <1>7, <2>1, <2>2 DEF RepositionPlace
<1>. QED
  BY <1>4, <1>5, <1>6, <1>7

\* The row a request inserts is of a space that was created.
LEMMA StepsThatInsert ==
    ASSUME TypeOK, RoomForRow, NewSpacesAreEmpty, NEW ok \in BOOLEAN,
           \/ \E u \in Users, s \in KnownSpaces, n \in Names,
                 parent \in {Top} \cup DOMAIN channels :
                     InsertChannelLast(u, s, n, parent, ok)
           \/ InsertRow(ok)
    PROVE  /\ \E row \in Rows : row.space <= made /\ Insert(row, ok)
           /\ UNCHANGED <<spaces, made, members, online, promised>>
           /\ job' = Idle
<1>1. ASSUME NEW u \in Users, NEW s \in KnownSpaces, NEW n \in Names,
             NEW parent \in {Top} \cup DOMAIN channels,
             InsertChannelLast(u, s, n, parent, ok)
      PROVE  \E row \in Rows : row.space <= made /\ Insert(row, ok)
  <2> DEFINE row == [space |-> s, name |-> n, parent |-> parent,
                     pos |-> NextPos(<<s, parent>>)]
  <2>1. made \in Nat /\ made <= MaxSpaces /\ s \in 1 .. made
    BY BoundsAssumption DEF KnownSpaces, TypeOK
  <2>2. s \in Spaces /\ s <= made
    BY <2>1, BoundsAssumption DEF Spaces
  <2>3. parent \in 0 .. MaxChannels
    BY RowFacts, BoundsAssumption DEF Top
  <2>4. row \in Rows /\ row.space <= made
    BY <2>2, <2>3, NextPosIsBehind DEF Rows
  <2>5. Insert(row, ok)
    BY <1>1 DEF InsertChannelLast
  <2>. QED
    BY <2>4, <2>5
<1>2. ASSUME InsertRow(ok)
      PROVE  \E row \in Rows : row.space <= made /\ Insert(row, ok)
  BY <1>2, JobFacts DEF InsertRow, NewSpacesAreEmpty
<1>3. /\ UNCHANGED <<spaces, made, members, online, promised>>
      /\ job' = Idle
  BY DEF InsertChannelLast, InsertRow
<1>. QED
  BY <1>1, <1>2, <1>3

\* Every other step, by the tables it changes.
LEMMA Steps ==
    ASSUME [Next]_vars
    PROVE  \/ \E u \in Users, s \in KnownSpaces, n \in Names,
                 parent \in {Top} \cup DOMAIN channels, pos \in AskedPos,
                 ok \in BOOLEAN : InsertChannelAt(u, s, n, parent, pos, ok)
           \/ \E s \in KnownSpaces, n \in Names, newpos \in AskedPos,
                 ok \in BOOLEAN : RepositionChannel(s, n, newpos, ok)
           \/ \E ok \in BOOLEAN : RepositionShift(ok) \/ RepositionPlace(ok)
           \/ \E ok \in BOOLEAN :
                 \/ \E u \in Users, s \in KnownSpaces, n \in Names,
                       parent \in {Top} \cup DOMAIN channels :
                           InsertChannelLast(u, s, n, parent, ok)
                 \/ InsertRow(ok)
           \/ \E u \in Users, ok \in BOOLEAN : CreateSpace(u, ok)
           \/ \E ok \in BOOLEAN : CreateSpaceGeneral(ok) \/ CreateSpaceMember(ok)
           \/ \E u \in Users : auth(u) \/ Disconnect(u)
           \/ \E u \in Users, s \in KnownSpaces : GetChannels(u, s)
           \/ Abort \/ Crash \/ UNCHANGED vars
BY DEF Next

-----------------------------------------------------------------------------
(* Rooms, spaces and members.                                              *)

LEMMA RoomKept ==
    ASSUME TypeOK, RoomForRow, NewSpacesAreEmpty, [Next]_vars
    PROVE  RoomForRow'
<1>0. Idle.op = "idle"
  BY DEF Idle
<1>1. CASE job' = Idle
  BY <1>0, <1>1 DEF RoomForRow
<1>2. CASE UNCHANGED <<job, channels>>
  BY <1>2 DEF RoomForRow
<1>3. CASE \E u \in Users, ok \in BOOLEAN : CreateSpace(u, ok)
  BY <1>3 DEF CreateSpace, RoomForRow
<1>4. CASE \E u \in Users, s \in KnownSpaces, n \in Names,
              parent \in {Top} \cup DOMAIN channels, pos \in AskedPos,
              ok \in BOOLEAN : InsertChannelAt(u, s, n, parent, pos, ok)
  <2>1. Len(channels') = Len(channels)
    BY <1>4, StepsThatMove, MovesKeep
  <2>2. Len(channels) < MaxChannels
    BY <1>4 DEF InsertChannelAt
  <2>. QED
    BY <2>1, <2>2 DEF RoomForRow
<1>5. ASSUME NEW ok \in BOOLEAN, CreateSpaceGeneral(ok)
      PROVE  RoomForRow'
  <2>1. job \in [op : {"general", "member"}, user : Users, space : Spaces]
    BY <1>5, JobFacts DEF CreateSpaceGeneral
  <2>2. job'.op = "member"
    BY <1>5, <2>1 DEF CreateSpaceGeneral
  <2>. QED
    BY <2>2 DEF RoomForRow
<1>6. ASSUME NEW s \in KnownSpaces, NEW n \in Names, NEW newpos \in AskedPos,
             NEW ok \in BOOLEAN, RepositionChannel(s, n, newpos, ok)
      PROVE  RoomForRow'
  BY <1>6 DEF RepositionChannel, RoomForRow
<1>7. ASSUME NEW ok \in BOOLEAN, RepositionShift(ok)
      PROVE  RoomForRow'
  <2>1. job \in [op : {"shift", "place"}, space : Spaces, name : Names,
                 from : Int, to : Int]
    BY <1>7, JobFacts DEF RepositionShift
  <2>2. job'.op = "place"
    BY <1>7, <2>1 DEF RepositionShift
  <2>. QED
    BY <2>2 DEF RoomForRow
<1>8. CASE \E ok \in BOOLEAN :
              \/ \E u \in Users, s \in KnownSpaces, n \in Names,
                    parent \in {Top} \cup DOMAIN channels :
                        InsertChannelLast(u, s, n, parent, ok)
              \/ InsertRow(ok)
  BY <1>1, <1>8, StepsThatInsert
<1>9. CASE \E ok \in BOOLEAN : RepositionPlace(ok) \/ CreateSpaceMember(ok)
  BY <1>1, <1>9 DEF RepositionPlace, CreateSpaceMember
<1>10. CASE \/ \E u \in Users : auth(u) \/ Disconnect(u)
            \/ \E u \in Users, s \in KnownSpaces : GetChannels(u, s)
            \/ UNCHANGED vars
  BY <1>2, <1>10 DEF auth, Disconnect, GetChannels, vars
<1>11. CASE Abort \/ Crash
  BY <1>1, <1>11 DEF Abort, Crash
<1>. QED
  BY <1>3, <1>4, <1>5, <1>6, <1>7, <1>8, <1>9, <1>10, <1>11, Steps

\* The space of every channel and membership is left alone by moves.
LEMMA MovesKeepSpaces ==
    ASSUME TypeOK, NewSpacesAreEmpty, OnlyMoves, UNCHANGED <<made, members>>,
           \/ UNCHANGED job
           \/ job' = Idle
           \/ job'.op \in {"shift", "place"}
           \/ job'.op = "insert" /\ job'.row.space <= made
    PROVE  NewSpacesAreEmpty'
<1>1. Idle.op = "idle"
  BY DEF Idle
<1>2. DOMAIN channels' = DOMAIN channels
  BY DEF OnlyMoves
<1>3. \A c \in DOMAIN channels : channels'[c].space = channels[c].space
  BY MovesKeep
<1>. QED
  BY <1>1, <1>2, <1>3 DEF NewSpacesAreEmpty

LEMMA InsertIs ==
    ASSUME TypeOK, NEW row \in Rows, NEW ok \in BOOLEAN, Insert(row, ok)
    PROVE  \/ UNCHANGED <<channels, view>>
           \/ /\ channels' = Append(channels, row)
              /\ PushUpdatedChannels(row.space,
                     ChannelList(row.space) \cup {Len(channels) + 1})
              /\ InSpace(row.space)' =
                     ChannelList(row.space) \cup {Len(channels) + 1}
              /\ \A s : s # row.space => InSpace(s)' = InSpace(s)
<1>1. CASE ~ ok
  BY <1>1 DEF Insert
<1>2. CASE ok
  <2>1. channels' = Append(channels, row)
    BY <1>2 DEF Insert
  <2>. QED
    BY <1>2, <2>1, AppendAdds DEF Insert, ChannelList
<1>. QED
  BY <1>1, <1>2

LEMMA SpacesKept ==
    ASSUME TypeOK, RoomForRow, NewSpacesAreEmpty, SpacesAreInOrder, [Next]_vars
    PROVE  NewSpacesAreEmpty'
<1>0. Idle.op = "idle"
  BY DEF Idle
<1>a. made \in Nat
  BY BoundsAssumption DEF TypeOK
<1>1. CASE UNCHANGED <<made, members, channels>> /\ (job' = Idle \/ UNCHANGED job)
  BY <1>0, <1>1 DEF NewSpacesAreEmpty
<1>2. CASE \E u \in Users, s \in KnownSpaces, n \in Names,
              parent \in {Top} \cup DOMAIN channels, pos \in AskedPos,
              ok \in BOOLEAN : InsertChannelAt(u, s, n, parent, pos, ok)
  <2>1. OnlyMoves /\ UNCHANGED <<made, members>>
    BY <1>2, StepsThatMove
  <2>2. job'.op = "insert" /\ job'.row.space <= made
    <3>1. ASSUME NEW s \in KnownSpaces
          PROVE  s <= made
      BY <1>a DEF KnownSpaces
    <3>. QED
      BY <1>2, <3>1 DEF InsertChannelAt
  <2>. QED
    BY <2>1, <2>2, MovesKeepSpaces
<1>3. CASE \E s \in KnownSpaces, n \in Names, newpos \in AskedPos,
              ok \in BOOLEAN : RepositionChannel(s, n, newpos, ok)
  <2>1. OnlyMoves /\ UNCHANGED <<made, members>>
    BY <1>3, StepsThatMove
  <2>2. job'.op = "shift"
    BY <1>3 DEF RepositionChannel
  <2>. QED
    BY <2>1, <2>2, MovesKeepSpaces
<1>4. CASE \E ok \in BOOLEAN : RepositionShift(ok) \/ RepositionPlace(ok)
  <2>1. OnlyMoves /\ UNCHANGED <<made, members>>
    BY <1>4, StepsThatMove
  <2>2. job' = Idle \/ job'.op = "place"
    <3>1. job.op = "shift" => [job EXCEPT !.op = "place"].op = "place"
      BY JobFacts
    <3>. QED
      BY <1>4, <3>1 DEF RepositionShift, RepositionPlace
  <2>. QED
    BY <2>1, <2>2, MovesKeepSpaces
<1>5. ASSUME NEW ok \in BOOLEAN,
             \/ \E u \in Users, s \in KnownSpaces, n \in Names,
                   parent \in {Top} \cup DOMAIN channels :
                       InsertChannelLast(u, s, n, parent, ok)
             \/ InsertRow(ok)
      PROVE  NewSpacesAreEmpty'
  <2>1. /\ UNCHANGED <<made, members>> /\ job' = Idle
        /\ \E row \in Rows : row.space <= made /\ Insert(row, ok)
    BY <1>5, StepsThatInsert
  <2>2. PICK row \in Rows : row.space <= made /\ Insert(row, ok)
    BY <2>1
  <2>3. CASE UNCHANGED channels
    BY <1>1, <2>1, <2>3
  <2>4. CASE channels' = Append(channels, row)
    <3>1. \A c \in DOMAIN channels' : channels'[c].space <= made
      BY <2>2, <2>4, AppendAdds DEF NewSpacesAreEmpty
    <3>. QED
      BY <1>0, <2>1, <3>1 DEF NewSpacesAreEmpty
  <2>. QED
    BY <2>2, <2>3, <2>4, InsertIs
<1>6. CASE \E u \in Users, ok \in BOOLEAN : CreateSpace(u, ok)
  <2>1. /\ made' = made + 1 /\ UNCHANGED <<channels, members>>
        /\ job'.op = "general" /\ job'.space = made + 1
    BY <1>6 DEF CreateSpace
  <2>2. ASSUME NEW c \in DOMAIN channels
        PROVE  channels[c].space <= made + 1 /\ channels[c].space # made + 1
    <3>1. channels[c].space \in Spaces /\ channels[c].space <= made
      BY RowFacts DEF NewSpacesAreEmpty
    <3>2. channels[c].space \in Int
      BY <3>1, BoundsAssumption DEF Spaces
    <3>. QED
      BY <1>a, <3>1, <3>2
  <2>3. ASSUME NEW m \in DOMAIN members
        PROVE  members[m].space <= made + 1 /\ members[m].space # made + 1
    <3>1. members[m].space \in Spaces /\ members[m].space <= made
      BY MemberFacts DEF NewSpacesAreEmpty
    <3>2. members[m].space \in Int
      BY <3>1, BoundsAssumption DEF Spaces
    <3>. QED
      BY <1>a, <3>1, <3>2
  <2>. QED
    BY <2>1, <2>2, <2>3 DEF NewSpacesAreEmpty
<1>7. ASSUME NEW ok \in BOOLEAN, CreateSpaceGeneral(ok)
      PROVE  NewSpacesAreEmpty'
  <2>1. /\ job \in [op : {"general", "member"}, user : Users, space : Spaces]
        /\ job.op = "general"
    BY <1>7, JobFacts DEF CreateSpaceGeneral
  <2>2. job'.op = "member" /\ job'.space = job.space /\ UNCHANGED <<made, members>>
    BY <1>7, <2>1 DEF CreateSpaceGeneral
  <2>3. job.space = made /\ \A m \in DOMAIN members : members[m].space # made
    BY <2>1 DEF NewSpacesAreEmpty
  <2>4. \A c \in DOMAIN channels' : channels'[c].space <= made
    <3> DEFINE row == [space |-> job.space, name |-> General, parent |-> Top,
                       pos |-> 0]
    <3>1. row \in Rows
      BY <2>1, GeneralAssumption, BoundsAssumption DEF Rows, Top
    <3>2. UNCHANGED channels \/ channels' = Append(channels, row)
      BY <1>7 DEF CreateSpaceGeneral
    <3>3. CASE UNCHANGED channels
      BY <3>3 DEF NewSpacesAreEmpty
    <3>4. CASE channels' = Append(channels, row)
      <4>1. made <= made
        BY <1>a
      <4>2. row.space = made
        BY <2>3
      <4>. HIDE DEF row
      <4>. QED
        BY <3>1, <3>4, <4>1, <4>2, AppendAdds DEF NewSpacesAreEmpty
    <3>. QED
      BY <3>2, <3>3, <3>4
  <2>. QED
    BY <2>2, <2>3, <2>4 DEF NewSpacesAreEmpty
<1>8. ASSUME NEW ok \in BOOLEAN, CreateSpaceMember(ok)
      PROVE  NewSpacesAreEmpty'
  <2>1. /\ job.user \in Users /\ job.space \in Spaces /\ job.op = "member"
        /\ UNCHANGED <<made, channels>> /\ job' = Idle
    BY <1>8, JobFacts DEF CreateSpaceMember
  <2>2. CASE UNCHANGED members
    BY <1>1, <2>1, <2>2
  <2>3. CASE members' = Append(members, [user |-> job.user,
                 space |-> job.space, pos |-> NextSpacePos(job.user)])
    <3>1. job.space = made /\ made <= made
      BY <1>a, <2>1 DEF NewSpacesAreEmpty
    <3>2. \A m \in DOMAIN members' : members'[m].space <= made
      BY <2>1, <2>3, <3>1, MemberAdded DEF NewSpacesAreEmpty
    <3>. QED
      BY <1>0, <2>1, <3>2 DEF NewSpacesAreEmpty
  <2>. QED
    BY <1>8, <2>2, <2>3 DEF CreateSpaceMember
<1>9. CASE \/ \E u \in Users : auth(u) \/ Disconnect(u)
           \/ \E u \in Users, s \in KnownSpaces : GetChannels(u, s)
           \/ Abort \/ Crash \/ UNCHANGED vars
  BY <1>1, <1>9 DEF auth, Disconnect, GetChannels, Abort, Crash, vars
<1>. QED
  BY <1>2, <1>3, <1>4, <1>5, <1>6, <1>7, <1>8, <1>9, Steps

\* Memberships are only added, each with the next position of its account.
LEMMA MembersGrow ==
    ASSUME TypeOK, RoomForRow, NewSpacesAreEmpty, SpacesAreInOrder, [Next]_vars
    PROVE  /\ \A u, s : IsMember(u, s) => IsMember(u, s)'
           /\ \A s \in promised' \ promised :
                  \E u \in Users : IsMember(u, s)'
           /\ SpacesAreInOrder'
<1>1. CASE UNCHANGED <<members, promised>>
  BY <1>1 DEF IsMember, SpacesAreInOrder
<1>2. ASSUME NEW ok \in BOOLEAN, CreateSpaceMember(ok)
      PROVE  /\ \A u, s : IsMember(u, s) => IsMember(u, s)'
             /\ \A s \in promised' \ promised :
                    \E u \in Users : IsMember(u, s)'
             /\ SpacesAreInOrder'
  <2>1. job.user \in Users /\ job.space \in Spaces
    BY <1>2, JobFacts DEF CreateSpaceMember
  <2>2. CASE UNCHANGED <<members, promised>>
    BY <1>1, <2>2
  <2>3. CASE /\ members' = Append(members, [user |-> job.user,
                    space |-> job.space, pos |-> NextSpacePos(job.user)])
             /\ promised' = promised \cup {job.space}
    <3> DEFINE k == Len(members) + 1
    <3>1. /\ DOMAIN members' = DOMAIN members \cup {k}
          /\ \A m \in DOMAIN members : members'[m] = members[m]
          /\ members'[k].user = job.user
          /\ members'[k].space = job.space
          /\ SpacesAreInOrder'
      BY <2>1, <2>3, MemberAdded
    <3>. HIDE DEF k
    <3>2. \A u, s : IsMember(u, s) => IsMember(u, s)'
      BY <3>1 DEF IsMember
    <3>3. \E m \in DOMAIN members' :
              members'[m].user = job.user /\ members'[m].space = job.space
      BY <3>1
    <3>4. ASSUME NEW s, s = job.space
          PROVE  \E u \in Users : IsMember(u, s)'
      <4>1. PICK u \in Users : u = job.user
        BY <2>1
      <4>2. \E m \in DOMAIN members' :
                members'[m].user = u /\ members'[m].space = s
        BY <3>3, <3>4, <4>1
      <4>3. IsMember(u, s)'
        BY <4>2 DEF IsMember
      <4>. QED
        BY <4>3
    <3>. QED
      BY <2>1, <2>3, <3>1, <3>2, <3>4
  <2>. QED
    BY <1>2, <2>2, <2>3 DEF CreateSpaceMember
<1>3. CASE \E ok \in BOOLEAN :
              \/ \E u \in Users, s \in KnownSpaces, n \in Names,
                    parent \in {Top} \cup DOMAIN channels :
                        InsertChannelLast(u, s, n, parent, ok)
              \/ InsertRow(ok)
  BY <1>1, <1>3, StepsThatInsert
<1>4. CASE OnlyMoves /\ UNCHANGED <<spaces, made, members, online, view, promised>>
  BY <1>1, <1>4
<1>5. CASE \/ \E u \in Users, ok \in BOOLEAN : CreateSpace(u, ok)
           \/ \E ok \in BOOLEAN : CreateSpaceGeneral(ok)
           \/ \E u \in Users : auth(u) \/ Disconnect(u)
           \/ \E u \in Users, s \in KnownSpaces : GetChannels(u, s)
           \/ Abort \/ Crash \/ UNCHANGED vars
  BY <1>1, <1>5 DEF CreateSpace, CreateSpaceGeneral, auth, Disconnect,
     GetChannels, Abort, Crash, vars
<1>. QED
  BY <1>2, <1>3, <1>4, <1>5, Steps, StepsThatMove

LEMMA PromisedKept ==
    ASSUME TypeOK, RoomForRow, NewSpacesAreEmpty, SpacesAreInOrder,
           PromisedSpacesHaveMembers, [Next]_vars
    PROVE  PromisedSpacesHaveMembers'
<1>1. \A s \in promised : \E u \in Users : IsMember(u, s)'
  BY MembersGrow DEF PromisedSpacesHaveMembers
<1>2. \A s \in promised' : \E u \in Users : IsMember(u, s)'
  BY <1>1, MembersGrow
<1>. QED
  BY <1>2 DEF PromisedSpacesHaveMembers

-----------------------------------------------------------------------------
(* The lists of connected members.                                         *)

ViewsAreRight == ViewersAreMembers /\ ListsAreCurrent

LEMMA ViewsKept ==
    ASSUME TypeOK, RoomForRow, NewSpacesAreEmpty, SpacesAreInOrder,
           ViewsAreRight, [Next]_vars
    PROVE  ViewsAreRight'
<1>. SUFFICES ASSUME NEW v \in Users, NEW t \in Spaces, view'[v][t] # NoList
              PROVE  /\ v \in online' /\ IsMember(v, t)'
                     /\ view'[v][t] = InSpace(t)'
  BY DEF ViewsAreRight, ViewersAreMembers, ListsAreCurrent, ChannelList
<1>0. ASSUME view[v][t] # NoList
      PROVE  /\ v \in online /\ IsMember(v, t) /\ IsMember(v, t)'
             /\ view[v][t] = InSpace(t)
  BY <1>0, MembersGrow
  DEF ViewsAreRight, ViewersAreMembers, ListsAreCurrent, ChannelList
<1>1. CASE view'[v][t] = view[v][t] /\ v \in online' /\ InSpace(t)' = InSpace(t)
  BY <1>0, <1>1
<1>2. CASE OnlyMoves /\ UNCHANGED <<spaces, made, members, online, view, promised>>
  <2>1. InSpace(t)' = InSpace(t)
    BY <1>2, MovesKeep
  <2>. QED
    BY <1>0, <1>2, <2>1
<1>3. ASSUME NEW ok \in BOOLEAN,
             \/ \E u \in Users, s \in KnownSpaces, n \in Names,
                   parent \in {Top} \cup DOMAIN channels :
                       InsertChannelLast(u, s, n, parent, ok)
             \/ InsertRow(ok)
      PROVE  /\ v \in online' /\ IsMember(v, t)'
             /\ view'[v][t] = InSpace(t)'
  <2>1. /\ UNCHANGED <<online, members>>
        /\ \E row \in Rows : row.space <= made /\ Insert(row, ok)
    BY <1>3, StepsThatInsert
  <2>2. PICK row \in Rows : row.space <= made /\ Insert(row, ok)
    BY <2>1
  <2>3. CASE UNCHANGED <<channels, view>>
    <3>1. InSpace(t)' = InSpace(t)
      BY <2>3 DEF InSpace
    <3>. QED
      BY <1>0, <2>1, <2>3, <3>1
  <2>4. CASE /\ PushUpdatedChannels(row.space,
                    ChannelList(row.space) \cup {Len(channels) + 1})
             /\ InSpace(row.space)' =
                    ChannelList(row.space) \cup {Len(channels) + 1}
             /\ \A s : s # row.space => InSpace(s)' = InSpace(s)
    <3>1. CASE v \in online /\ IsMember(v, row.space)
      <4>1. view'[v] = [view[v] EXCEPT ![row.space] =
                ChannelList(row.space) \cup {Len(channels) + 1}]
        BY <2>4, <3>1 DEF PushUpdatedChannels
      <4>2. view[v] \in [Spaces -> {NoList} \cup SUBSET (1 .. MaxChannels)]
        BY DEF TypeOK
      <4>3. CASE t = row.space
        <5>1. view'[v][t] = ChannelList(row.space) \cup {Len(channels) + 1}
          BY <4>1, <4>2, <4>3
        <5>2. IsMember(v, t)' = IsMember(v, t)
          BY <2>1 DEF IsMember
        <5>. QED
          BY <2>1, <2>4, <3>1, <4>3, <5>1, <5>2
      <4>4. CASE t # row.space
        <5>1. view'[v][t] = view[v][t]
          BY <4>1, <4>2, <4>4
        <5>2. InSpace(t)' = InSpace(t)
          BY <2>4, <4>4
        <5>. QED
          BY <1>1, <2>1, <3>1, <5>1, <5>2
      <4>. QED
        BY <4>3, <4>4
    <3>2. CASE ~ (v \in online /\ IsMember(v, row.space))
      <4>1. view'[v] = view[v]
        BY <2>4, <3>2 DEF PushUpdatedChannels
      <4>2. v \in online /\ IsMember(v, t)
        BY <1>0, <4>1
      <4>3. t # row.space
        BY <3>2, <4>2
      <4>4. InSpace(t)' = InSpace(t)
        BY <2>4, <4>3
      <4>. QED
        BY <1>1, <2>1, <4>1, <4>2, <4>4
    <3>. QED
      BY <3>1, <3>2
  <2>. QED
    BY <2>2, <2>3, <2>4, InsertIs
<1>4. ASSUME NEW ok \in BOOLEAN, CreateSpaceGeneral(ok)
      PROVE  /\ v \in online' /\ IsMember(v, t)'
             /\ view'[v][t] = InSpace(t)'
  <2> DEFINE row == [space |-> job.space, name |-> General, parent |-> Top,
                     pos |-> 0]
  <2>1. /\ UNCHANGED <<online, members, view>>
        /\ UNCHANGED channels \/ channels' = Append(channels, row)
    BY <1>4 DEF CreateSpaceGeneral
  <2>2. IsMember(v, t)
    BY <1>0, <2>1
  <2>3. t # job.space
    BY <1>4, <2>2 DEF CreateSpaceGeneral, NewSpacesAreEmpty, IsMember
  <2>4. row \in Rows
    <3>1. job.space \in Spaces
      BY <1>4, JobFacts DEF CreateSpaceGeneral
    <3>. QED
      BY <3>1, GeneralAssumption, BoundsAssumption DEF Rows, Top
  <2>5. InSpace(t)' = InSpace(t)
    <3>1. CASE UNCHANGED channels
      BY <3>1 DEF InSpace
    <3>2. CASE channels' = Append(channels, row)
      <4>1. t # row.space
        BY <2>3
      <4>. HIDE DEF row
      <4>. QED
        BY <2>4, <3>2, <4>1, AppendAdds
    <3>. QED
      BY <2>1, <3>1, <3>2
  <2>. QED
    BY <1>0, <2>1, <2>5
<1>5. ASSUME NEW u \in Users, NEW s \in KnownSpaces, GetChannels(u, s)
      PROVE  /\ v \in online' /\ IsMember(v, t)'
             /\ view'[v][t] = InSpace(t)'
  <2>1. /\ view' = [view EXCEPT ![u][s] = ChannelList(s)] /\ u \in online
        /\ IsMember(u, s) /\ UNCHANGED <<channels, online, members>>
    BY <1>5 DEF GetChannels
  <2>2. InSpace(t)' = InSpace(t) /\ (IsMember(v, t) => IsMember(v, t)')
    BY <2>1 DEF InSpace, IsMember
  <2>3. CASE v = u /\ t = s
    <3>1. view'[v][t] = ChannelList(s)
      BY <2>1, <2>3 DEF TypeOK
    <3>. QED
      BY <2>1, <2>2, <2>3, <3>1 DEF ChannelList
  <2>4. CASE ~ (v = u /\ t = s)
    <3>1. view'[v][t] = view[v][t]
      BY <2>1, <2>4 DEF TypeOK
    <3>. QED
      BY <1>0, <2>1, <2>2, <3>1
  <2>. QED
    BY <2>3, <2>4
<1>6. ASSUME NEW u \in Users, Disconnect(u)
      PROVE  /\ v \in online' /\ IsMember(v, t)'
             /\ view'[v][t] = InSpace(t)'
  <2>1. /\ view' = [view EXCEPT ![u] = [s \in Spaces |-> NoList]]
        /\ online' = online \ {u} /\ UNCHANGED channels
    BY <1>6 DEF Disconnect
  <2>2. v # u
    BY <2>1 DEF TypeOK
  <2>3. view'[v][t] = view[v][t] /\ InSpace(t)' = InSpace(t)
    BY <2>1, <2>2 DEF TypeOK, InSpace
  <2>. QED
    BY <1>0, <2>1, <2>2, <2>3
<1>7. CASE Crash
  BY <1>7 DEF Crash
<1>8. CASE \/ \E u \in Users, ok \in BOOLEAN : CreateSpace(u, ok)
           \/ \E ok \in BOOLEAN : CreateSpaceMember(ok)
           \/ \E u \in Users : auth(u)
           \/ Abort \/ UNCHANGED vars
  <2>1. UNCHANGED <<channels, view>> /\ online \subseteq online'
    BY <1>8 DEF CreateSpace, CreateSpaceMember, auth, Abort, vars
  <2>2. InSpace(t)' = InSpace(t)
    BY <2>1 DEF InSpace
  <2>. QED
    BY <1>0, <2>1, <2>2
<1>. QED
  BY <1>2, <1>3, <1>4, <1>5, <1>6, <1>7, <1>8, Steps, StepsThatMove

-----------------------------------------------------------------------------
(* Positions that move, whatever table they are in.                        *)

\* A channel is added at a position that is free.
LEMMA AddOne ==
    ASSUME NEW ch, NEW new, NEW A, NEW k, k \notin A,
           \A c \in A : new[c].pos = ch[c].pos
    PROVE  /\ PosOf(new, A \cup {k}) = PosOf(ch, A) \cup {new[k].pos}
           /\ Distinct(ch, A) /\ new[k].pos \notin PosOf(ch, A)
                  => Distinct(new, A \cup {k})
BY DEF PosOf, Distinct

\* A channel is taken out.
LEMMA TakeOut ==
    ASSUME NEW ch, NEW S, NEW c \in S, Distinct(ch, S)
    PROVE  /\ Distinct(ch, S \ {c})
           /\ ch[c].pos \notin PosOf(ch, S \ {c})
           /\ PosOf(ch, S \ {c}) = PosOf(ch, S) \ {ch[c].pos}
BY DEF PosOf, Distinct

LEMMA SamePositions ==
    ASSUME NEW ch, NEW new, NEW S, \A c \in S : new[c].pos = ch[c].pos
    PROVE  PosOf(new, S) = PosOf(ch, S) /\ (Distinct(ch, S) => Distinct(new, S))
BY DEF PosOf, Distinct

\* What becomes of the positions when every channel moves as a function of its
\* position says.
LEMMA MapPositions ==
    ASSUME NEW ch, NEW new, NEW S, NEW f,
           \A c \in S : new[c].pos = f[ch[c].pos],
           \A x, y \in PosOf(ch, S) : x # y => f[x] # f[y]
    PROVE  /\ PosOf(new, S) = {f[x] : x \in PosOf(ch, S)}
           /\ Distinct(ch, S) => Distinct(new, S)
<1>1. PosOf(new, S) = {f[x] : x \in PosOf(ch, S)}
  BY DEF PosOf
<1>2. ASSUME Distinct(ch, S), NEW c \in S, NEW d \in S, c # d
      PROVE  new[c].pos # new[d].pos
  <2>1. ch[c].pos # ch[d].pos
    BY <1>2 DEF Distinct
  <2>2. ch[c].pos \in PosOf(ch, S) /\ ch[d].pos \in PosOf(ch, S)
    BY DEF PosOf
  <2>. QED
    BY <2>1, <2>2
<1>. QED
  BY <1>1, <1>2 DEF Distinct

\* From a position on, all move up by one; those between a gap and its new
\* place move by one towards the old.
MovesUp(ch, new, S, p) ==
    \A c \in S :
        /\ ch[c].pos \in Int
        /\ new[c].pos = IF ch[c].pos >= p THEN ch[c].pos + 1 ELSE ch[c].pos

MovesOver(ch, new, S, from, to) ==
    \A c \in S :
        /\ ch[c].pos \in Int
        /\ new[c].pos = IF Between(from, to, ch[c].pos)
                        THEN ch[c].pos + (IF to < from THEN 1 ELSE -1)
                        ELSE ch[c].pos

\* The positions 0 .. N without one of them.
Without(N, p) == (0 .. N) \ {p}

LEMMA MakeRoom ==
    ASSUME NEW ch, NEW new, NEW S, NEW p \in Int, MovesUp(ch, new, S, p)
    PROVE  /\ p \notin PosOf(new, S)
           /\ Distinct(ch, S) => Distinct(new, S)
           /\ \A N \in Nat : PosOf(ch, S) = 0 .. N - 1 /\ p \in 0 .. N
                  => PosOf(new, S) = Without(N, p)
<1> DEFINE f == [x \in Int |-> IF x >= p THEN x + 1 ELSE x]
           P == PosOf(ch, S)
<1>1. P \subseteq Int
  BY DEF PosOf, MovesUp
<1>2. \A c \in S : new[c].pos = f[ch[c].pos]
  BY DEF MovesUp
<1>3. \A x, y \in Int : x # y => f[x] # f[y]
  OBVIOUS
<1>4. \A x, y \in P : x # y => f[x] # f[y]
  BY <1>1, <1>3
<1>5. \A x \in Int : f[x] # p
  OBVIOUS
<1>6. ASSUME NEW N \in Nat, p \in 0 .. N
      PROVE  {f[x] : x \in 0 .. N - 1} = (0 .. N) \ {p}
  <2>1. ASSUME NEW x \in 0 .. N - 1
        PROVE  f[x] \in (0 .. N) \ {p}
    BY <1>6
  <2>2. ASSUME NEW y \in (0 .. N) \ {p}
        PROVE  \E x \in 0 .. N - 1 : f[x] = y
    <3>1. CASE y < p
      <4>1. y \in 0 .. N - 1 /\ f[y] = y
        BY <1>6, <3>1
      <4>. QED
        BY <4>1
    <3>2. CASE y > p
      <4>1. y - 1 \in 0 .. N - 1 /\ f[y - 1] = y
        BY <1>6, <3>2
      <4>. QED
        BY <4>1
    <3>. QED
      BY <1>6, <3>1, <3>2
  <2>. HIDE DEF f
  <2>. QED
    BY <2>1, <2>2
<1>. HIDE DEF f
<1>7. PosOf(new, S) = {f[x] : x \in P} /\ (Distinct(ch, S) => Distinct(new, S))
  BY <1>2, <1>4, MapPositions
<1>8. p \notin PosOf(new, S)
  BY <1>1, <1>5, <1>7
<1>. QED
  BY <1>6, <1>7, <1>8 DEF Without

LEMMA MoveGap ==
    ASSUME NEW ch, NEW new, NEW S, NEW from \in Int, NEW to \in Int,
           MovesOver(ch, new, S, from, to), from \notin PosOf(ch, S)
    PROVE  /\ to \notin PosOf(new, S)
           /\ Distinct(ch, S) => Distinct(new, S)
           /\ \A N \in Nat :
                  PosOf(ch, S) = Without(N, from) /\ from \in 0 .. N
                      /\ to \in 0 .. N
                  => PosOf(new, S) = Without(N, to)
<1> DEFINE f == [x \in Int |-> IF Between(from, to, x)
                               THEN x + (IF to < from THEN 1 ELSE -1) ELSE x]
           P == PosOf(ch, S)
<1>1. P \subseteq Int \ {from}
  BY DEF PosOf, MovesOver
<1>2. \A c \in S : new[c].pos = f[ch[c].pos]
  BY DEF MovesOver
<1>3. \A x, y \in Int \ {from} : x # y => f[x] # f[y]
  BY DEF Between
<1>4. \A x, y \in P : x # y => f[x] # f[y]
  BY <1>1, <1>3
<1>5. \A x \in Int \ {from} : f[x] # to
  BY DEF Between
<1>6. ASSUME NEW N \in Nat, from \in 0 .. N, to \in 0 .. N
      PROVE  {f[x] : x \in (0 .. N) \ {from}} = (0 .. N) \ {to}
  <2>1. ASSUME NEW x \in (0 .. N) \ {from}
        PROVE  f[x] \in (0 .. N) \ {to}
    BY <1>6 DEF Between
  <2>2. ASSUME NEW y \in (0 .. N) \ {to}
        PROVE  \E x \in (0 .. N) \ {from} : f[x] = y
    <3>1. CASE to < y /\ y <= from
      <4>1. y - 1 \in (0 .. N) \ {from} /\ f[y - 1] = y
        BY <1>6, <3>1 DEF Between
      <4>. QED
        BY <4>1
    <3>2. CASE from <= y /\ y < to
      <4>1. y + 1 \in (0 .. N) \ {from} /\ f[y + 1] = y
        BY <1>6, <3>2 DEF Between
      <4>. QED
        BY <4>1
    <3>3. CASE ~ (to < y /\ y <= from) /\ ~ (from <= y /\ y < to)
      <4>1. y \in (0 .. N) \ {from} /\ f[y] = y
        BY <1>6, <3>3 DEF Between
      <4>. QED
        BY <4>1
    <3>. QED
      BY <3>1, <3>2, <3>3
  <2>. HIDE DEF f
  <2>. QED
    BY <2>1, <2>2
<1>. HIDE DEF f
<1>7. PosOf(new, S) = {f[x] : x \in P} /\ (Distinct(ch, S) => Distinct(new, S))
  BY <1>2, <1>4, MapPositions
<1>8. to \notin PosOf(new, S)
  BY <1>1, <1>5, <1>7
<1>. QED
  BY <1>6, <1>7, <1>8 DEF Without

\* Channels that are apart and fill 0 .. N-1 are N.
LEMMA CountPositions ==
    ASSUME NEW ch, NEW S, NEW N \in Nat, IsFiniteSet(S), Distinct(ch, S),
           PosOf(ch, S) = 0 .. N - 1
    PROVE  Cardinality(S) = N
<1> DEFINE f == [c \in S |-> ch[c].pos]
<1>1. f \in Bijection(S, 0 .. N - 1)
  BY DEF Bijection, Injection, Surjection, IsInjective, PosOf, Distinct
<1>2. Cardinality(0 .. N - 1) = Cardinality(S)
  BY <1>1, FS_Bijection DEF ExistsBijection
<1>3. Cardinality(0 .. N - 1) = N
  BY FS_Interval
<1>. QED
  BY <1>2, <1>3

-----------------------------------------------------------------------------
(* Groups between and during requests.                                     *)

\* Outside of the groups a request works on every channel is in place.
LEMMA SettledIs ==
    ASSUME NEW g
    PROVE  /\ g \notin Unfinished => Settled(g) = Siblings(g)
           /\ g \notin Unfinished' => Settled(g)' = Siblings(g)'
<1>1. ASSUME g \notin Unfinished
      PROVE  Settled(g) = Siblings(g)
  BY <1>1 DEF Settled, Moving, Siblings, Unfinished, OwnGroups
<1>2. ASSUME g \notin Unfinished'
      PROVE  Settled(g)' = Siblings(g)'
  BY <1>2 DEF Settled, Moving, Siblings, Unfinished, OwnGroups
<1>. QED
  BY <1>1, <1>2

\* A request that moves and inserts nothing has no unfinished group.
LEMMA NoneUnfinished ==
    /\ job.op \notin {"insert", "shift", "place"} =>
           Unfinished = {} /\ Moving = {}
    /\ job'.op \notin {"insert", "shift", "place"} =>
           Unfinished' = {} /\ Moving' = {}
BY DEF Unfinished, Moving

\* A group is as it was if neither its channels nor the request touch it.
LEMMA Untouched ==
    ASSUME NEW g, Siblings(g)' = Siblings(g),
           \A c \in Siblings(g) : channels'[c].pos = channels[c].pos,
           g \notin Unfinished, g \notin Unfinished'
    PROVE  /\ InPlace(g) => InPlace(g)'
           /\ Numbered(g) => Numbered(g)'
<1>1. PICK S : S = Siblings(g)
  OBVIOUS
<1>2. Settled(g) = S /\ Settled(g)' = S
  BY <1>1, SettledIs
<1>3. /\ PosOf(channels', S) = PosOf(channels, S)
      /\ Distinct(channels, S) => Distinct(channels', S)
  BY <1>1, SamePositions
<1>4. InPlace(g) => InPlace(g)'
  BY <1>2, <1>3 DEF InPlace, Apart
<1>5. Numbered(g) => Numbered(g)'
  BY <1>2, <1>3 DEF Numbered, Positions
<1>. QED
  BY <1>4, <1>5

\* What has to be shown of a group after a step.
Sound(g) ==
    /\ g \notin tied => InPlace(g)
    /\ g \notin tied \cup gappy => Numbered(g)

LEMMA StillSound ==
    ASSUME NEW g, Sound(g), tied \subseteq tied', gappy \subseteq gappy',
           Siblings(g)' = Siblings(g),
           \A c \in Siblings(g) : channels'[c].pos = channels[c].pos,
           g \notin Unfinished, g \notin Unfinished'
    PROVE  Sound(g)'
BY Untouched DEF Sound

\* An insertion at a position asked for.
LEMMA InsertAtSound ==
    ASSUME TypeOK, NEW u \in Users, NEW s \in KnownSpaces, NEW n \in Names,
           NEW parent \in {Top} \cup DOMAIN channels, NEW pos \in AskedPos,
           NEW ok \in BOOLEAN, InsertChannelAt(u, s, n, parent, pos, ok),
           NEW h \in Groups, Sound(h)
    PROVE  Sound(h)'
<1> DEFINE g == <<s, parent>>
           later == {c \in Siblings(g) : channels[c].pos >= pos}
<1>1. /\ job = Idle /\ Idle.op = "idle" /\ pos \in Int
      /\ job' = [op |-> "insert", row |-> [space |-> s, name |-> n,
                    parent |-> parent, pos |-> pos]]
  BY JobFacts, AskedAssumption DEF InsertChannelAt
<1>2. Unfinished = {} /\ Moving = {} /\ Moving' = {} /\ Unfinished' = {g}
  BY <1>1 DEF Unfinished, Moving
<1>3. Gap' = pos /\ job'.op = "insert"
  BY <1>1 DEF Gap
<1>4. tied \subseteq tied' /\ gappy \subseteq gappy'
  BY DEF InsertChannelAt
<1>5. CASE ~ ok
  <2>1. UNCHANGED channels /\ g \in tied'
    BY <1>5 DEF InsertChannelAt
  <2>2. CASE h = g
    BY <2>1, <2>2 DEF Sound
  <2>3. CASE h # g
    <3>1. Siblings(h)' = Siblings(h)
      BY <2>1 DEF Siblings, Group
    <3>. QED
      BY <1>2, <1>4, <2>1, <2>3, <3>1, StillSound
  <2>. QED
    BY <2>2, <2>3
<1>6. CASE ok
  <2>1. channels' = Shift(later, 1)
    BY <1>6 DEF InsertChannelAt
  <2>2. OnlyMoves /\ \A c \in DOMAIN channels :
            channels'[c].pos = IF c \in later THEN channels[c].pos + 1
                               ELSE channels[c].pos
    BY <2>1, ShiftMoves
  <2>3. Siblings(h)' = Siblings(h) /\ Siblings(h) \subseteq DOMAIN channels
    BY <2>2, MovesKeep DEF Siblings
  <2>4. CASE h # g
    <3>1. \A c \in Siblings(h) : c \notin later
      BY <2>4 DEF Siblings
    <3>2. \A c \in Siblings(h) : channels'[c].pos = channels[c].pos
      BY <2>2, <2>3, <3>1
    <3>. QED
      BY <1>2, <1>4, <2>3, <2>4, <3>2, StillSound
  <2>5. CASE h = g
    <3>1. PICK S : S = Siblings(h)
      OBVIOUS
    <3>2. Settled(h) = S /\ Settled(h)' = S
      BY <1>2, <2>3, <3>1 DEF Settled
    <3>3. \A c \in S : channels[c].pos \in Int
      BY <2>3, <3>1, RowFacts
    <3>4. \A c \in S : channels'[c].pos =
              IF channels[c].pos >= pos THEN channels[c].pos + 1
              ELSE channels[c].pos
      BY <2>2, <2>3, <2>5, <3>1
    <3>5. /\ pos \notin PosOf(channels', S)
          /\ Distinct(channels, S) => Distinct(channels', S)
          /\ \A N \in Nat : PosOf(channels, S) = 0 .. N - 1 /\ pos \in 0 .. N
                 => PosOf(channels', S) = Without(N, pos)
      <4>1. PICK ch : ch = channels
        OBVIOUS
      <4>2. PICK new : new = channels'
        OBVIOUS
      <4>3. MovesUp(ch, new, S, pos)
        BY <3>3, <3>4, <4>1, <4>2 DEF MovesUp
      <4>4. /\ pos \notin PosOf(new, S)
            /\ Distinct(ch, S) => Distinct(new, S)
            /\ \A N \in Nat : PosOf(ch, S) = 0 .. N - 1 /\ pos \in 0 .. N
                   => PosOf(new, S) = Without(N, pos)
        BY <1>1, <4>3, MakeRoom
      <4>. QED
        BY <4>1, <4>2, <4>4
    <3>6. InPlace(h) => InPlace(h)'
      BY <1>2, <1>3, <3>2, <3>5 DEF InPlace, Apart, Positions
    <3>7. ASSUME Numbered(h), pos \in 0 .. NextPos(g)
          PROVE  Numbered(h)'
      <4>1. PICK N \in Nat : Positions(Settled(h)) = 0 .. N - 1
        BY <1>2, <3>7 DEF Numbered
      <4>2. NextPos(h) = N
        BY <3>1, <3>2, <4>1, NextPosOfDense
      <4>3. pos \in 0 .. N
        BY <2>5, <3>7, <4>2
      <4>4. PosOf(channels', S) = (0 .. N) \ {pos}
        BY <3>2, <3>5, <4>1, <4>3 DEF Positions, Without
      <4>. QED
        BY <1>2, <1>3, <2>5, <3>2, <4>3, <4>4 DEF Numbered, Positions
    <3>8. pos \in 0 .. NextPos(g) \/ g \in gappy'
      BY DEF InsertChannelAt
    <3>. QED
      BY <1>4, <2>5, <3>6, <3>7, <3>8 DEF Sound
  <2>. QED
    BY <2>4, <2>5
<1>. QED
  BY <1>5, <1>6

\* A row that is inserted in the gap of its group, or at its end.
LEMMA RowFillsGap ==
    ASSUME TypeOK, NEW row \in Rows, channels' = Append(channels, row),
           Moving = {}, Moving' = {}, Unfinished' = {},
           NEW h \in Groups, h = <<row.space, row.parent>>,
           Sound(h), tied \subseteq tied', gappy \subseteq gappy',
           \/ Unfinished = {h} /\ job.op = "insert" /\ row.pos = Gap
           \/ Unfinished = {} /\ row.pos = NextPos(h)
    PROVE  Sound(h)'
<1> DEFINE k == Len(channels) + 1
<1>1. PICK S : S = Siblings(h)
  OBVIOUS
<1>2. PICK x : x = row.pos
  OBVIOUS
<1>3. PICK l : l = k
  OBVIOUS
<1>4. /\ l \notin S /\ Siblings(h)' = S \cup {l} /\ channels'[l].pos = x
      /\ \A c \in S : channels'[c].pos = channels[c].pos
  <2>1. /\ l \notin DOMAIN channels /\ channels'[l] = row
        /\ \A c \in DOMAIN channels : channels'[c] = channels[c]
        /\ Siblings(h)' = Siblings(h) \cup {l}
    BY <1>3, AppendAdds
  <2>2. S \subseteq DOMAIN channels
    BY <1>1 DEF Siblings
  <2>. QED
    BY <1>1, <1>2, <2>1, <2>2
<1>5. Settled(h) = S /\ Settled(h)' = S \cup {l}
  BY <1>1, <1>4 DEF Settled
<1>6. /\ PosOf(channels', S \cup {l}) = PosOf(channels, S) \cup {x}
      /\ Distinct(channels, S) /\ x \notin PosOf(channels, S)
             => Distinct(channels', S \cup {l})
  <2>1. PICK ch : ch = channels
    OBVIOUS
  <2>2. PICK new : new = channels'
    OBVIOUS
  <2>3. l \notin S /\ \A c \in S : new[c].pos = ch[c].pos
    BY <1>4, <2>1, <2>2
  <2>4. /\ PosOf(new, S \cup {l}) = PosOf(ch, S) \cup {new[l].pos}
        /\ Distinct(ch, S) /\ new[l].pos \notin PosOf(ch, S)
               => Distinct(new, S \cup {l})
    BY <2>3, AddOne
  <2>. QED
    BY <1>4, <2>1, <2>2, <2>4
<1>7. ASSUME InPlace(h)
      PROVE  InPlace(h)'
  <2>1. Distinct(channels, S)
    BY <1>5, <1>7 DEF InPlace, Apart
  <2>2. x \notin PosOf(channels, S)
    <3>1. CASE Unfinished = {h} /\ row.pos = Gap
      BY <1>2, <1>5, <1>7, <3>1 DEF InPlace, Positions
    <3>2. CASE row.pos = NextPos(h)
      <4>1. \A c \in S : channels[c].pos < x
        BY <1>1, <1>2, <3>2, NextPosIsBehind
      <4>2. \A c \in S : channels[c].pos \in Int
        BY <1>1, RowFacts DEF Siblings
      <4>3. x \in Int
        BY <1>2 DEF Rows
      <4>4. \A c \in S : channels[c].pos # x
        BY <4>1, <4>2, <4>3
      <4>. QED
        BY <4>4 DEF PosOf
    <3>. QED
      BY <3>1, <3>2
  <2>. QED
    BY <1>5, <1>6, <2>1, <2>2 DEF InPlace, Apart
<1>8. ASSUME Numbered(h)
      PROVE  Numbered(h)'
  <2>1. PICK N \in Nat : PosOf(channels, S) \cup {x} = 0 .. N
    <3>1. CASE Unfinished = {h} /\ row.pos = Gap
      <4>1. PICK N \in Nat : /\ PosOf(channels, S) = (0 .. N) \ {x}
                             /\ x \in 0 .. N
        BY <1>2, <1>5, <1>8, <3>1 DEF Numbered, Positions
      <4>. QED
        BY <4>1
    <3>2. CASE Unfinished = {} /\ row.pos = NextPos(h)
      <4>1. PICK N \in Nat : PosOf(channels, S) = 0 .. N - 1
        BY <1>5, <1>8, <3>2 DEF Numbered, Positions
      <4>2. x = N
        BY <1>1, <1>2, <3>2, <4>1, NextPosOfDense DEF Positions
      <4>3. (0 .. N - 1) \cup {N} = 0 .. N
        OBVIOUS
      <4>. QED
        BY <4>1, <4>2, <4>3
    <3>. QED
      BY <3>1, <3>2
  <2>2. N + 1 \in Nat /\ (N + 1) - 1 = N
    OBVIOUS
  <2>3. Positions(Settled(h))' = 0 .. (N + 1) - 1
    BY <1>5, <1>6, <2>1, <2>2 DEF Positions
  <2>. QED
    BY <2>2, <2>3 DEF Numbered
<1>. QED
  BY <1>7, <1>8 DEF Sound

\* An insertion that needs no room made for it, or the second half of one that
\* does.
LEMMA InsertSound ==
    ASSUME TypeOK, NEW row \in Rows, NEW ok \in BOOLEAN, Insert(row, ok),
           job' = Idle, tied \subseteq tied', gappy \subseteq gappy',
           NEW h \in Groups, Sound(h),
           \/ /\ job = Idle /\ row.pos = NextPos(<<row.space, row.parent>>)
           \/ /\ job.op = "insert" /\ row = job.row
              /\ ok \/ <<row.space, row.parent>> \in gappy'
    PROVE  Sound(h)'
<1> DEFINE g == <<row.space, row.parent>>
<1>1. Idle.op = "idle"
  BY DEF Idle
<1>2. /\ Unfinished' = {} /\ Moving' = {} /\ Moving = {}
      /\ job = Idle => Unfinished = {}
      /\ job.op = "insert" => Unfinished = {g} /\ row = job.row
  BY <1>1 DEF Unfinished, Moving
<1>3. CASE h # g
  <2>1. /\ Siblings(h)' = Siblings(h)
        /\ \A c \in Siblings(h) : channels'[c].pos = channels[c].pos
    <3>1. CASE UNCHANGED channels
      BY <3>1 DEF Siblings, Group
    <3>2. CASE channels' = Append(channels, row)
      BY <1>3, <3>2, AppendAdds DEF Siblings
    <3>. QED
      BY <3>1, <3>2 DEF Insert
  <2>2. h \notin Unfinished
    BY <1>2, <1>3
  <2>. QED
    BY <1>2, <2>1, <2>2, StillSound
<1>4. CASE h = g /\ ok
  <2>1. channels' = Append(channels, row)
    BY <1>4 DEF Insert
  <2>2. \/ Unfinished = {h} /\ job.op = "insert" /\ row.pos = Gap
        \/ Unfinished = {} /\ row.pos = NextPos(h)
    BY <1>2, <1>4 DEF Gap
  <2>. QED
    BY <1>2, <1>4, <2>1, <2>2, RowFillsGap
<1>5. CASE h = g /\ ~ ok
  <2>1. UNCHANGED channels
    BY <1>5 DEF Insert
  <2>2. Siblings(h)' = Siblings(h)
    BY <2>1 DEF Siblings, Group
  <2>3. CASE job = Idle
    BY <1>2, <2>1, <2>2, <2>3, StillSound
  <2>4. CASE h \in gappy'
    <3>1. PICK S : S = Siblings(h)
      OBVIOUS
    <3>2. Settled(h) = S /\ Settled(h)' = S
      BY <1>2, <2>2, <3>1 DEF Settled
    <3>3. InPlace(h) => InPlace(h)'
      BY <1>2, <2>1, <3>2 DEF InPlace, Apart
    <3>. QED
      BY <2>4, <3>3 DEF Sound
  <2>. QED
    BY <1>5, <2>3, <2>4
<1>. QED
  BY <1>3, <1>4, <1>5

LEMMA InsertLastSound ==
    ASSUME TypeOK, NEW u \in Users, NEW s \in KnownSpaces, NEW n \in Names,
           NEW parent \in {Top} \cup DOMAIN channels, NEW ok \in BOOLEAN,
           InsertChannelLast(u, s, n, parent, ok), NEW h \in Groups, Sound(h)
    PROVE  Sound(h)'
<1> DEFINE row == [space |-> s, name |-> n, parent |-> parent,
                   pos |-> NextPos(<<s, parent>>)]
<1>1. made \in Nat /\ made <= MaxSpaces /\ s \in 1 .. made
  BY BoundsAssumption DEF KnownSpaces, TypeOK
<1>2. s \in Spaces /\ parent \in 0 .. MaxChannels
  BY <1>1, RowFacts, BoundsAssumption DEF Spaces, Top
<1>3. row \in Rows
  BY <1>2, NextPosIsBehind DEF Rows
<1>4. /\ Insert(row, ok) /\ job = Idle /\ job' = Idle
      /\ tied \subseteq tied' /\ gappy \subseteq gappy'
  BY DEF InsertChannelLast
<1>5. row.pos = NextPos(<<row.space, row.parent>>)
  OBVIOUS
<1>. HIDE DEF row
<1>. QED
  BY <1>3, <1>4, <1>5, InsertSound

LEMMA InsertRowSound ==
    ASSUME TypeOK, NEW ok \in BOOLEAN, InsertRow(ok), NEW h \in Groups, Sound(h)
    PROVE  Sound(h)'
<1>1. PICK row \in Rows : row = job.row
  BY JobFacts DEF InsertRow
<1>2. /\ Insert(row, ok) /\ job.op = "insert" /\ job' = Idle
      /\ tied \subseteq tied' /\ gappy \subseteq gappy'
      /\ ok \/ <<row.space, row.parent>> \in gappy'
  BY <1>1 DEF InsertRow
<1>. QED
  BY <1>1, <1>2, InsertSound

\* The channel of a new space is alone in its group.
LEMMA GeneralSound ==
    ASSUME TypeOK, NewSpacesAreEmpty, NEW ok \in BOOLEAN,
           CreateSpaceGeneral(ok), NEW h \in Groups, Sound(h)
    PROVE  Sound(h)'
<1> DEFINE row == [space |-> job.space, name |-> General, parent |-> Top,
                   pos |-> 0]
<1>1. /\ job \in [op : {"general", "member"}, user : Users, space : Spaces]
      /\ job.op = "general" /\ job' = [job EXCEPT !.op = "member"]
      /\ UNCHANGED <<tied, gappy>>
      /\ UNCHANGED channels \/ channels' = Append(channels, row)
  BY JobFacts DEF CreateSpaceGeneral
<1>2. job'.op = "member" /\ job.space = made
  BY <1>1 DEF NewSpacesAreEmpty
<1>3. /\ Unfinished = {} /\ Moving = {} /\ Unfinished' = {} /\ Moving' = {}
  BY <1>1, <1>2, NoneUnfinished
<1>4. row \in Rows
  BY <1>1, GeneralAssumption, BoundsAssumption DEF Rows, Top
<1>5. CASE UNCHANGED channels
  <2>1. Siblings(h)' = Siblings(h)
    BY <1>5 DEF Siblings, Group
  <2>. QED
    BY <1>1, <1>3, <1>5, <2>1, StillSound
<1>6. CASE channels' = Append(channels, row) /\ h # <<row.space, row.parent>>
  <2>1. /\ Siblings(h)' = Siblings(h)
        /\ \A c \in Siblings(h) : channels'[c].pos = channels[c].pos
    BY <1>4, <1>6, AppendAdds DEF Siblings
  <2>. QED
    BY <1>1, <1>3, <2>1, StillSound
<1>7. CASE channels' = Append(channels, row) /\ h = <<row.space, row.parent>>
  <2>1. Siblings(h) = {}
    BY <1>1, <1>2, <1>7 DEF Siblings, Group, NewSpacesAreEmpty
  <2>2. row.pos = NextPos(h)
    BY <2>1 DEF NextPos
  <2>. HIDE DEF row
  <2>. QED
    BY <1>1, <1>3, <1>4, <1>7, <2>2, RowFillsGap
<1>. QED
  BY <1>1, <1>5, <1>6, <1>7

\* Requests that leave the channels alone.
LEMMA QuietSound ==
    ASSUME UNCHANGED channels, tied \subseteq tied', gappy \subseteq gappy',
           job'.op \notin {"insert", "shift", "place"}, Unfinished \subseteq tied',
           NEW h \in Groups, Sound(h)
    PROVE  Sound(h)'
<1>1. Unfinished' = {}
  BY NoneUnfinished
<1>2. Siblings(h)' = Siblings(h)
  BY DEF Siblings, Group
<1>3. CASE h \in Unfinished
  BY <1>3 DEF Sound
<1>4. CASE h \notin Unfinished
  BY <1>1, <1>2, <1>4, StillSound
<1>. QED
  BY <1>3, <1>4

-----------------------------------------------------------------------------
(* The three statements of a move.                                         *)

\* What a move works on, as long as it does not change the job's subject.
LEMMA MoveFacts ==
    ASSUME TypeOK, OnlyMoves, job.op \in {"shift", "place"}
    PROVE  /\ Unfinished = OwnGroups(job.space, job.name)
           /\ Moving = Named(job.space, job.name)
           /\ job' = [job EXCEPT !.op = "place"] =>
                  Unfinished' = Unfinished /\ Moving' = Moving
<1>1. /\ Unfinished = OwnGroups(job.space, job.name)
      /\ Moving = Named(job.space, job.name)
  BY DEF Unfinished, Moving
<1>2. ASSUME job' = [job EXCEPT !.op = "place"]
      PROVE  Unfinished' = Unfinished /\ Moving' = Moving
  <2>1. PICK s : s = job.space
    OBVIOUS
  <2>2. PICK n : n = job.name
    OBVIOUS
  <2>3. job'.op = "place" /\ job'.space = s /\ job'.name = n
    BY <1>2, <2>1, <2>2, JobFacts
  <2>4. Unfinished' = OwnGroups(s, n)' /\ Moving' = Named(s, n)'
    BY <2>3 DEF Unfinished, Moving
  <2>5. OwnGroups(s, n)' = OwnGroups(s, n) /\ Named(s, n)' = Named(s, n)
    BY MovesKeep
  <2>. QED
    BY <1>1, <2>1, <2>2, <2>4, <2>5
<1>. QED
  BY <1>1, <1>2

\* The channels of a name are in its groups.
LEMMA NamedAreOwn ==
    ASSUME NEW s, NEW n, NEW h
    PROVE  /\ Named(s, n) \subseteq DOMAIN channels
           /\ h \notin OwnGroups(s, n) =>
                  \A c \in Siblings(h) : c \notin Named(s, n)
           /\ h \in OwnGroups(s, n) =>
                  /\ \E c \in Named(s, n) : c \in Siblings(h)
                  /\ Siblings(h) \subseteq InSpace(s)
<1>1. Named(s, n) \subseteq DOMAIN channels
  BY DEF Named, InSpace
<1>2. ASSUME h \notin OwnGroups(s, n), NEW c \in Siblings(h)
      PROVE  c \notin Named(s, n)
  BY <1>2 DEF Siblings, OwnGroups
<1>3. ASSUME h \in OwnGroups(s, n)
      PROVE  /\ \E c \in Named(s, n) : c \in Siblings(h)
             /\ Siblings(h) \subseteq InSpace(s)
  <2>1. PICK c \in Named(s, n) : h = Group(c)
    BY <1>3 DEF OwnGroups
  <2>2. c \in Siblings(h)
    BY <1>1, <2>1 DEF Siblings
  <2>3. channels[c].space = s
    BY DEF Named, InSpace
  <2>4. \A d \in Siblings(h) : channels[d].space = s
    BY <2>1, <2>3 DEF Siblings, Group
  <2>. QED
    BY <2>2, <2>4 DEF Siblings, InSpace
<1>. QED
  BY <1>1, <1>2, <1>3

\* Out of the way.
LEMMA RepositionChannelSound ==
    ASSUME TypeOK, NEW s \in KnownSpaces, NEW n \in Names,
           NEW newpos \in AskedPos, NEW ok \in BOOLEAN,
           RepositionChannel(s, n, newpos, ok), NEW h \in Groups, Sound(h)
    PROVE  Sound(h)'
<1> DEFINE own == OwnGroups(s, n)
           oldpos == channels[Least(Named(s, n))].pos
<1>1. /\ job = Idle /\ Idle.op = "idle" /\ newpos \in Int
      /\ job' = [op |-> "shift", space |-> s, name |-> n, from |-> oldpos,
                 to |-> newpos]
      /\ tied \subseteq tied' /\ gappy \subseteq gappy'
  BY JobFacts, AskedAssumption DEF RepositionChannel
<1>2. /\ job'.op = "shift" /\ job'.space = s /\ job'.name = n
      /\ job'.from = oldpos /\ job'.to = newpos
  BY <1>1
<1>3. /\ OnlyMoves
      /\ \A c \in DOMAIN channels :
             c \notin Named(s, n) => channels'[c].pos = channels[c].pos
  <2>1. CASE ~ ok
    BY <2>1, UnchangedMoves DEF RepositionChannel
  <2>2. CASE ok
    <3>1. channels' = Place(Named(s, n), -1)
      BY <2>2 DEF RepositionChannel
    <3>. QED
      BY <3>1, PlaceMoves
  <2>. QED
    BY <2>1, <2>2
<1>4. /\ Siblings(h)' = Siblings(h) /\ Named(s, n)' = Named(s, n)
      /\ OwnGroups(s, n)' = OwnGroups(s, n)
      /\ Siblings(h) \subseteq DOMAIN channels
      /\ DOMAIN channels' = DOMAIN channels
  BY <1>3, MovesKeep DEF Siblings, OnlyMoves
<1>5. Unfinished = {} /\ Moving = {}
  BY <1>1 DEF Unfinished, Moving
<1>6. Unfinished' = own /\ Moving' = Named(s, n)
  <2>1. Unfinished' = OwnGroups(s, n)' /\ Moving' = Named(s, n)'
    BY <1>2 DEF Unfinished, Moving
  <2>. QED
    BY <1>4, <2>1
<1>7. Gap' = oldpos
  BY <1>2 DEF Gap
<1>8. CASE h \notin own
  <2>1. \A c \in Siblings(h) : channels'[c].pos = channels[c].pos
    BY <1>3, <1>4, <1>8, NamedAreOwn
  <2>. QED
    BY <1>1, <1>4, <1>5, <1>6, <1>8, <2>1, StillSound
<1>9. CASE h \in own /\ h \in tied'
  BY <1>9 DEF Sound
<1>10. CASE h \in own /\ h \notin tied'
  <2>1. Cardinality(Named(s, n)) = 1
    BY <1>10 DEF RepositionChannel
  <2>2. IsFiniteSet(Named(s, n))
    BY RowFacts, NamedAreOwn, FS_Subset
  <2>3. PICK c : Named(s, n) = {c}
    BY <2>1, <2>2, FS_Singleton
  <2>4. c \in Siblings(h) /\ c \in DOMAIN channels
    BY <1>4, <1>10, <2>3, NamedAreOwn
  <2>5. c \in Nat
    BY <2>4, RowFacts
  <2>6. Least({c}) = c
    BY <2>5 DEF Least
  <2>7. oldpos = channels[c].pos
    BY <2>3, <2>6
  <2>8. PICK S : S = Siblings(h)
    OBVIOUS
  <2>9. PICK p : p = channels[c].pos
    OBVIOUS
  <2>10. PICK ch : ch = channels
    OBVIOUS
  <2>11. PICK new : new = channels'
    OBVIOUS
  <2>12. Settled(h) = S /\ Settled(h)' = S \ {c}
    BY <1>4, <1>5, <1>6, <2>3, <2>8 DEF Settled
  <2>13. \A d \in S \ {c} : new[d].pos = ch[d].pos
    BY <1>3, <1>4, <2>3, <2>8, <2>10, <2>11
  <2>14. ASSUME InPlace(h)
         PROVE  /\ Distinct(new, S \ {c}) /\ p \notin PosOf(new, S \ {c})
                /\ PosOf(new, S \ {c}) = PosOf(ch, S) \ {p}
    <3>1. Distinct(ch, S) /\ c \in S /\ ch[c].pos = p
      BY <2>4, <2>8, <2>9, <2>10, <2>12, <2>14 DEF InPlace, Apart
    <3>2. /\ Distinct(ch, S \ {c}) /\ p \notin PosOf(ch, S \ {c})
          /\ PosOf(ch, S \ {c}) = PosOf(ch, S) \ {p}
      BY <3>1, TakeOut
    <3>. QED
      BY <2>13, <3>2, SamePositions
  <2>15. Gap' = p
    BY <1>7, <2>7, <2>9
  <2>16. ASSUME InPlace(h)
         PROVE  InPlace(h)'
    <3>1. Apart(Settled(h))' /\ Gap' \notin Positions(Settled(h))'
      BY <2>11, <2>12, <2>14, <2>15, <2>16 DEF Apart, Positions
    <3>2. Moving' = {c} /\ c \in DOMAIN channels'
      BY <1>4, <1>6, <2>3, <2>4
    <3>. QED
      BY <3>1, <3>2 DEF InPlace
  <2>17. ASSUME InPlace(h), Numbered(h), h \notin gappy'
         PROVE  Numbered(h)'
    <3>1. PICK N \in Nat : PosOf(ch, S) = 0 .. N - 1
      BY <1>5, <2>10, <2>12, <2>17 DEF Numbered, Positions
    <3>2. newpos \in 0 .. NextPos(h) - 1
      BY <1>10, <2>17 DEF RepositionChannel
    <3>3. NextPos(h) = N
      BY <2>8, <2>10, <3>1, NextPosOfDense DEF Positions
    <3>4. p \in 0 .. N - 1
      BY <2>4, <2>8, <2>9, <2>10, <3>1 DEF PosOf
    <3>5. N - 1 \in Nat
      BY <3>4
    <3>6. Positions(Settled(h))' = (0 .. N - 1) \ {Gap'}
      BY <2>11, <2>12, <2>14, <2>15, <2>17, <3>1 DEF Positions
    <3>7. Gap' \in 0 .. N - 1 /\ job'.to \in 0 .. N - 1
      BY <1>2, <2>15, <3>2, <3>3, <3>4
    <3>8. h \in Unfinished'
      BY <1>6, <1>10
    <3>. QED
      BY <3>5, <3>6, <3>7, <3>8 DEF Numbered
  <2>. QED
    BY <1>1, <1>10, <2>16, <2>17 DEF Sound
<1>. QED
  BY <1>8, <1>9, <1>10

\* The others by one.
LEMMA RepositionShiftSound ==
    ASSUME TypeOK, NEW ok \in BOOLEAN, RepositionShift(ok),
           NEW h \in Groups, Sound(h)
    PROVE  Sound(h)'
<1> DEFINE own == OwnGroups(job.space, job.name)
           moved == {c \in InSpace(job.space) :
                        Between(job.from, job.to, channels[c].pos)}
           others == {Group(c) : c \in moved} \ own
           d == IF job.to < job.from THEN 1 ELSE -1
<1>1. /\ job \in [op : {"shift", "place"}, space : Spaces, name : Names,
                  from : Int, to : Int]
      /\ job.op = "shift" /\ job' = [job EXCEPT !.op = "place"]
      /\ tied \subseteq tied' /\ gappy \subseteq gappy'
  BY JobFacts DEF RepositionShift
<1>2. /\ job'.op = "place" /\ job'.to = job.to /\ job.from \in Int
      /\ job.to \in Int
  BY <1>1
<1>3. OnlyMoves
  BY StepsThatMove
<1>4. Siblings(h)' = Siblings(h) /\ Siblings(h) \subseteq DOMAIN channels
  BY <1>3, MovesKeep DEF Siblings
<1>5. /\ Unfinished = own /\ Moving = Named(job.space, job.name)
      /\ Unfinished' = own /\ Moving' = Moving
  BY <1>1, <1>3, MoveFacts
<1>6. Gap = job.from /\ Gap' = job.to
  BY <1>1, <1>2 DEF Gap
<1>7. ASSUME ok
      PROVE  \A c \in DOMAIN channels :
                 channels'[c].pos = IF c \in moved THEN channels[c].pos + d
                                    ELSE channels[c].pos
  <2>1. channels' = Shift(moved, d)
    BY <1>7 DEF RepositionShift
  <2>2. d \in Int
    OBVIOUS
  <2>. HIDE DEF d, moved
  <2>. QED
    BY <2>1, <2>2, ShiftMoves
<1>8. CASE h \in tied'
  BY <1>8 DEF Sound
<1>9. CASE h \notin own /\ h \notin tied'
  <2>1. CASE ~ ok
    <3>1. UNCHANGED channels
      BY <2>1 DEF RepositionShift
    <3>. QED
      BY <1>1, <1>4, <1>5, <1>9, <3>1, StillSound
  <2>2. CASE ok
    <3>1. h \notin others
      BY <1>9, <2>2 DEF RepositionShift
    <3>2. \A c \in Siblings(h) : c \notin moved
      BY <1>9, <3>1 DEF Siblings
    <3>3. \A c \in Siblings(h) : channels'[c].pos = channels[c].pos
      BY <1>4, <1>7, <2>2, <3>2
    <3>. QED
      BY <1>1, <1>4, <1>5, <1>9, <3>3, StillSound
  <2>. QED
    BY <2>1, <2>2
<1>10. CASE h \in own /\ h \notin tied'
  <2>1. ok
    BY <1>10 DEF RepositionShift
  <2>2. PICK T : T = Settled(h)
    OBVIOUS
  <2>3. PICK from \in Int : from = job.from
    BY <1>2
  <2>4. PICK to \in Int : to = job.to
    BY <1>2
  <2>5. PICK ch : ch = channels
    OBVIOUS
  <2>6. PICK new : new = channels'
    OBVIOUS
  <2>7. Settled(h)' = T /\ T \subseteq Siblings(h)
    BY <1>4, <1>5, <2>2 DEF Settled
  <2>8. \A c \in T : c \in InSpace(job.space) /\ c \in DOMAIN channels
    BY <1>4, <1>10, <2>7, NamedAreOwn
  <2>9. MovesOver(ch, new, T, from, to)
    <3>1. ASSUME NEW c \in T
          PROVE  /\ ch[c].pos \in Int
                 /\ new[c].pos = IF Between(from, to, ch[c].pos)
                                 THEN ch[c].pos + (IF to < from THEN 1 ELSE -1)
                                 ELSE ch[c].pos
      <4>1. channels[c].pos \in Int /\ c \in DOMAIN channels
        BY <2>8, RowFacts
      <4>2. c \in moved <=> Between(job.from, job.to, channels[c].pos)
        BY <2>8
      <4>3. channels'[c].pos = IF c \in moved THEN channels[c].pos + d
                               ELSE channels[c].pos
        BY <1>7, <2>1, <4>1
      <4>. HIDE DEF moved
      <4>. QED
        BY <2>3, <2>4, <2>5, <2>6, <4>1, <4>2, <4>3
    <3>. QED
      BY <3>1 DEF MovesOver
  <2>10. InPlace(h)
    BY <1>1, <1>10 DEF Sound
  <2>11. /\ Distinct(ch, T) /\ from \notin PosOf(ch, T)
         /\ Moving # {} => \E c \in DOMAIN channels : Moving = {c}
    BY <1>5, <1>6, <1>10, <2>2, <2>3, <2>5, <2>10
    DEF InPlace, Apart, Positions
  <2>12. /\ to \notin PosOf(new, T)
         /\ Distinct(ch, T) => Distinct(new, T)
         /\ \A N \in Nat :
                PosOf(ch, T) = Without(N, from) /\ from \in 0 .. N
                    /\ to \in 0 .. N
                => PosOf(new, T) = Without(N, to)
    BY <2>9, <2>11, MoveGap
  <2>13. InPlace(h)'
    <3>1. Apart(Settled(h))' /\ Gap' \notin Positions(Settled(h))'
      BY <1>6, <2>4, <2>6, <2>7, <2>11, <2>12 DEF Apart, Positions
    <3>2. DOMAIN channels' = DOMAIN channels
      BY <1>3 DEF OnlyMoves
    <3>3. Moving' # {} => \E c \in DOMAIN channels' : Moving' = {c}
      BY <1>5, <2>11, <3>2
    <3>. QED
      BY <3>1, <3>3 DEF InPlace
  <2>14. ASSUME Numbered(h)
         PROVE  Numbered(h)'
    <3>1. PICK N \in Nat : /\ PosOf(ch, T) = (0 .. N) \ {from}
                           /\ from \in 0 .. N /\ to \in 0 .. N
      BY <1>1, <1>5, <1>6, <1>10, <2>2, <2>3, <2>4, <2>5, <2>14
      DEF Numbered, Positions
    <3>2. PosOf(new, T) = Without(N, to)
      BY <2>12, <3>1 DEF Without
    <3>3. Positions(Settled(h))' = (0 .. N) \ {Gap'} /\ Gap' \in 0 .. N
      BY <1>6, <2>4, <2>6, <2>7, <3>1, <3>2 DEF Positions, Without
    <3>4. h \in Unfinished' /\ job'.op # "shift"
      BY <1>2, <1>5, <1>10
    <3>. QED
      BY <3>3, <3>4 DEF Numbered
  <2>. QED
    BY <1>1, <2>13, <2>14 DEF Sound
<1>. QED
  BY <1>8, <1>9, <1>10

\* Into place.
LEMMA RepositionPlaceSound ==
    ASSUME TypeOK, NEW ok \in BOOLEAN, RepositionPlace(ok),
           NEW h \in Groups, Sound(h)
    PROVE  Sound(h)'
<1> DEFINE own == OwnGroups(job.space, job.name)
<1>1. /\ job \in [op : {"shift", "place"}, space : Spaces, name : Names,
                  from : Int, to : Int]
      /\ job.op = "place" /\ job' = Idle /\ Idle.op = "idle"
      /\ tied \subseteq tied' /\ gappy \subseteq gappy'
  BY JobFacts DEF RepositionPlace
<1>2. OnlyMoves
  BY StepsThatMove
<1>3. Siblings(h)' = Siblings(h) /\ Siblings(h) \subseteq DOMAIN channels
  BY <1>2, MovesKeep DEF Siblings
<1>4. /\ Unfinished = own /\ Moving = Named(job.space, job.name)
      /\ Unfinished' = {} /\ Moving' = {} /\ Gap = job.to
  BY <1>1, <1>2, MoveFacts DEF Unfinished, Moving, Gap
<1>5. ASSUME ok
      PROVE  \A c \in DOMAIN channels :
                 channels'[c].pos = IF c \in Moving THEN job.to
                                    ELSE channels[c].pos
  <2>1. channels' = Place(Moving, job.to) /\ job.to \in Int
    BY <1>1, <1>4, <1>5 DEF RepositionPlace
  <2>. QED
    BY <2>1, PlaceMoves
<1>6. CASE h \notin own
  <2>1. \A c \in Siblings(h) : channels'[c].pos = channels[c].pos
    <3>1. CASE ~ ok
      BY <3>1 DEF RepositionPlace
    <3>2. CASE ok
      BY <1>3, <1>4, <1>5, <1>6, <3>2, NamedAreOwn
    <3>. QED
      BY <3>1, <3>2
  <2>. QED
    BY <1>1, <1>3, <1>4, <1>6, <2>1, StillSound
<1>7. CASE h \in own /\ h \in tied'
  BY <1>7 DEF Sound
<1>8. CASE h \in own /\ h \notin tied'
  <2>1. ok /\ h \notin tied
    BY <1>1, <1>8 DEF RepositionPlace
  <2>2. InPlace(h)
    BY <2>1 DEF Sound
  <2>3. PICK c \in Moving : c \in Siblings(h)
    BY <1>4, <1>8, NamedAreOwn
  <2>4. Moving = {c}
    BY <1>4, <1>8, <2>2, <2>3 DEF InPlace
  <2>5. PICK T : T = Settled(h)
    OBVIOUS
  <2>6. PICK to : to = job.to
    OBVIOUS
  <2>7. PICK ch : ch = channels
    OBVIOUS
  <2>8. PICK new : new = channels'
    OBVIOUS
  <2>9. PICK k : k = c
    OBVIOUS
  <2>10. k \notin T /\ Settled(h)' = T \cup {k} /\ T \subseteq DOMAIN channels
    BY <1>3, <1>4, <2>3, <2>4, <2>5, <2>9 DEF Settled
  <2>11. new[k].pos = to /\ \A x \in T : new[x].pos = ch[x].pos
    BY <1>3, <1>5, <2>1, <2>3, <2>4, <2>6, <2>7, <2>8, <2>9, <2>10
  <2>12. /\ PosOf(new, T \cup {k}) = PosOf(ch, T) \cup {new[k].pos}
         /\ Distinct(ch, T) /\ new[k].pos \notin PosOf(ch, T)
                => Distinct(new, T \cup {k})
    BY <2>10, <2>11, AddOne
  <2>13. Distinct(ch, T) /\ to \notin PosOf(ch, T)
    BY <1>4, <1>8, <2>2, <2>5, <2>6, <2>7 DEF InPlace, Apart, Positions
  <2>14. InPlace(h)'
    BY <1>4, <2>8, <2>10, <2>11, <2>12, <2>13 DEF InPlace, Apart
  <2>15. ASSUME Numbered(h)
         PROVE  Numbered(h)'
    <3>1. PICK N \in Nat : PosOf(ch, T) = (0 .. N) \ {to} /\ to \in 0 .. N
      BY <1>4, <1>8, <2>5, <2>6, <2>7, <2>15 DEF Numbered, Positions
    <3>2. N + 1 \in Nat /\ (N + 1) - 1 = N
      OBVIOUS
    <3>3. Positions(Settled(h))' = 0 .. (N + 1) - 1
      BY <2>8, <2>10, <2>11, <2>12, <3>1, <3>2 DEF Positions
    <3>. QED
      BY <1>4, <3>2, <3>3 DEF Numbered
  <2>. QED
    BY <1>1, <2>14, <2>15 DEF Sound
<1>. QED
  BY <1>6, <1>7, <1>8

-----------------------------------------------------------------------------
(* The invariant.                                                          *)

LEMMA GroupsKept ==
    ASSUME TypeOK, RoomForRow, NewSpacesAreEmpty, [Next]_vars,
           NEW h \in Groups, Sound(h)
    PROVE  Sound(h)'
<1>0. Idle.op = "idle"
  BY DEF Idle
<1>1. ASSUME NEW u \in Users, NEW s \in KnownSpaces, NEW n \in Names,
             NEW parent \in {Top} \cup DOMAIN channels, NEW pos \in AskedPos,
             NEW ok \in BOOLEAN, InsertChannelAt(u, s, n, parent, pos, ok)
      PROVE  Sound(h)'
  BY <1>1, InsertAtSound
<1>2. ASSUME NEW s \in KnownSpaces, NEW n \in Names, NEW newpos \in AskedPos,
             NEW ok \in BOOLEAN, RepositionChannel(s, n, newpos, ok)
      PROVE  Sound(h)'
  BY <1>2, RepositionChannelSound
<1>3. ASSUME NEW ok \in BOOLEAN, RepositionShift(ok) \/ RepositionPlace(ok)
      PROVE  Sound(h)'
  BY <1>3, RepositionShiftSound, RepositionPlaceSound
<1>4. ASSUME NEW ok \in BOOLEAN, NEW u \in Users, NEW s \in KnownSpaces,
             NEW n \in Names, NEW parent \in {Top} \cup DOMAIN channels,
             InsertChannelLast(u, s, n, parent, ok)
      PROVE  Sound(h)'
  BY <1>4, InsertLastSound
<1>5. ASSUME NEW ok \in BOOLEAN, InsertRow(ok)
      PROVE  Sound(h)'
  BY <1>5, InsertRowSound
<1>6. ASSUME NEW ok \in BOOLEAN, CreateSpaceGeneral(ok)
      PROVE  Sound(h)'
  BY <1>6, GeneralSound
<1>7. ASSUME UNCHANGED channels, tied \subseteq tied', gappy \subseteq gappy',
             job'.op \notin {"insert", "shift", "place"},
             Unfinished \subseteq tied'
      PROVE  Sound(h)'
  BY <1>7, QuietSound
<1>8. CASE Abort \/ Crash
  BY <1>0, <1>7, <1>8 DEF Abort, Crash
<1>9. CASE \E u \in Users : auth(u) \/ Disconnect(u)
  BY <1>0, <1>7, <1>9 DEF auth, Disconnect, Unfinished
<1>10. CASE \E u \in Users, s \in KnownSpaces : GetChannels(u, s)
  BY <1>0, <1>7, <1>10 DEF GetChannels, Unfinished
<1>11. CASE \E u \in Users, ok \in BOOLEAN : CreateSpace(u, ok)
  BY <1>0, <1>7, <1>11 DEF CreateSpace, Unfinished
<1>12. CASE \E ok \in BOOLEAN : CreateSpaceMember(ok)
  BY <1>0, <1>7, <1>12 DEF CreateSpaceMember, Unfinished
<1>13. CASE UNCHANGED vars
  BY <1>13
  DEF vars, Sound, InPlace, Numbered, Apart, Positions, Settled, Siblings,
      Group, Moving, Gap, Unfinished, OwnGroups, Named, InSpace
<1>. QED
  BY <1>1, <1>2, <1>3, <1>4, <1>5, <1>6, <1>8, <1>9, <1>10, <1>11, <1>12,
     <1>13, Steps

LEMMA InvInit == Init => IInv
<1>. SUFFICES ASSUME Init PROVE IInv
  OBVIOUS
<1>1. TypeOK
  BY TypeInit
<1>2. /\ DOMAIN channels = {} /\ DOMAIN members = {}
      /\ job = Idle /\ Idle.op = "idle"
  BY DEF Init, Idle
<1>3. RoomForRow /\ NewSpacesAreEmpty
  BY <1>2 DEF RoomForRow, NewSpacesAreEmpty
<1>4. \A u \in Users, s \in Spaces : view[u][s] = NoList
  BY DEF Init
<1>5. ViewersAreMembers /\ ListsAreCurrent
  BY <1>4 DEF ViewersAreMembers, ListsAreCurrent
<1>6. PromisedSpacesHaveMembers /\ SpacesAreInOrder
  BY <1>2 DEF Init, PromisedSpacesHaveMembers, SpacesAreInOrder
<1>7. ASSUME NEW g
      PROVE  InPlace(g) /\ Numbered(g)
  <2>1. Unfinished = {} /\ Settled(g) = {}
    BY <1>2 DEF Unfinished, Settled, Siblings
  <2>2. Positions(Settled(g)) = 0 .. 0 - 1
    BY <2>1 DEF Positions, PosOf
  <2>3. InPlace(g)
    BY <2>1 DEF InPlace, Apart, Distinct
  <2>4. Numbered(g)
    BY <2>1, <2>2 DEF Numbered
  <2>. QED
    BY <2>3, <2>4
<1>. QED
  BY <1>1, <1>3, <1>5, <1>6, <1>7
  DEF IInv, UntiedAreInPlace, SmoothAreNumbered

LEMMA InvNext == IInv /\ [Next]_vars => IInv'
<1>. SUFFICES ASSUME IInv, [Next]_vars PROVE IInv'
  OBVIOUS
<1>. USE DEF IInv
<1>1. TypeOK'
  BY TypeKept
<1>2. RoomForRow'
  BY RoomKept
<1>3. NewSpacesAreEmpty'
  BY SpacesKept
<1>4. ViewersAreMembers' /\ ListsAreCurrent'
  BY ViewsKept DEF ViewsAreRight
<1>5. PromisedSpacesHaveMembers'
  BY PromisedKept
<1>6. SpacesAreInOrder'
  BY MembersGrow
<1>7. ASSUME NEW h \in Groups
      PROVE  Sound(h)'
  <2>1. Sound(h)
    BY DEF Sound, UntiedAreInPlace, SmoothAreNumbered
  <2>. QED
    BY <2>1, GroupsKept
<1>8. UntiedAreInPlace' /\ SmoothAreNumbered'
  <2>1. Groups' = Groups
    BY DEF Groups, Spaces
  <2>2. \A h \in Groups : /\ h \notin tied' => InPlace(h)'
                          /\ h \notin tied' \cup gappy' => Numbered(h)'
    BY <1>7 DEF Sound
  <2>. QED
    BY <2>1, <2>2 DEF UntiedAreInPlace, SmoothAreNumbered
<1>. QED
  BY <1>1, <1>2, <1>3, <1>4, <1>5, <1>6, <1>8

LEMMA InvHolds == Spec => []IInv
BY InvInit, InvNext, PTL DEF Spec

-----------------------------------------------------------------------------
(* The theorems.                                                           *)

\* Every variable keeps its type: the tables hold rows of the schema, and no
\* request inserts a channel it was not let in for.
THEOREM TypeCorrectness == Spec => []TypeOK
<1>1. IInv => TypeOK
  BY DEF IInv
<1>. QED
  BY <1>1, InvHolds, PTL

\* Between two requests no two siblings share a position, unless a write of
\* their group's own failed, two channels of a name were moved at once, or a
\* move in another group shifted them (InsertChannel and RepositionChannel of
\* src/db.c, any interleaving with failures, aborted requests and crashes).
THEOREM PositionsAreDistinct == Spec => []DistinctPositions
<1>1. ASSUME IInv, job = Idle, NEW c \in DOMAIN channels,
             NEW e \in DOMAIN channels, c # e, Group(c) = Group(e),
             Group(c) \notin tied
      PROVE  channels[c].pos # channels[e].pos
  <2>1. PICK g : g = Group(c)
    OBVIOUS
  <2>2. TypeOK /\ g \in Groups \ tied
    BY <1>1, <2>1, RowFacts DEF IInv
  <2>3. InPlace(g)
    BY <1>1, <2>2 DEF IInv, UntiedAreInPlace
  <2>4. Unfinished = {}
    BY <1>1, <2>2, JobFacts, NoneUnfinished
  <2>5. Settled(g) = Siblings(g)
    BY <2>4, SettledIs
  <2>6. c \in Siblings(g) /\ e \in Siblings(g)
    BY <1>1, <2>1 DEF Siblings
  <2>. QED
    BY <1>1, <2>3, <2>5, <2>6 DEF InPlace, Apart, Distinct
<1>2. IInv => DistinctPositions
  BY <1>1 DEF DistinctPositions
<1>. QED
  BY <1>2, InvHolds, PTL

\* As long as clients also ask for positions in range, the positions of n
\* siblings are 0 .. n-1 between two requests.
THEOREM PositionsAreDense == Spec => []DensePositions
<1>1. ASSUME IInv, job = Idle,
             NEW g \in {Group(c) : c \in DOMAIN channels} \ (tied \cup gappy)
      PROVE  {channels[c].pos : c \in Siblings(g)}
                 = 0 .. Cardinality(Siblings(g)) - 1
  <2>1. TypeOK /\ g \in Groups \ (tied \cup gappy)
    BY <1>1, RowFacts DEF IInv
  <2>2. InPlace(g) /\ Numbered(g)
    BY <1>1, <2>1 DEF IInv, UntiedAreInPlace, SmoothAreNumbered
  <2>3. Unfinished = {}
    BY <1>1, <2>1, JobFacts, NoneUnfinished
  <2>4. Settled(g) = Siblings(g)
    BY <2>3, SettledIs
  <2>5. PICK N \in Nat : PosOf(channels, Siblings(g)) = 0 .. N - 1
    BY <2>2, <2>3, <2>4 DEF Numbered, Positions
  <2>6. Distinct(channels, Siblings(g))
    BY <2>2, <2>4 DEF InPlace, Apart
  <2>7. IsFiniteSet(Siblings(g))
    BY <2>1, SiblingsFinite
  <2>8. PICK ch : ch = channels
    OBVIOUS
  <2>9. PICK S : S = Siblings(g)
    OBVIOUS
  <2>10. Cardinality(S) = N
    BY <2>5, <2>6, <2>7, <2>8, <2>9, CountPositions
  <2>. QED
    BY <2>5, <2>9, <2>10 DEF PosOf
<1>2. IInv => DensePositions
  BY <1>1 DEF DensePositions
<1>. QED
  BY <1>2, InvHolds, PTL

\* A connected client that was sent the channels of a space holds exactly those
\* of the table (GetChannels and PushUpdatedChannelsList): every insertion
\* reaches every member that has a list, since only members get one.
THEOREM ListsFollowTable == Spec => []ListsAreCurrent
<1>1. IInv => ListsAreCurrent
  BY DEF IInv
<1>. QED
  BY <1>1, InvHolds, PTL

\* A space whose creation was answered with success keeps its creator for a
\* member, whatever failed on the way and after (CreateSpace).
THEOREM PromisedSpacesAreKept == Spec => []PromisedSpacesHaveMembers
<1>1. IInv => PromisedSpacesHaveMembers
  BY DEF IInv
<1>. QED
  BY <1>1, InvHolds, PTL

\* The spaces of an account are numbered 0, 1, 2, ... in the order they were
\* created, whatever other accounts create in between.
THEOREM SpacesStayInOrder == Spec => []SpacesAreInOrder
<1>1. IInv => SpacesAreInOrder
  BY DEF IInv
<1>. QED
  BY <1>1, InvHolds, PTL

=============================================================================
