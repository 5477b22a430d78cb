-------------------------- MODULE StateSnapshotProofs --------------------------
(***************************************************************************)
(* What a snapshot has stored wherever it is killed, and what it has       *)
(* stored when it is not, for every ledger, every order of its keys, every *)
(* page size and flush rule, and any number of kills.                      *)
(***************************************************************************)
EXTENDS StateSnapshot, FiniteSetTheorems, FunctionTheorems, TLAPS

USE DEF nodes

Active == pc \in {"fetch", "flush", "mark", "complete"}

\* The objects of a set that lie before a place of the keyspace.
Before(S, place) == {x \in S : \E k \in DOMAIN keyspace : k < place /\ keyspace[k] = x}

\* The process: what it knows of its place in the walk.
PlaceInv ==
  /\ Active => walk \in {"walk1", "walk2"}
  /\ pc = "fetch" => at <= Len(keyspace) + 1
  /\ pc \in {"flush", "mark", "complete"} => (ended <=> at > Len(keyspace))
  /\ pc = "complete" => ended
  /\ pc \in {"mark", "complete"} => batch = {}
  /\ Active /\ state.pass = walk /\ state.marker # Null => state.marker <= at
  /\ Active => walk \notin state.completed

\* The lines a walk has passed are in its batch or in the database.
LinesInv ==
  ~cut =>
    /\ Active /\ walk = "walk1" => Before(Lines, at) \subseteq stored \cup batch
    /\ state.pass = "walk1" /\ state.marker # Null => Before(Lines, state.marker) \subseteq stored
    /\ "walk1" \in state.completed => Lines \subseteq stored

\* Of these objects the ends are in the cache, and the issuers have a token row.
Met(S) == \A x \in S : Ends(x) \subseteq cached /\ Issuer(x) \in tokens

\* A process that was never killed and never misled: what walk 1 has met is what
\* walk 2 filters by.
UnkilledInv ==
  crashes = 0 /\ ~cut =>
    /\ pc = "down" /\ state.status = "running" => pruned /\ ~history
    /\ state.status = "none" => pc = "down" /\ state.completed = {} /\ state.pass = Null
    /\ pc = "choose" => state.pass = Null
    /\ Active /\ walk = "walk1" => Met(Before(Lines, at))
    /\ "walk1" \in state.completed => Met(Lines)
    /\ Active /\ walk = "walk2" => "walk1" \in state.completed /\ issuers = tokens
    /\ Active /\ walk = "walk2" => Before(Due("walk2"), at) \subseteq stored \cup batch
    /\ "walk2" \in state.completed => Due("walk2") \subseteq stored
    /\ pc = "finish" \/ state.status = "done" => "walk2" \in state.completed

KeysInv == DOMAIN keyspace = 1..Len(keyspace) /\ Len(keyspace) \in Nat
           /\ {keyspace[k] : k \in DOMAIN keyspace} = Objects

SnapInv == TypeOK /\ KeysInv /\ PlaceInv /\ LinesInv /\ UnkilledInv

------------------------------------------------------------------------------
LEMMA WalksAre == Walks = <<"walk1", "walk2">> /\ DOMAIN Walks = {1, 2} /\ ToSet(Walks) = {"walk1", "walk2"}
  BY DEF Walks, ToSet

LEMMA NullIs == Null \notin Nat /\ Null \notin {"walk1", "walk2"}
  BY SnapshotAssumption DEF SnapshotAssumption

\* A permutation of a finite set has all its elements.
LEMMA KeysCover ==
  ASSUME Init
  PROVE  KeysInv
  <1> DEFINE D == 1..Cardinality(Objects)
  <1>1. IsFiniteSet(Objects) /\ Cardinality(Objects) \in Nat
    BY SnapshotAssumption, FS_CardinalityType DEF SnapshotAssumption
  <1>2. keyspace \in [D -> Objects] /\ \A i, j \in D : i # j => keyspace[i] # keyspace[j]
    BY DEF Init, SetToSeqs
  <1>3. IsFiniteSet(D) /\ Cardinality(D) = Cardinality(Objects)
    BY <1>1, FS_Interval
  <1>4. keyspace \in Injection(D, Objects)
    BY <1>2 DEF Injection, IsInjective
  <1>5. keyspace \in Surjection(D, Objects)
    BY <1>1, <1>3, <1>4, FS_Injection
  <1>6. {keyspace[k] : k \in D} = Objects
    BY <1>2, <1>5 DEF Surjection
  <1>7. DOMAIN keyspace = D /\ Len(keyspace) = Cardinality(Objects)
    BY <1>1, <1>2
  <1> QED
    BY <1>1, <1>6, <1>7 DEF KeysInv

LEMMA InitInv == Init => SnapInv
  <1> SUFFICES ASSUME Init PROVE SnapInv
    OBVIOUS
  <1>1. KeysInv
    BY KeysCover
  <1>2. TypeOK
    <2>1. state = [status |-> "none", pass |-> Null, marker |-> Null, completed |-> {}]
      BY DEF Init
    <2>2. crashes \in 0..MaxCrashes
      BY SnapshotAssumption DEF Init, SnapshotAssumption
    <2>3. cached \cup issuers \cup tokens = {}
      BY DEF Init
    <2>4. walk \in ToSet(Walks) \cup {Null} /\ at \in Nat \ {0}
      BY DEF Init
    <2>5. {ended, history, pruned, cut} \subseteq BOOLEAN /\ source \in {"sync", "history"}
      BY DEF Init
    <2> QED
      BY <2>1, <2>2, <2>3, <2>4, <2>5 DEF Init, TypeOK
  <1>3. PlaceInv /\ LinesInv /\ UnkilledInv
    BY NullIs DEF Init, PlaceInv, LinesInv, UnkilledInv, Active
  <1> QED
    BY <1>1, <1>2, <1>3 DEF SnapInv

------------------------------------------------------------------------------
(* One lemma for each action. *)

LEMMA StartStep == ASSUME SnapInv, Start PROVE SnapInv'
  <1> USE DEF Start, SnapInv
  <1>1. KeysInv'
    BY DEF KeysInv
  <1>2. TypeOK'
    BY DEF TypeOK
  <1>3. PlaceInv'
    BY DEF PlaceInv, Active
  <1>4. LinesInv'
    BY DEF LinesInv, Active, Before, TypeOK
  <1>5. UnkilledInv'
    BY DEF UnkilledInv, TypeOK, Active
  <1> QED
    BY <1>1, <1>2, <1>3, <1>4, <1>5

LEMMA StartThrowsStep == ASSUME SnapInv, StartThrows PROVE SnapInv'
  <1> USE DEF StartThrows, SnapInv
  <1>1. KeysInv' /\ TypeOK'
    BY DEF KeysInv, TypeOK
  <1>2. PlaceInv'
    BY DEF PlaceInv, Active, TypeOK
  <1>3. LinesInv'
    BY DEF LinesInv, Active, Before, Lines, TypeOK
  <1>4. UnkilledInv'
    BY DEF UnkilledInv, TypeOK, Active, Met, Lines, Due
  <1> QED
    BY <1>1, <1>2, <1>3, <1>4

LEMMA PruneStep == ASSUME SnapInv, Prune PROVE SnapInv'
  <1> USE DEF Prune, SnapInv, disk
  <1>1. KeysInv' /\ TypeOK'
    BY DEF KeysInv, TypeOK
  <1>2. PlaceInv'
    BY DEF PlaceInv, Active
  <1>3. LinesInv'
    BY DEF LinesInv, Active, Before, Lines
  <1>4. UnkilledInv'
    BY DEF UnkilledInv, Active, Met, Before, Lines, Due
  <1> QED
    BY <1>1, <1>2, <1>3, <1>4

LEMMA BeginWalkStep == ASSUME SnapInv, BeginWalk PROVE SnapInv'
  <1>0. PICK i \in {1, 2} :
          /\ Walks[i] \notin state.completed
          /\ \A j \in 1..(i - 1) : Walks[j] \in state.completed
          /\ walk' = Walks[i] /\ at' = Resume(Walks[i])
          /\ issuers' = IF Walks[i] = "walk2" THEN tokens ELSE issuers
    BY WalksAre DEF BeginWalk
  <1>1. UNCHANGED <<keyspace, stored, tokens, state, cached, history, pruned, source, cut, crashes>>
    BY DEF BeginWalk, disk
  <1>2. pc = "choose" /\ pc' = "fetch" /\ batch' = {} /\ ended' = FALSE
    BY DEF BeginWalk
  <1>3. walk' \in {"walk1", "walk2"} /\ walk' \notin state.completed
    BY <1>0, WalksAre
  <1>4. walk' = "walk2" => "walk1" \in state.completed /\ issuers' = tokens
    BY <1>0, WalksAre
  <1>5. at' = (IF state.pass = walk' /\ state.marker # Null THEN state.marker ELSE 1)
    BY <1>0 DEF Resume
  <1>6. at' \in 1..(Len(keyspace) + 1)
    BY <1>5 DEF SnapInv, TypeOK, KeysInv
  <1>7. KeysInv'
    BY <1>1 DEF SnapInv, KeysInv
  <1>8. TypeOK'
    <2>1. cached' \cup issuers' \cup tokens' \subseteq UNION {Ends(x) : x \in Objects}
      BY <1>0, <1>1 DEF SnapInv, TypeOK
    <2>2. walk' \in ToSet(Walks)' \cup {Null} /\ at' \in Nat \ {0}
      BY <1>3, <1>6, WalksAre DEF SnapInv, KeysInv, Walks
    <2> QED
      BY <1>1, <1>2, <2>1, <2>2 DEF SnapInv, TypeOK
  <1>9. PlaceInv'
    BY <1>1, <1>2, <1>3, <1>5, <1>6 DEF SnapInv, TypeOK, KeysInv, PlaceInv, Active
  <1>10. at' = 1 => \A S : Before(S, at') = {}
    BY DEF Before, SnapInv, KeysInv
  <1>11. LinesInv'
    BY <1>1, <1>2, <1>3, <1>5, <1>10 DEF SnapInv, LinesInv, Active, Before, Lines
  <1>12. UnkilledInv'
    <2> SUFFICES ASSUME crashes = 0, ~cut PROVE UnkilledInv'
      BY <1>1 DEF UnkilledInv
    <2>1. at' = 1
      BY <1>2, <1>3, <1>5, NullIs DEF SnapInv, UnkilledInv
    <2>2. Before(Lines, 1)' = {} /\ Before(Due("walk2"), 1)' = {}
      BY <1>1 DEF Before, SnapInv, KeysInv
    <2> QED
      BY <1>1, <1>2, <1>3, <1>4, <2>1, <2>2 DEF SnapInv, UnkilledInv, Active, Met, Lines, Due
  <1> QED
    BY <1>7, <1>8, <1>9, <1>11, <1>12 DEF SnapInv

LEMMA WalksDoneStep == ASSUME SnapInv, WalksDone PROVE SnapInv'
  <1> USE DEF WalksDone, SnapInv, disk
  <1>1. KeysInv' /\ TypeOK'
    BY DEF KeysInv, TypeOK
  <1>2. PlaceInv'
    BY DEF PlaceInv, Active
  <1>3. LinesInv'
    BY DEF LinesInv, Active, Before, Lines
  <1>4. UnkilledInv'
    BY WalksAre DEF UnkilledInv, Active, Met, Lines, Due
  <1> QED
    BY <1>1, <1>2, <1>3, <1>4

\* What lies before the next page lies before this one or is on it.
LEMMA PageAdvances ==
  ASSUME KeysInv, NEW S, at \in Nat, PageLimit \in Nat
  PROVE  Before(S, at + PageLimit) \subseteq Before(S, at) \cup (S \cap Page(at))
  BY DEF Before, Page, KeysInv

LEMMA TypedPage == ASSUME SnapInv PROVE Page(at) \subseteq Objects
  BY DEF Page, SnapInv, KeysInv

LEMMA FetchStep == ASSUME SnapInv, FetchPage PROVE SnapInv'
  <1> DEFINE keep == {x \in Page(at) : Wanted(walk, x)}
  <1>1. UNCHANGED <<keyspace, stored, state, walk, issuers, history, pruned, source, cut, crashes>>
    BY DEF FetchPage
  <1>2. pc = "fetch" /\ pc' \in {"fetch", "flush"} /\ batch' = batch \cup keep /\ at' = at + PageLimit
    BY DEF FetchPage, TakePage
  <1>3. (ended' <=> at' > Len(keyspace)) /\ (pc' = "fetch" => ~ended') /\ ended' \in BOOLEAN
    <2>1. ended' = (at + PageLimit > Len(keyspace)) /\ at' = at + PageLimit
      BY DEF FetchPage, TakePage
    <2>2. pc' = "fetch" => ~ended'
      BY DEF FetchPage, TakePage
    <2>3. at \in Nat /\ PageLimit \in Nat /\ Len(keyspace) \in Nat
      BY SnapshotAssumption DEF SnapInv, TypeOK, KeysInv, SnapshotAssumption
    <2>4. ended' \in BOOLEAN /\ (ended' <=> at' > Len(keyspace))
      <3>1. (at + PageLimit > Len(keyspace)) \in BOOLEAN
        BY <2>3
      <3> QED
        BY <2>1, <3>1, Zenon
    <2> QED
      BY <2>2, <2>4
  <1>4. IF walk = "walk1"
          THEN cached' = cached \cup UNION {Ends(x) : x \in keep} /\ tokens' = tokens \cup {Issuer(x) : x \in keep}
          ELSE UNCHANGED <<cached, tokens>>
    BY DEF FetchPage, TakePage
  <1>5. keep \subseteq Objects /\ PageLimit \in Nat \ {0} /\ at \in Nat /\ at' \in Nat \ {0} /\ Len(keyspace) \in Nat
    BY <1>2, TypedPage, SnapshotAssumption DEF SnapInv, TypeOK, KeysInv, SnapshotAssumption
  <1>6. KeysInv'
    BY <1>1 DEF SnapInv, KeysInv
  <1>7. TypeOK'
    <2>1. cached' \cup issuers' \cup tokens' \subseteq UNION {Ends(x) : x \in Objects}
      <3>1. UNION {Ends(x) : x \in keep} \subseteq UNION {Ends(x) : x \in Objects}
        BY <1>5
      <3>2. {Issuer(x) : x \in keep} \subseteq UNION {Ends(x) : x \in Objects}
        BY <1>5 DEF Issuer, Ends
      <3> QED
        BY <1>1, <1>4, <3>1, <3>2 DEF SnapInv, TypeOK
    <2> QED
      BY <1>1, <1>2, <1>3, <1>5, <2>1 DEF SnapInv, TypeOK
  <1>8. PlaceInv'
    BY <1>1, <1>2, <1>3, <1>5 DEF SnapInv, PlaceInv, Active, TypeOK
  <1>9. walk \in {"walk1", "walk2"}
    BY <1>2 DEF SnapInv, PlaceInv, Active
  <1>10. ASSUME NEW S, S \cap Page(at) \subseteq keep
         PROVE  Before(S, at') \subseteq Before(S, at) \cup keep
    BY <1>2, <1>5, <1>10, PageAdvances DEF SnapInv
  <1>11. walk = "walk1" => Lines \cap Page(at) = keep
    BY <1>5 DEF Wanted, Lines
  <1>12. LinesInv'
    BY <1>1, <1>2, <1>10, <1>11 DEF SnapInv, LinesInv, Active, Before, Lines
  <1>13. UnkilledInv'
    <2> SUFFICES ASSUME crashes = 0, ~cut PROVE UnkilledInv'
      BY <1>1 DEF UnkilledInv
    <2>1. CASE walk = "walk1"
      <3>1. Met(Before(Lines, at)) /\ ("walk1" \in state.completed => Met(Lines))
        BY <1>2, <2>1 DEF SnapInv, UnkilledInv, Active
      <3>2. Before(Lines, at') \subseteq Before(Lines, at) \cup keep
        BY <1>10, <1>11, <2>1
      <3>3. \A x \in Before(Lines, at) \cup keep : Ends(x) \subseteq cached' /\ Issuer(x) \in tokens'
        BY <1>4, <2>1, <3>1 DEF Met
      <3>4. Met(Before(Lines, at))'
        BY <1>1, <3>2, <3>3 DEF Met, Before, Lines, Ends, Issuer
      <3>5. "walk1" \in state.completed => Met(Lines)'
        BY <1>4, <2>1, <3>1 DEF Met, Lines
      <3> QED
        BY <1>1, <1>2, <2>1, <3>4, <3>5 DEF SnapInv, UnkilledInv, Active, Due, Lines
    <2>2. CASE walk = "walk2"
      <3>1. "walk1" \in state.completed /\ issuers = tokens /\ Met(Lines)
        BY <1>2, <2>2 DEF SnapInv, UnkilledInv, Active
      <3>2. Due("walk2") \cap Page(at) \subseteq keep
        BY <2>2, <3>1 DEF Due, Met, Wanted, Ends, Issuer
      <3>3. Before(Due("walk2"), at') \subseteq Before(Due("walk2"), at) \cup keep
        BY <1>10, <3>2
      <3>4. Before(Due("walk2"), at) \subseteq stored \cup batch
        BY <1>2, <2>2 DEF SnapInv, UnkilledInv, Active
      <3>5. (Before(Due("walk2"), at) \subseteq stored \cup batch)'
        BY <1>1, <1>2, <3>3, <3>4 DEF Before, Due, Lines
      <3>6. UNCHANGED <<cached, tokens>>
        BY <1>4, <2>2
      <3> QED
        BY <1>1, <1>2, <2>2, <3>1, <3>5, <3>6 DEF SnapInv, UnkilledInv, Active, Met, Due, Lines
    <2> QED
      BY <1>9, <2>1, <2>2
  <1> QED
    BY <1>6, <1>7, <1>8, <1>12, <1>13 DEF SnapInv

\* A node without the ledger ends the walk, and what is stored promises nothing any more.
LEMMA EmptyStep == ASSUME SnapInv, EmptyPage PROVE SnapInv'
  <1>1. UNCHANGED <<keyspace, stored, state, walk, issuers, history, pruned, source, crashes>> /\ cut' = TRUE
    BY DEF EmptyPage
  <1>2. pc = "fetch" /\ pc' = "flush" /\ batch' = batch /\ at' = Len(keyspace) + 1 /\ ended' = TRUE
    <2>1. ended' = (Len(keyspace) + 1 > Len(keyspace)) /\ at' = Len(keyspace) + 1
      BY DEF EmptyPage, TakePage
    <2>0. Len(keyspace) + 1 > Len(keyspace)
      BY DEF SnapInv, KeysInv
    <2>2. ended' = TRUE
      BY <2>0, <2>1, Zenon
    <2>3. pc = "fetch" /\ batch' = batch /\ (ended' => pc' = "flush")
      BY DEF EmptyPage, TakePage
    <2> QED
      BY <2>1, <2>2, <2>3
  <1>3. cached' = cached /\ tokens' = tokens
    BY DEF EmptyPage, TakePage
  <1>4. KeysInv'
    BY <1>1 DEF SnapInv, KeysInv
  <1>5. TypeOK'
    BY <1>1, <1>2, <1>3 DEF SnapInv, TypeOK, KeysInv
  <1>6. PlaceInv'
    BY <1>1, <1>2 DEF SnapInv, PlaceInv, TypeOK, KeysInv, Active
  <1>7. LinesInv' /\ UnkilledInv'
    BY <1>1 DEF LinesInv, UnkilledInv
  <1> QED
    BY <1>4, <1>5, <1>6, <1>7 DEF SnapInv

LEMMA FlushStep == ASSUME SnapInv, Flush PROVE SnapInv'
  <1>1. UNCHANGED <<keyspace, tokens, state, walk, at, ended, cached, issuers, history, pruned, source, cut, crashes>>
    BY DEF Flush
  <1>2. pc = "flush" /\ pc' = "mark" /\ stored' = stored \cup batch /\ batch' = {}
    BY DEF Flush
  <1>3. KeysInv' /\ TypeOK'
    BY <1>1, <1>2 DEF SnapInv, KeysInv, TypeOK
  <1>4. PlaceInv'
    BY <1>1, <1>2 DEF SnapInv, PlaceInv, Active
  <1>5. LinesInv'
    BY <1>1, <1>2 DEF SnapInv, LinesInv, Active, Before, Lines
  <1>6. UnkilledInv'
    BY <1>1, <1>2 DEF SnapInv, UnkilledInv, Active, Met, Before, Lines, Due
  <1> QED
    BY <1>3, <1>4, <1>5, <1>6 DEF SnapInv

LEMMA SaveMarkerStep == ASSUME SnapInv, SaveMarker PROVE SnapInv'
  <1>1. UNCHANGED <<keyspace, stored, tokens, walk, at, batch, ended, cached, issuers, history, pruned, source, cut, crashes>>
    BY DEF SaveMarker
  <1>2. pc = "mark" /\ pc' = IF ended THEN "complete" ELSE "fetch"
    BY DEF SaveMarker
  <1>3. state' = [state EXCEPT !.pass = walk, !.marker = IF ended THEN Null ELSE at]
    BY DEF SaveMarker
  <1>4. /\ state'.pass = walk /\ state'.marker = (IF ended THEN Null ELSE at)
        /\ state'.status = state.status /\ state'.completed = state.completed
    BY <1>3 DEF SnapInv, TypeOK
  <1>5. walk \in {"walk1", "walk2"} /\ batch = {} /\ (~ended => at \in 1..Len(keyspace))
    BY <1>2 DEF SnapInv, PlaceInv, Active, TypeOK, KeysInv
  <1>6. KeysInv'
    BY <1>1 DEF SnapInv, KeysInv
  <1>7. TypeOK'
    <2>1. state'.marker \in (1..(Len(keyspace) + 1)) \cup {Null}
      BY <1>4, <1>5 DEF SnapInv, KeysInv
    <2> QED
      BY <1>1, <1>2, <1>3, <1>4, <1>5, <2>1, WalksAre DEF SnapInv, TypeOK
  <1>8. PlaceInv'
    BY <1>1, <1>2, <1>4, <1>5 DEF SnapInv, PlaceInv, Active, KeysInv, TypeOK
  <1>9. LinesInv'
    BY <1>1, <1>2, <1>4, <1>5 DEF SnapInv, LinesInv, Active, Before, Lines
  <1>10. UnkilledInv'
    BY <1>1, <1>2, <1>4 DEF SnapInv, UnkilledInv, Active, Met, Before, Lines, Due
  <1> QED
    BY <1>6, <1>7, <1>8, <1>9, <1>10 DEF SnapInv

\* At the end of the keyspace everything lies before.
LEMMA AllBefore ==
  ASSUME KeysInv, at \in Nat, at > Len(keyspace), NEW S \in SUBSET Objects
  PROVE  Before(S, at) = S
  BY DEF Before, KeysInv

LEMMA CompleteStep == ASSUME SnapInv, CompleteWalk PROVE SnapInv'
  <1>1. UNCHANGED <<keyspace, stored, tokens, walk, at, batch, ended, cached, issuers, history, pruned, source, cut, crashes>>
    BY DEF CompleteWalk
  <1>2. pc = "complete" /\ pc' = "choose"
    BY DEF CompleteWalk
  <1>3. /\ state'.pass = Null /\ state'.marker = Null
        /\ state'.status = state.status /\ state'.completed = state.completed \cup {walk}
    BY DEF CompleteWalk, SnapInv, TypeOK
  <1>4. walk \in {"walk1", "walk2"} /\ batch = {} /\ at > Len(keyspace)
    BY <1>2 DEF SnapInv, PlaceInv, Active
  <1>5. \A S \in SUBSET Objects : Before(S, at) = S
    BY <1>4, AllBefore DEF SnapInv, TypeOK
  <1>6. Lines \subseteq Objects /\ Due("walk2") \subseteq Objects
    BY DEF Lines, Due
  <1>7. KeysInv'
    BY <1>1 DEF SnapInv, KeysInv
  <1>8. TypeOK'
    <2>1. state' = [state EXCEPT !.completed = @ \cup {walk}, !.pass = Null, !.marker = Null]
      BY DEF CompleteWalk
    <2> QED
      BY <1>1, <1>2, <1>4, <2>1, WalksAre DEF SnapInv, TypeOK
  <1>9. PlaceInv'
    BY <1>2 DEF PlaceInv, Active
  <1>10. LinesInv'
    <2>1. ~cut /\ walk = "walk1" => Lines \subseteq stored
      BY <1>2, <1>4, <1>5, <1>6 DEF SnapInv, LinesInv, Active
    <2> QED
      BY <1>1, <1>2, <1>3, <1>4, <2>1, NullIs DEF SnapInv, LinesInv, Active, Lines
  <1>11. UnkilledInv'
    <2> SUFFICES ASSUME crashes = 0, ~cut PROVE UnkilledInv'
      BY <1>1 DEF UnkilledInv
    <2>1. walk = "walk1" => Met(Lines)
      BY <1>2, <1>5, <1>6 DEF SnapInv, UnkilledInv, Active
    <2>2. walk = "walk2" => Due("walk2") \subseteq stored
      BY <1>2, <1>4, <1>5, <1>6 DEF SnapInv, UnkilledInv, Active
    <2> QED
      BY <1>1, <1>2, <1>3, <1>4, <2>1, <2>2 DEF SnapInv, UnkilledInv, Active, Met, Lines, Due
  <1> QED
    BY <1>7, <1>8, <1>9, <1>10, <1>11 DEF SnapInv

LEMMA FinishStep == ASSUME SnapInv, Finish PROVE SnapInv'
  <1>1. UNCHANGED <<keyspace, stored, tokens, walk, at, batch, ended, cached, issuers, history, pruned, source, cut, crashes>>
    BY DEF Finish
  <1>2. pc = "finish" /\ pc' = "down" /\ state' = [state EXCEPT !.status = "done"]
    BY DEF Finish
  <1>3. /\ state'.pass = state.pass /\ state'.marker = state.marker
        /\ state'.status = "done" /\ state'.completed = state.completed
    BY <1>2 DEF SnapInv, TypeOK
  <1>4. KeysInv' /\ TypeOK'
    BY <1>1, <1>2 DEF SnapInv, KeysInv, TypeOK
  <1>5. PlaceInv'
    BY <1>2 DEF PlaceInv, Active
  <1>6. LinesInv'
    BY <1>1, <1>2, <1>3 DEF SnapInv, LinesInv, Active, Before, Lines
  <1>7. UnkilledInv'
    BY <1>1, <1>2, <1>3 DEF SnapInv, UnkilledInv, Active, Met, Lines, Due
  <1> QED
    BY <1>4, <1>5, <1>6, <1>7 DEF SnapInv

LEMMA CrashStep == ASSUME SnapInv, Crash PROVE SnapInv'
  <1>1. UNCHANGED <<keyspace, stored, tokens, state, walk, at, ended, issuers, history, pruned, source, cut>>
    BY DEF Crash, disk
  <1>2. pc' = "down" /\ crashes' = crashes + 1 /\ crashes < MaxCrashes /\ batch' = {} /\ cached' = {}
    BY DEF Crash
  <1>3. KeysInv'
    BY <1>1 DEF SnapInv, KeysInv
  <1>4. TypeOK'
    BY <1>1, <1>2, SnapshotAssumption DEF SnapInv, TypeOK, SnapshotAssumption
  <1>5. PlaceInv'
    BY <1>2 DEF PlaceInv, Active
  <1>6. LinesInv'
    BY <1>1, <1>2 DEF SnapInv, LinesInv, Active, Before, Lines
  <1>7. UnkilledInv'
    BY <1>2, SnapshotAssumption DEF SnapInv, TypeOK, UnkilledInv, SnapshotAssumption
  <1> QED
    BY <1>3, <1>4, <1>5, <1>6, <1>7 DEF SnapInv

LEMMA StepInv == SnapInv /\ [Next]_vars => SnapInv'
  <1> SUFFICES ASSUME SnapInv, [Next]_vars PROVE SnapInv'
    OBVIOUS
  <1>1. CASE Step
    BY <1>1, StartStep, StartThrowsStep, BeginWalkStep, WalksDoneStep, FetchStep, EmptyStep, FlushStep,
       SaveMarkerStep, CompleteStep, FinishStep DEF Step
  <1>2. CASE Prune \/ Crash
    BY <1>2, PruneStep, CrashStep
  <1>3. CASE UNCHANGED vars
    BY <1>3 DEF vars, disk, SnapInv, KeysInv, TypeOK, PlaceInv, LinesInv, UnkilledInv, Active, Before, Met, Lines, Due
  <1> QED
    BY <1>1, <1>2, <1>3 DEF Next

\* Every state of every run satisfies the invariant (snapshot.ts runSnapshot).
THEOREM SnapshotInvariance == Spec => []SnapInv
  BY InitInv, StepInv, PTL DEF Spec

------------------------------------------------------------------------------
\* Wherever the process is killed, the marker it saved is behind what is stored, and
\* so is a completed walk (snapshot.ts:132-136 and 194-222).
THEOREM MarkerSafe == Spec => []MarkerIsBehind
  <1>1. SnapInv => MarkerIsBehind
    BY DEF SnapInv, KeysInv, LinesInv, MarkerIsBehind, Before, Lines
  <1> QED
    BY <1>1, SnapshotInvariance, PTL

\* A snapshot that was not killed is complete, issuers' accounts included
\* (snapshot.ts:138-147 and 170-176).
THEOREM UnkilledComplete == Spec => []UnkilledIsComplete
  <1>1. SnapInv => UnkilledIsComplete
    BY DEF SnapInv, UnkilledInv, UnkilledIsComplete
  <1> QED
    BY <1>1, SnapshotInvariance, PTL

\* No kill takes back a completed walk or moves a marker back (snapshot.ts:131, 194-222).
THEOREM ProgressKept == Spec => Progress
  <1> DEFINE Forward ==
        /\ state.completed \subseteq state'.completed
        /\ pc' = "fetch" /\ pc = "choose" => walk' \notin state.completed
        /\ state'.pass = state.pass /\ state.marker # Null /\ state'.marker # Null =>
             state.marker <= state'.marker
  <1>1. SnapInv /\ [Next]_vars => [Forward]_vars
    <2> SUFFICES ASSUME SnapInv, Next PROVE Forward
      OBVIOUS
    <2>0. state.marker # Null => state.marker \in Nat
      BY DEF SnapInv, TypeOK, KeysInv
    <2>1. CASE Start
      BY <2>0, <2>1 DEF Start, SnapInv, TypeOK
    <2>2. CASE BeginWalk
      <3>1. walk' \notin state.completed
        BY <2>2, WalksAre DEF BeginWalk
      <3> QED
        BY <2>0, <2>2, <3>1 DEF BeginWalk, disk
    <2>3. CASE WalksDone
      BY <2>0, <2>3 DEF WalksDone, disk
    <2>4. CASE FetchPage
      BY <2>0, <2>4 DEF FetchPage
    <2>5. CASE Flush
      BY <2>0, <2>5 DEF Flush
    <2>6. CASE SaveMarker
      BY <2>0, <2>6 DEF SaveMarker, SnapInv, TypeOK, PlaceInv, Active
    <2>7. CASE CompleteWalk
      BY <2>0, <2>7 DEF CompleteWalk, SnapInv, TypeOK
    <2>8. CASE Finish
      BY <2>0, <2>8 DEF Finish, SnapInv, TypeOK
    <2>9. CASE EmptyPage
      BY <2>0, <2>9 DEF EmptyPage
    <2>10. CASE Crash
      BY <2>0, <2>10 DEF Crash, disk
    <2>11. CASE StartThrows
      BY <2>0, <2>11 DEF StartThrows, SnapInv, TypeOK
    <2>12. CASE Prune
      BY <2>0, <2>12 DEF Prune, disk
    <2> QED
      BY <2>1, <2>2, <2>3, <2>4, <2>5, <2>6, <2>7, <2>8, <2>9, <2>10, <2>11, <2>12 DEF Next, Step
  <1> QED
    BY <1>1, SnapshotInvariance, PTL DEF Spec, Progress
================================================================================
