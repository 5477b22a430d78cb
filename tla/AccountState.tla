---------------------------- MODULE AccountState ----------------------------
(***************************************************************************)
(* The flags, blackholed and domain columns of one issuer's account row:   *)
(* what handleAccountRoot derives from the nodes of its AccountRoot.       *)
(*                                                                         *)
(* An AccountRoot is Null or [disabled, key, domain]: the master key is    *)
(* disabled, a regular key is set, the Domain or Null.  A node carries     *)
(* fields as functions from their names; a field that is absent is not in  *)
(* the domain.                                                             *)
(***************************************************************************)
EXTENDS LedgerOrder, SequencesExt

CONSTANTS
  Domains,   \* values of the Domain field
  MaxHead,   \* bound on the ledgers the network closes
  MaxTx,     \* bound on the transactions per ledger
  Null

Roots == [disabled : BOOLEAN, key : BOOLEAN, domain : Domains \cup {Null}]

ASSUME AccountAssumption ==
  /\ Null \notin Domains \cup Roots
  /\ MaxHead \in Nat \ {0} /\ MaxTx \in Nat \ {0}

VARIABLES
  chain,  \* the validated ledgers: [nodes, post]
  row,    \* [flags, blackholed, domain] of the account; flags: is the disabled bit set
  backfilled  \* has the backfill processed a ledger

vars == <<chain, row, backfilled, orderVars>>

Newest == Len(chain)

-----------------------------------------------------------------------------
(* The network.                                                              *)

Fields(s) ==
  [f \in {"Flags"} \cup (IF s.key THEN {"RegularKey"} ELSE {}) \cup (IF s.domain # Null THEN {"Domain"} ELSE {}) |->
     CASE f = "Flags" -> s.disabled [] f = "RegularKey" -> TRUE [] f = "Domain" -> s.domain]

\* The fields that changed, as they were: PreviousFields.
Previous(s, t) ==
  LET old == Fields(s)
      new == Fields(t)
      changed == {f \in DOMAIN old : f \notin DOMAIN new \/ old[f] # new[f]}
  IN [f \in changed |-> old[f]]

\* A new account has its defaults, and NewFields lists no defaults.
NoFields == [f \in {} |-> Null]
NodeOf(s, t) ==
  IF s = Null THEN [change |-> "created", prev |-> NoFields, final |-> NoFields]
  ELSE IF t = Null THEN [change |-> "deleted", prev |-> NoFields, final |-> Fields(s)]
  ELSE [change |-> "modified", prev |-> Previous(s, t), final |-> Fields(t)]

\* An account is created by a payment; it changes in any way (its signer list can
\* sign in any state), or not in these fields; it is deleted.
Successors(s) ==
  IF s = Null THEN {[disabled |-> FALSE, key |-> FALSE, domain |-> Null]} ELSE Roots \cup {Null}

Init ==
  /\ \E s \in Roots \cup {Null} : chain = <<[nodes |-> <<>>, post |-> s]>>
  /\ row = [flags |-> FALSE, blackholed |-> FALSE, domain |-> Null]
  /\ backfilled = FALSE
  /\ OrderInit

\* A ledger of up to MaxTx transactions, some of which may not touch the account.
LedgerCloses ==
  LET run[k \in 0..MaxTx] ==
        IF k = 0 THEN {[nodes |-> <<>>, post |-> chain[Newest].post]}
        ELSE run[k - 1] \cup
             UNION {{[nodes |-> Append(r.nodes, NodeOf(r.post, t)), post |-> t] : t \in Successors(r.post)} :
                      r \in run[k - 1]}
  IN /\ Newest < MaxHead
     /\ \E closed \in run[MaxTx] : chain' = Append(chain, closed)
     /\ UNCHANGED <<row, backfilled, orderVars>>

-----------------------------------------------------------------------------
(* normalizeAffectedNodes and handleAccountRoot.                             *)

\* f, and g where f is not defined.
OrElse(f, g) == [x \in DOMAIN f \cup DOMAIN g |-> IF x \in DOMAIN f THEN f[x] ELSE g[x]]

\* FinalFields over PreviousFields.
Final(node) == IF node.change = "modified" THEN OrElse(node.final, node.prev) ELSE node.final

Columns(f) ==
  (IF "Flags" \in DOMAIN f THEN {"flags", "blackholed"} ELSE {}) \cup (IF "Domain" \in DOMAIN f THEN {"domain"} ELSE {})

\* Mutant: a disabled master key is enough for the verdict.
PatchNoKey(f) ==
  [c \in Columns(f) |->
     CASE c = "flags" -> f["Flags"] [] c = "blackholed" -> f["Flags"] [] c = "domain" -> f["Domain"]]

Patch(f) ==
  [c \in Columns(f) |->
     CASE c = "flags" -> f["Flags"]
       [] c = "blackholed" -> f["Flags"] /\ "RegularKey" \notin DOMAIN f
       [] c = "domain" -> f["Domain"]]

\* Mutant: the first patch of the ledger wins.
AppliedFirst(nodes) ==
  LET patch[i \in 0..Len(nodes)] == IF i = 0 THEN NoFields ELSE OrElse(patch[i - 1], Patch(Final(nodes[i])))
  IN OrElse(patch[Len(nodes)], row)

\* The batch merges the patches, the flush updates the row, in every mode.
Applied(nodes) ==
  LET patch[i \in 0..Len(nodes)] == IF i = 0 THEN NoFields ELSE OrElse(Patch(Final(nodes[i])), patch[i - 1])
  IN OrElse(patch[Len(nodes)], row)

LiveLedger(seq) ==
  /\ tip = 0 => seq = Newest
  /\ LiveAt(seq)
  /\ row' = Applied(chain[seq].nodes)
  /\ UNCHANGED <<chain, backfilled>>

BackfillLedger(seq) ==
  /\ BackfillAt(seq)
  /\ row' = Applied(chain[seq].nodes)
  /\ backfilled' = TRUE
  /\ UNCHANGED chain

\* Walk 2: the AccountRoot as a created node, with all its fields.
Snapshot ==
  LET seq == IF tip # 0 THEN tip ELSE Newest
      s   == chain[seq].post
  IN /\ SnapshotAt(seq)
     /\ row' = IF s = Null THEN row ELSE OrElse(Patch(Fields(s)), row)
     /\ UNCHANGED <<chain, backfilled>>

Next == LedgerCloses \/ Snapshot \/ \E seq \in 1..Newest : LiveLedger(seq) \/ BackfillLedger(seq)

Spec == Init /\ [][Next]_vars

-----------------------------------------------------------------------------
(* What the row promises. *)

Replayed == IF low = 0 THEN {} ELSE (low..tip) \ (IF fresh THEN {snapSeq} ELSE {})
Nodes(k) == ToSet(chain[k].nodes)
Touched(k) == \E x \in Nodes(k) : x.change = "modified"
Seen    == snapSeq # 0 \/ \E k \in Replayed : Touched(k)
Reborn  == \E k \in Replayed : \E x \in Nodes(k) : x.change = "deleted"
Current == chain[tip].post

TypeOK ==
  /\ row \in [flags : BOOLEAN, blackholed : BOOLEAN, domain : Domains \cup {Null}] /\ backfilled \in BOOLEAN
  /\ low \in 0..tip /\ tip \in 0..Newest /\ snapSeq \in 0..tip /\ fresh \in BOOLEAN /\ waived = {}
  /\ tip # 0 => Current \in Roots \cup {Null}

\* Without a backfill, and unless it was deleted meanwhile, the row has the flags
\* and the domain of an account that was seen; it is never called blackholed without
\* being so, and misses that only if its regular key was removed (account.ts:39-52,
\* batch.ts patchAccount and flush).
RowCurrent ==
  LET removal(x) == x.change = "modified" /\ "RegularKey" \in DOMAIN x.prev /\ "RegularKey" \notin DOMAIN x.final
  IN ~backfilled /\ Seen /\ Current # Null /\ ~Reborn =>
       /\ row.flags = Current.disabled
       /\ row.domain = Current.domain \/ Current.domain = Null
       /\ row.blackholed => Current.disabled /\ ~Current.key
       /\ Current.disabled /\ ~Current.key /\ ~row.blackholed =>
            \E k \in Replayed : \E x \in Nodes(k) : removal(x)

\* Whatever the backfill wrote in the meantime, a live ledger that leaves the account
\* modified sets the row right, but for what was removed (ledger.ts:56-63).
LiveCorrects ==
  [][LET nodes == chain[tip'].nodes
         now   == chain[tip'].post
     IN tip' > tip /\ snapSeq' = snapSeq /\ nodes # <<>> /\ Last(nodes).change = "modified" =>
          /\ row'.flags = now.disabled
          /\ row'.blackholed => now.disabled /\ ~now.key
          /\ now.domain # Null => row'.domain = now.domain]_vars
=============================================================================
