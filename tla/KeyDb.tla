------------------------------- MODULE KeyDb -------------------------------
(***************************************************************************)
(* keys.tdb: one entry per port pair, under its support port (port2).      *)
(* Owners and administrators edit it through the web pages, operators with *)
(* keydb.py; the proxy's own writers are in Signing.  Every operation is   *)
(* one transaction: it fetches, checks, stores and commits, or cancels.    *)
(* Left out: names, retention, recording flags, fc_sysid and counters,     *)
(* which no check reads.                                                   *)
(***************************************************************************)
EXTENDS Naturals, FiniteSets

CONSTANTS
  Port2s,    \* support ports in use or not
  Port1s,    \* user ports that may be asked for
  Secrets,   \* secret keys
  ZeroKey    \* the key of 32 zero bytes, never the digest of a passphrase

ASSUME PortsAssumption == Port1s \subseteq Nat /\ Port2s \subseteq Nat /\ IsFiniteSet(Port2s)
ASSUME SecretsAssumption == ZeroKey \in Secrets

VARIABLES
  keys,    \* the entries
  edited,  \* history: each entry's port1, admin and secret as last edited
  given,   \* history: the timestamp an entry was last given, 0 by a reset
  bare     \* history: the last step was a call of keydb.py that looks at no other entry

keyVars == <<keys, edited, given, bare>>

Passphrases == Secrets \ {ZeroKey}
Entry == [port1 : Port1s, admin : BOOLEAN, secret : Secrets, stamp : Nat]
NoEntry == [port1 |-> "none"]
Edited(e) == [port1 |-> e.port1, admin |-> e.admin, secret |-> e.secret]
Exists(p) == keys[p] # NoEntry
Entries == {p \in Port2s : Exists(p)}

KeysInit ==
  /\ keys = [p \in Port2s |-> NoEntry] /\ edited = keys
  /\ given = [p \in Port2s |-> 0] /\ bare = FALSE

Admins == {p \in Entries : keys[p].admin = TRUE}

\* Mutant: a user port may be another pair's support port.
FreePort1Only(q, except) ==
  \A p \in Entries \ except : keys[p].port1 # q
\* q is not a port of any entry outside except.
Free(q, except) ==
  \A p \in Entries \ except : q # keys[p].port1 /\ q # p

\* An edit stores entry e under p, and the history remembers it.
Put(p, e, unchecked) ==
  /\ keys' = [keys EXCEPT ![p] = e]
  /\ edited' = [edited EXCEPT ![p] = Edited(e)]
  /\ given' = [given EXCEPT ![p] = IF e.stamp = 0 THEN 0 ELSE @]
  /\ bare' = unchecked
Drop(p, unchecked) ==
  /\ keys' = [keys EXCEPT ![p] = NoEntry]
  /\ edited' = [edited EXCEPT ![p] = NoEntry]
  /\ given' = [given EXCEPT ![p] = 0]
  /\ bare' = unchecked

----------------------------------------------------------------------------
(* The web pages and keydb.py add *)

NewEntry(q, s) == [port1 |-> q, admin |-> FALSE, secret |-> s, stamp |-> 0]

\* add_entry(): each port of the new pair is no port of another.
CanAdd(p, q) == ~Exists(p) /\ Free(p, {}) /\ Free(q, {})
Add(p, q, s) ==
  /\ CanAdd(p, q)
  /\ Put(p, NewEntry(q, s), FALSE)

\* The page adds several pairs in one transaction, all or none of them: each is
\* checked against the entries and against the pairs before it.
AddBatch(plan, s) ==
  /\ Cardinality(DOMAIN plan) > 1
  /\ \A p \in DOMAIN plan :
       /\ CanAdd(p, plan[p])
       /\ \A r \in DOMAIN plan \ {p} : plan[p] \notin {plan[r], r}
  /\ keys' = [p \in Port2s |->
                IF p \in DOMAIN plan THEN NewEntry(plan[p], s) ELSE keys[p]]
  /\ edited' = [p \in Port2s |->
                IF p \in DOMAIN plan THEN Edited(NewEntry(plan[p], s)) ELSE edited[p]]
  /\ given' = [p \in Port2s |-> IF p \in DOMAIN plan THEN 0 ELSE given[p]]
  /\ bare' = FALSE

\* Mutant: the administrator who is about to lose the role is not counted.
LastAdminMiscounted(p) == p \in Admins /\ Cardinality(Admins) < 1
LastAdmin(p) == p \in Admins /\ Cardinality(Admins) <= 1

Stamp(p, reset) == IF reset THEN 0 ELSE keys[p].stamp
NewSecrets(p) == Passphrases \union {keys[p].secret}

\* The administrator's form: port1, the admin flag, a passphrase, a reset.
EditByAdmin(p, q, admin, s, reset) ==
  /\ ~admin => ~LastAdmin(p)
  /\ q # keys[p].port1 => Free(q, {p}) /\ q # p
  /\ Put(p, [port1 |-> q, admin |-> admin, secret |-> s, stamp |-> Stamp(p, reset)], FALSE)

\* The owner's form, keydb.py setpass and resettimestamp.
EditByOwner(p, s, reset) ==
  Put(p, [keys[p] EXCEPT !.secret = s, !.stamp = Stamp(p, reset)], FALSE)

DeleteByAdmin(p) ==
  /\ ~LastAdmin(p)
  /\ Drop(p, FALSE)

----------------------------------------------------------------------------
(* keydb.py: no check of other entries *)

RemoveEntry(p) == Drop(p, TRUE)
SetPort1(p, q) == Put(p, [keys[p] EXCEPT !.port1 = q], TRUE)
SetFlag(p, on) == Put(p, [keys[p] EXCEPT !.admin = on], TRUE)

Plans == UNION {[S -> Port1s] : S \in SUBSET Port2s}

KeysNext ==
  \/ \E p \in Port2s, q \in Port1s, s \in Passphrases : Add(p, q, s)
  \/ \E plan \in Plans, s \in Passphrases : AddBatch(plan, s)
  \/ \E p \in Entries, reset \in BOOLEAN :
        \E s \in NewSecrets(p) :
          \/ \E q \in Port1s, admin \in BOOLEAN : EditByAdmin(p, q, admin, s, reset)
          \/ EditByOwner(p, s, reset)
  \/ \E p \in Entries : DeleteByAdmin(p) \/ RemoveEntry(p)
  \/ \E p \in Entries, q \in Port1s : SetPort1(p, q)
  \/ \E p \in Entries, on \in BOOLEAN : SetFlag(p, on)
=============================================================================
