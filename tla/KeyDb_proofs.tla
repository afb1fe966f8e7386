---------------------------- MODULE KeyDb_proofs ----------------------------
(***************************************************************************)
(* Proofs about the edits of keys.tdb, beside everything a child does with *)
(* the entries: checked edits never make two entries share a port, and     *)
(* never take the last administrator away.  Both rest on one fact about    *)
(* the other steps: they keep every entry's port and role.                 *)
(***************************************************************************)
EXTENDS Signing_proofs, FiniteSetTheorems

\* Entry p has kept its port; entry p its role.
PortKept(p) == Exists(p)' => Exists(p) /\ keys'[p].port1 = keys[p].port1
RoleKept(p) == Exists(p) /\ keys[p].admin = TRUE => Exists(p)' /\ keys'[p].admin = TRUE

\* An entry with another timestamp and secret.
LEMMA SameRole ==
  ASSUME NEW p \in Port2s, keys'[p] = keys[p]
         \/ (Exists(p) /\ Exists(p)' /\ keys[p] \in Entry /\ keys'[p] \in Entry
             /\ keys'[p].port1 = keys[p].port1 /\ keys'[p].admin = keys[p].admin)
  PROVE  PortKept(p) /\ RoleKept(p)
BY DEF PortKept, RoleKept, Exists

\* Put changes one entry.
LEMMA PutKeys ==
  ASSUME KeyTypes, NEW p \in Port2s, NEW e \in Entry, NEW unchecked, Put(p, e, unchecked)
  PROVE  keys'[p] = e /\ Exists(p)' /\ \A r \in Port2s \ {p} : keys'[r] = keys[r]
<1>1. keys'[p] = e /\ \A r \in Port2s \ {p} : keys'[r] = keys[r]
  BY DEF Put, KeyTypes
<1> QED BY <1>1, EntryExists DEF Exists

\* Storing an entry with the port and role it had.
LEMMA PutSame ==
  ASSUME KeyTypes, NEW p \in Port2s, NEW e \in Entry, NEW unchecked, Put(p, e, unchecked),
         Exists(p), keys[p] \in Entry, e.port1 = keys[p].port1, e.admin = keys[p].admin
  PROVE  \A r \in Port2s : PortKept(r) /\ RoleKept(r)
<1>1. keys'[p] = e /\ Exists(p)' /\ \A r \in Port2s \ {p} : keys'[r] = keys[r]
  BY PutKeys
<1> SUFFICES ASSUME NEW r \in Port2s PROVE PortKept(r) /\ RoleKept(r)
  OBVIOUS
<1>2. CASE r = p
  BY <1>1, <1>2, SameRole
<1>3. CASE r # p
  BY <1>1, <1>3, SameRole
<1> QED BY <1>2, <1>3

\* The child, its savers and SETUP_SIGNING keep ports and roles.
LEMMA ChildKeeps ==
  ASSUME Inv, [Next]_vars, ~EditKeys
  PROVE  \A p \in Port2s : PortKept(p) /\ RoleKept(p)
<1>0. KeyTypes /\ now \in Nat /\ savers \subseteq Nat
  BY DEF Inv, KeysInv, LinksInv, LinkTypes
<1>1. ASSUME keys' = keys PROVE \A p \in Port2s : PortKept(p) /\ RoleKept(p)
  BY <1>1, SameRole
<1>2. ASSUME NEW l \in Links, Connect(l) \/ Send(l) \/ ReceiveBad(l) \/ Reload(l)
      PROVE  \A p \in Port2s : PortKept(p) /\ RoleKept(p)
  BY <1>1, <1>2 DEF Connect, Send, ReceiveBad, Reload
<1>3. ASSUME NEW l \in Links, NEW s \in Secrets, NEW t \in Clocks, ReceiveGood(l, s, t)
      PROVE  \A p \in Port2s : PortKept(p) /\ RoleKept(p)
  BY <1>1, <1>3 DEF ReceiveGood
<1>4. ASSUME NEW l \in Links, NEW s \in Secrets, NEW t \in Clocks, NEW new \in Secrets,
             NEW initial \in Clocks, SetupSigning(l, s, t, new, initial)
      PROVE  \A p \in Port2s : PortKept(p) /\ RoleKept(p)
  <2>1. CASE ~Exists(Pair)
    BY <1>1, <1>4, <2>1 DEF SetupSigning
  <2>2. CASE Exists(Pair)
    <3> DEFINE e == [keys[Pair] EXCEPT !.secret = new, !.stamp = initial]
    <3>1. keys[Pair] \in Entry /\ initial \in Nat
      BY <1>0, <2>2, ExistingType, PairAssumption, ClocksType
    <3>2. e \in Entry /\ e.port1 = keys[Pair].port1 /\ e.admin = keys[Pair].admin
      BY <3>1 DEF Entry
    <3>3. keys' = [keys EXCEPT ![Pair] = e]
      BY <1>4, <2>2 DEF SetupSigning
    <3> HIDE DEF e
    <3>4. ASSUME NEW p \in Port2s PROVE PortKept(p) /\ RoleKept(p)
      <4>1. CASE p = Pair
        <5>1. keys'[p] = e /\ Exists(p)'
          BY <1>0, <3>2, <3>3, <4>1, EntryExists DEF KeyTypes, Exists
        <5> QED BY <2>2, <3>1, <3>2, <4>1, <5>1, SameRole
      <4>2. CASE p # Pair
        BY <1>0, <3>3, <4>2, SameRole DEF KeyTypes
      <4> QED BY <4>1, <4>2
    <3> QED BY <3>4
  <2> QED BY <2>1, <2>2
<1>5. CASE SessionEnds \/ Tick \/ UNCHANGED vars
  BY <1>1, <1>5 DEF SessionEnds, Tick, vars, keyVars
<1>6. ASSUME NEW t \in savers, Save(t)
      PROVE  \A p \in Port2s : PortKept(p) /\ RoleKept(p)
  <2>1. t \in Nat
    BY <1>0
  <2> SUFFICES ASSUME NEW p \in Port2s PROVE PortKept(p) /\ RoleKept(p)
    OBVIOUS
  <2>2. /\ KeyTypes'
        /\ \/ keys'[p] = keys[p]
           \/ Exists(p) /\ Exists(p)' /\ Edited(keys'[p]) = Edited(keys[p])
    BY <1>0, <1>6, <2>1, SaveKeysType
  <2>3. ASSUME Exists(p), Exists(p)', Edited(keys'[p]) = Edited(keys[p])
        PROVE  PortKept(p) /\ RoleKept(p)
    <3>1. keys[p] \in Entry /\ keys'[p] \in Entry
      BY <1>0, <2>2, <2>3 DEF KeyTypes, Exists
    <3>2. keys'[p].port1 = keys[p].port1 /\ keys'[p].admin = keys[p].admin
      BY <2>3 DEF Edited
    <3> QED BY <2>3, <3>1, <3>2, SameRole
  <2> QED BY <2>2, <2>3, SameRole
<1>7. ASSUME NEW t \in savers, SaveFails(t)
      PROVE  \A p \in Port2s : PortKept(p) /\ RoleKept(p)
  BY <1>1, <1>7 DEF SaveFails
<1> QED BY <1>2, <1>3, <1>4, <1>5, <1>6, <1>7 DEF Next

----------------------------------------------------------------------------
(* Ports *)

\* Without a changed port there is no new clash.
LEMMA PortsKept ==
  ASSUME \A p \in Port2s : PortKept(p)
  PROVE  Clashes' \subseteq Clashes
BY DEF Clashes, Clash, Entries, PortKept

\* A checked edit that stores port q in entry p.
LEMMA PortChecked ==
  ASSUME KeyTypes, NEW p \in Port2s, NEW q, Free(q, {p}),
         Exists(p) \/ Free(p, {}), Exists(p)', keys'[p].port1 = q,
         \A r \in Port2s \ {p} : keys'[r] = keys[r]
  PROVE  Clashes' \subseteq Clashes
<1> SUFFICES ASSUME NEW a \in Port2s, NEW b \in Port2s, a # b, Exists(a)', Exists(b)', Clash(a, b)'
             PROVE  Exists(a) /\ Exists(b) /\ Clash(a, b)
  BY DEF Clashes, Entries
<1>1. ASSUME NEW r \in Port2s \ {p}, Exists(r)'
      PROVE  /\ Exists(r) /\ keys'[r] = keys[r] /\ r \in Entries \ {p}
             /\ q # keys[r].port1 /\ q # r
             /\ Exists(p) \/ p # keys[r].port1
  BY <1>1 DEF Exists, Entries, Free
<1>2. CASE a = p
  BY <1>1, <1>2 DEF Clash
<1>3. CASE b = p
  BY <1>1, <1>3 DEF Clash
<1>4. CASE a # p /\ b # p
  BY <1>1, <1>4 DEF Clash
<1> QED BY <1>2, <1>3, <1>4

\* A new entry has the port asked for and is no administrator's.
LEMMA NewEntryPort ==
  ASSUME NEW q \in Port1s, NEW s \in Passphrases
  PROVE  NewEntry(q, s) \in Entry /\ NewEntry(q, s).port1 = q
<1>1. NewEntry(q, s) \in Entry
  BY NewEntryType DEF Passphrases
<1>2. NewEntry(q, s).port1 = q
  BY DEF NewEntry
<1> QED BY <1>1, <1>2

\* What the entries are after a batch.
LEMMA BatchKeys ==
  ASSUME KeyTypes, NEW plan \in Plans, NEW s \in Passphrases, AddBatch(plan, s), NEW r \in Port2s
  PROVE  IF r \in DOMAIN plan THEN Exists(r)' /\ keys'[r].port1 = plan[r] /\ ~Exists(r)
                              ELSE keys'[r] = keys[r]
<1>1. keys'[r] = IF r \in DOMAIN plan THEN NewEntry(plan[r], s) ELSE keys[r]
  BY DEF AddBatch
<1>2. ASSUME r \in DOMAIN plan PROVE Exists(r)' /\ keys'[r].port1 = plan[r] /\ ~Exists(r)
  <2>1. plan[r] \in Port1s
    BY <1>2 DEF Plans
  <2>2. NewEntry(plan[r], s) \in Entry /\ NewEntry(plan[r], s).port1 = plan[r]
    BY <2>1, NewEntryPort
  <2>3. ~Exists(r)
    BY <1>2 DEF AddBatch, CanAdd
  <2> QED BY <1>1, <1>2, <2>2, <2>3, EntryExists DEF Exists
<1> QED BY <1>1, <1>2

\* The pairs of a batch clash neither with each other nor with the entries.
LEMMA BatchChecked ==
  ASSUME KeyTypes, NEW plan \in Plans, NEW s \in Passphrases, AddBatch(plan, s)
  PROVE  Clashes' \subseteq Clashes
<1> SUFFICES ASSUME NEW a \in Port2s, NEW b \in Port2s, a # b, Exists(a)', Exists(b)', Clash(a, b)'
             PROVE  Exists(a) /\ Exists(b) /\ Clash(a, b)
  BY DEF Clashes, Entries
<1>1. ASSUME NEW p \in DOMAIN plan, NEW r \in DOMAIN plan, p # r
      PROVE  plan[p] # plan[r] /\ plan[p] # r
  BY <1>1 DEF AddBatch
<1>2. ASSUME NEW p \in DOMAIN plan, NEW r \in Port2s, Exists(r)
      PROVE  keys[r].port1 # plan[p] /\ r # plan[p] /\ keys[r].port1 # p
  BY <1>2 DEF AddBatch, CanAdd, Free, Entries
<1>3. CASE a \in DOMAIN plan /\ b \in DOMAIN plan
  <2>1. keys'[a].port1 = plan[a] /\ keys'[b].port1 = plan[b]
    BY <1>3, BatchKeys
  <2> QED BY <1>1, <1>3, <2>1 DEF Clash
<1>4. CASE a \in DOMAIN plan /\ b \notin DOMAIN plan
  <2>1. keys'[a].port1 = plan[a] /\ keys'[b] = keys[b]
    BY <1>4, BatchKeys
  <2>2. Exists(b)
    BY <2>1 DEF Exists
  <2> QED BY <1>2, <1>4, <2>1, <2>2 DEF Clash
<1>5. CASE a \notin DOMAIN plan /\ b \in DOMAIN plan
  <2>1. keys'[b].port1 = plan[b] /\ keys'[a] = keys[a]
    BY <1>5, BatchKeys
  <2>2. Exists(a)
    BY <2>1 DEF Exists
  <2> QED BY <1>2, <1>5, <2>1, <2>2 DEF Clash
<1>6. CASE a \notin DOMAIN plan /\ b \notin DOMAIN plan
  <2>1. keys'[a] = keys[a] /\ keys'[b] = keys[b]
    BY <1>6, BatchKeys
  <2> QED BY <2>1 DEF Exists, Clash
<1> QED BY <1>3, <1>4, <1>5, <1>6

\* The administrator's form stores what it was given.
LEMMA AdminEdit ==
  ASSUME KeyTypes, NEW p \in Entries, NEW q \in Port1s, NEW admin \in BOOLEAN,
         NEW s \in NewSecrets(p), NEW reset \in BOOLEAN, EditByAdmin(p, q, admin, s, reset)
  PROVE  /\ Exists(p)' /\ keys'[p].port1 = q /\ keys'[p].admin = admin
         /\ \A r \in Port2s \ {p} : keys'[r] = keys[r]
<1>1. keys[p] \in Entry /\ p \in Port2s
  BY DEF KeyTypes, Entries, Exists
<1>2. s \in Secrets
  BY <1>1 DEF NewSecrets, Passphrases, Entry
<1>3. Stamp(p, reset) \in Nat
  BY <1>1 DEF Stamp, Entry
<1> DEFINE e == [port1 |-> q, admin |-> admin, secret |-> s, stamp |-> Stamp(p, reset)]
<1>4. e \in Entry
  BY <1>2, <1>3 DEF Entry
<1>5. e.port1 = q /\ e.admin = admin
  OBVIOUS
<1>6. Put(p, e, FALSE)
  BY DEF EditByAdmin
<1> HIDE DEF e
<1> QED BY <1>1, <1>4, <1>5, <1>6, PutKeys

\* The owner's form, setpass and resettimestamp keep port and role.
LEMMA OwnerEdit ==
  ASSUME KeyTypes, NEW p \in Entries, NEW s \in NewSecrets(p), NEW reset \in BOOLEAN,
         EditByOwner(p, s, reset)
  PROVE  \A r \in Port2s : PortKept(r) /\ RoleKept(r)
<1>1. keys[p] \in Entry /\ p \in Port2s /\ Exists(p)
  BY DEF KeyTypes, Entries, Exists
<1>2. s \in Secrets
  BY <1>1 DEF NewSecrets, Passphrases, Entry
<1>3. Stamp(p, reset) \in Nat
  BY <1>1 DEF Stamp, Entry
<1> DEFINE e == [keys[p] EXCEPT !.secret = s, !.stamp = Stamp(p, reset)]
<1>4. e \in Entry /\ e.port1 = keys[p].port1 /\ e.admin = keys[p].admin
  BY <1>1, <1>2, <1>3 DEF Entry
<1>5. Put(p, e, FALSE)
  BY DEF EditByOwner
<1> HIDE DEF e
<1> QED BY <1>1, <1>4, <1>5, PutSame

\* Every checked edit leaves the clashes there were, or fewer.
LEMMA EditsChecked ==
  ASSUME Inv, KeysNext, ~bare'
  PROVE  Clashes' \subseteq Clashes
<1>0. KeyTypes
  BY DEF Inv, KeysInv
<1>1. ASSUME NEW p \in Port2s, NEW q \in Port1s, NEW s \in Passphrases, Add(p, q, s)
      PROVE  Clashes' \subseteq Clashes
  <2>1. NewEntry(q, s) \in Entry /\ NewEntry(q, s).port1 = q
    BY NewEntryPort
  <2>2. Put(p, NewEntry(q, s), FALSE) /\ Free(p, {}) /\ Free(q, {}) /\ ~Exists(p)
    BY <1>1 DEF Add, CanAdd
  <2>3. Free(q, {p})
    BY <2>2 DEF Free
  <2>4. keys'[p].port1 = q /\ Exists(p)' /\ \A r \in Port2s \ {p} : keys'[r] = keys[r]
    BY <1>0, <2>1, <2>2, PutKeys
  <2> QED BY <1>0, <2>2, <2>3, <2>4, PortChecked
<1>2. ASSUME NEW plan \in Plans, NEW s \in Passphrases, AddBatch(plan, s)
      PROVE  Clashes' \subseteq Clashes
  BY <1>0, <1>2, BatchChecked
<1>3. ASSUME NEW p \in Entries, NEW reset \in BOOLEAN, NEW s \in NewSecrets(p),
             NEW q \in Port1s, NEW admin \in BOOLEAN, EditByAdmin(p, q, admin, s, reset)
      PROVE  Clashes' \subseteq Clashes
  <2>1. /\ Exists(p)' /\ keys'[p].port1 = q
        /\ \A r \in Port2s \ {p} : keys'[r] = keys[r]
    BY <1>0, <1>3, AdminEdit
  <2>2. p \in Port2s /\ Exists(p)
    BY DEF Entries
  <2>3. CASE q # keys[p].port1
    <3>1. Free(q, {p})
      BY <1>3, <2>3 DEF EditByAdmin
    <3> QED BY <1>0, <2>1, <2>2, <3>1, PortChecked
  <2>4. CASE q = keys[p].port1
    <3>1. \A r \in Port2s : PortKept(r)
      BY <2>1, <2>2, <2>4 DEF PortKept, Exists
    <3> QED BY <3>1, PortsKept
  <2> QED BY <2>3, <2>4
<1>4. ASSUME NEW p \in Entries, NEW reset \in BOOLEAN, NEW s \in NewSecrets(p),
             EditByOwner(p, s, reset)
      PROVE  Clashes' \subseteq Clashes
  BY <1>0, <1>4, OwnerEdit, PortsKept
<1>5. ASSUME NEW p \in Entries, DeleteByAdmin(p)
      PROVE  Clashes' \subseteq Clashes
  <2>1. keys' = [keys EXCEPT ![p] = NoEntry]
    BY <1>5 DEF DeleteByAdmin, Drop
  <2>2. \A r \in Port2s : PortKept(r)
    BY <1>0, <2>1 DEF KeyTypes, PortKept, Exists
  <2> QED BY <2>2, PortsKept
<1>6. ASSUME NEW p \in Entries, RemoveEntry(p) PROVE bare'
  BY <1>6 DEF RemoveEntry, Drop
<1>7. ASSUME NEW p \in Entries, NEW q \in Port1s, SetPort1(p, q) PROVE bare'
  BY <1>7 DEF SetPort1, Put
<1>8. ASSUME NEW p \in Entries, NEW on \in BOOLEAN, SetFlag(p, on) PROVE bare'
  BY <1>8 DEF SetFlag, Put
<1> QED BY <1>1, <1>2, <1>3, <1>4, <1>5, <1>6, <1>7, <1>8 DEF KeysNext

\* Port numbers stay unique across single adds, batches and edits in any order, with
\* savers and SETUP_SIGNING between; only keydb.py setport1 can make two pairs clash.
THEOREM NoNewClashCorrect == Spec => NoNewClash
<1>1. Inv /\ [Next]_vars => (~bare' => Clashes' \subseteq Clashes)
  <2> SUFFICES ASSUME Inv, [Next]_vars, ~bare' PROVE Clashes' \subseteq Clashes
    OBVIOUS
  <2>1. CASE EditKeys
    BY <2>1, EditsChecked DEF EditKeys
  <2>2. CASE ~EditKeys
    BY <2>2, ChildKeeps, PortsKept
  <2> QED BY <2>1, <2>2
<1>2. Spec => []Inv
  BY InvHolds
<1> QED BY <1>1, <1>2, PTL DEF Spec, NoNewClash

----------------------------------------------------------------------------
(* Administrators *)

\* Without a changed role every administrator stays one.
LEMMA RolesKept ==
  ASSUME \A p \in Port2s : RoleKept(p), Admins # {}
  PROVE  Admins' # {}
BY DEF RoleKept, Admins, Entries

\* Beside an administrator who is not the last one there is another.
LEMMA AnotherAdmin ==
  ASSUME NEW p \in Admins, ~LastAdmin(p)
  PROVE  \E r \in Admins : r # p
<1> SUFFICES ASSUME \A r \in Admins : r = p PROVE FALSE
  OBVIOUS
<1>1. Admins = {p}
  OBVIOUS
<1>2. Cardinality(Admins) = 1
  BY <1>1, FS_Singleton
<1> QED BY <1>2 DEF LastAdmin

\* A step that takes the role from no one but p, who is not the last to have it.
LEMMA AdminLeft ==
  ASSUME NEW p \in Entries, ~LastAdmin(p), Admins # {},
         \A r \in Port2s \ {p} : keys'[r] = keys[r]
  PROVE  Admins' # {}
<1>1. PICK r \in Admins : r # p
  BY AnotherAdmin
<1>2. r \in Port2s \ {p} /\ Exists(r) /\ keys[r].admin = TRUE
  BY <1>1 DEF Admins, Entries
<1>3. keys'[r] = keys[r]
  BY <1>2
<1> QED BY <1>2, <1>3 DEF Admins, Entries, Exists

\* No edit of the web pages, and no add, takes the last administrator away.
LEMMA EditsLeaveAdmin ==
  ASSUME Inv, KeysNext, ~bare', Admins # {}
  PROVE  Admins' # {}
<1>0. KeyTypes
  BY DEF Inv, KeysInv
<1>1. ASSUME NEW p \in Port2s, NEW q \in Port1s, NEW s \in Passphrases, Add(p, q, s)
      PROVE  \A r \in Port2s : RoleKept(r)
  <2>1. NewEntry(q, s) \in Entry
    BY NewEntryPort
  <2>2. Put(p, NewEntry(q, s), FALSE) /\ ~Exists(p)
    BY <1>1 DEF Add, CanAdd
  <2>3. \A r \in Port2s \ {p} : keys'[r] = keys[r]
    BY <1>0, <2>1, <2>2, PutKeys
  <2> QED BY <2>2, <2>3 DEF RoleKept, Exists
<1>2. ASSUME NEW plan \in Plans, NEW s \in Passphrases, AddBatch(plan, s)
      PROVE  \A r \in Port2s : RoleKept(r)
  BY <1>0, <1>2, BatchKeys DEF RoleKept, Exists
<1>3. ASSUME NEW p \in Entries, NEW reset \in BOOLEAN, NEW s \in NewSecrets(p),
             NEW q \in Port1s, NEW admin \in BOOLEAN, EditByAdmin(p, q, admin, s, reset)
      PROVE  Admins' # {}
  <2>1. /\ Exists(p)' /\ keys'[p].admin = admin
        /\ \A r \in Port2s \ {p} : keys'[r] = keys[r]
    BY <1>0, <1>3, AdminEdit
  <2>2. CASE admin = TRUE
    BY <2>1, <2>2 DEF Admins, Entries
  <2>3. CASE admin = FALSE
    <3>1. ~LastAdmin(p)
      BY <1>3, <2>3 DEF EditByAdmin
    <3> QED BY <2>1, <3>1, AdminLeft
  <2> QED BY <2>2, <2>3
<1>4. ASSUME NEW p \in Entries, NEW reset \in BOOLEAN, NEW s \in NewSecrets(p),
             EditByOwner(p, s, reset)
      PROVE  \A r \in Port2s : RoleKept(r)
  BY <1>0, <1>4, OwnerEdit
<1>5. ASSUME NEW p \in Entries, DeleteByAdmin(p)
      PROVE  Admins' # {}
  <2>1. \A r \in Port2s \ {p} : keys'[r] = keys[r]
    BY <1>0, <1>5 DEF DeleteByAdmin, Drop, KeyTypes
  <2>2. ~LastAdmin(p)
    BY <1>5 DEF DeleteByAdmin
  <2> QED BY <2>1, <2>2, AdminLeft
<1>6. ASSUME NEW p \in Entries, RemoveEntry(p) PROVE bare'
  BY <1>6 DEF RemoveEntry, Drop
<1>7. ASSUME NEW p \in Entries, NEW q \in Port1s, SetPort1(p, q) PROVE bare'
  BY <1>7 DEF SetPort1, Put
<1>8. ASSUME NEW p \in Entries, NEW on \in BOOLEAN, SetFlag(p, on) PROVE bare'
  BY <1>8 DEF SetFlag, Put
<1> QED BY <1>1, <1>2, <1>3, <1>4, <1>5, <1>6, <1>7, <1>8, RolesKept DEF KeysNext

\* Two administrators who are demoted or deleted at the same time, each by the other,
\* cannot both lose the role, whatever the child and its savers write in between.
THEOREM AdminStaysCorrect == Spec => AdminStays
<1>1. Inv /\ [Next]_vars => (~bare' /\ Admins # {} => Admins' # {})
  <2> SUFFICES ASSUME Inv, [Next]_vars, ~bare', Admins # {} PROVE Admins' # {}
    OBVIOUS
  <2>1. CASE EditKeys
    BY <2>1, EditsLeaveAdmin DEF EditKeys
  <2>2. CASE ~EditKeys
    BY <2>2, ChildKeeps, RolesKept
  <2> QED BY <2>1, <2>2
<1>2. Spec => []Inv
  BY InvHolds
<1> QED BY <1>1, <1>2, PTL DEF Spec, AdminStays
=============================================================================
