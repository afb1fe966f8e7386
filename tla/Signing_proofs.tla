--------------------------- MODULE Signing_proofs ---------------------------
(***************************************************************************)
(* Proofs about Signing, for every set of ports, secrets and links and any *)
(* clocks.  An edit of keys.tdb has one of three effects on an entry       *)
(* (EditEffect); with it each invariant is inductive with TypeOK.          *)
(***************************************************************************)
EXTENDS Signing, TLAPS

\* No stored entry looks like a missing one.
LEMMA EntryExists == \A e \in Entry : e # NoEntry
<1> SUFFICES ASSUME NEW e \in Entry, e = NoEntry PROVE FALSE
  OBVIOUS
<1>1. "admin" \in DOMAIN e
  BY DEF Entry
<1>2. DOMAIN e = {"port1"}
  BY DEF NoEntry
<1> QED BY <1>1, <1>2

----------------------------------------------------------------------------
(* Edits *)

\* An edit leaves an entry, removes it, or stores one: with the timestamp 0, or with
\* the timestamp it had.
Effect(p) ==
  \/ keys'[p] = keys[p] /\ edited'[p] = edited[p] /\ given'[p] = given[p]
  \/ keys'[p] = NoEntry /\ edited'[p] = NoEntry
  \/ /\ keys'[p] \in Entry /\ edited'[p] = Edited(keys'[p])
     /\ \/ keys'[p].stamp = 0
        \/ Exists(p) /\ keys'[p].stamp = keys[p].stamp /\ given'[p] = given[p]

\* What edited remembers of an entry.
LEMMA EditedType == \A e \in Entry : Edited(e) \in [port1 : Port1s, admin : BOOLEAN, secret : Secrets]
BY DEF Edited, Entry

\* A stored entry with the timestamp 0 or the one it had.
LEMMA PutEffect ==
  ASSUME KeyTypes, NEW p \in Port2s, NEW e \in Entry, NEW unchecked \in BOOLEAN,
         Put(p, e, unchecked),
         e.stamp = 0 \/ (Exists(p) /\ e.stamp = keys[p].stamp)
  PROVE  KeyTypes' /\ \A r \in Port2s : Effect(r)
<1>1. keys' \in [Port2s -> Entry \union {NoEntry}]
  BY DEF KeyTypes, Put
<1>2. edited' \in [Port2s -> [port1 : Port1s, admin : BOOLEAN, secret : Secrets] \union {NoEntry}]
  BY EditedType DEF KeyTypes, Put
<1>3. e.stamp \in Nat
  BY DEF Entry
<1>4. given' \in [Port2s -> Nat]
  BY <1>3 DEF KeyTypes, Put
<1>5. bare' \in BOOLEAN
  BY DEF Put
<1>6. ASSUME NEW r \in Port2s PROVE Effect(r)
  <2>1. CASE r = p
    <3>1. keys'[r] = e /\ edited'[r] = Edited(e)
      BY <2>1 DEF KeyTypes, Put
    <3>2. given'[r] = IF e.stamp = 0 THEN 0 ELSE given[r]
      BY <2>1 DEF KeyTypes, Put
    <3> QED BY <2>1, <3>1, <3>2 DEF Effect
  <2>2. CASE r # p
    BY <2>2 DEF KeyTypes, Put, Effect
  <2> QED BY <2>1, <2>2
<1> QED BY <1>1, <1>2, <1>4, <1>5, <1>6 DEF KeyTypes

\* A removed entry.
LEMMA DropEffect ==
  ASSUME KeyTypes, NEW p \in Port2s, NEW unchecked \in BOOLEAN, Drop(p, unchecked)
  PROVE  KeyTypes' /\ \A r \in Port2s : Effect(r)
<1>1. KeyTypes'
  BY DEF KeyTypes, Drop
<1>2. ASSUME NEW r \in Port2s PROVE Effect(r)
  BY DEF KeyTypes, Drop, Effect
<1> QED BY <1>1, <1>2

\* An entry that is there.
LEMMA EntriesType == ASSUME KeyTypes, NEW p \in Entries PROVE p \in Port2s /\ keys[p] \in Entry /\ Exists(p)
BY DEF KeyTypes, Entries, Exists

\* A new entry has the timestamp 0.
LEMMA NewEntryType == ASSUME NEW q \in Port1s, NEW s \in Secrets
                      PROVE NewEntry(q, s) \in Entry /\ NewEntry(q, s).stamp = 0
BY DEF NewEntry, Entry

\* A batch stores new entries and leaves the others.
LEMMA BatchEffect ==
  ASSUME KeyTypes, NEW plan \in Plans, NEW s \in Passphrases, AddBatch(plan, s)
  PROVE  KeyTypes' /\ \A r \in Port2s : Effect(r)
<1>1. s \in Secrets
  BY DEF Passphrases
<1>2. ASSUME NEW r \in Port2s, r \in DOMAIN plan
      PROVE  NewEntry(plan[r], s) \in Entry /\ NewEntry(plan[r], s).stamp = 0
  <2>1. plan[r] \in Port1s
    BY <1>2 DEF Plans
  <2> QED BY <1>1, <2>1, NewEntryType
<1>3. ASSUME NEW r \in Port2s
      PROVE  /\ keys'[r] = IF r \in DOMAIN plan THEN NewEntry(plan[r], s) ELSE keys[r]
             /\ edited'[r] = IF r \in DOMAIN plan THEN Edited(NewEntry(plan[r], s)) ELSE edited[r]
             /\ given'[r] = IF r \in DOMAIN plan THEN 0 ELSE given[r]
  BY DEF AddBatch
<1>4. keys' \in [Port2s -> Entry \union {NoEntry}]
  <2>1. \A r \in Port2s : (IF r \in DOMAIN plan THEN NewEntry(plan[r], s) ELSE keys[r])
                             \in Entry \union {NoEntry}
    BY <1>2 DEF KeyTypes
  <2> QED BY <2>1 DEF AddBatch
<1>5. edited' \in [Port2s -> [port1 : Port1s, admin : BOOLEAN, secret : Secrets] \union {NoEntry}]
  <2>1. \A r \in Port2s : (IF r \in DOMAIN plan THEN Edited(NewEntry(plan[r], s)) ELSE edited[r])
                             \in [port1 : Port1s, admin : BOOLEAN, secret : Secrets] \union {NoEntry}
    BY <1>2, EditedType DEF KeyTypes
  <2> QED BY <2>1 DEF AddBatch
<1>6. given' \in [Port2s -> Nat]
  BY DEF KeyTypes, AddBatch
<1>7. bare' \in BOOLEAN
  BY DEF AddBatch
<1>8. ASSUME NEW r \in Port2s PROVE Effect(r)
  BY <1>2, <1>3 DEF Effect
<1> QED BY <1>4, <1>5, <1>6, <1>7, <1>8 DEF KeyTypes

\* Whatever the web pages and keydb.py do, types are kept and every entry has one of
\* the three effects.
LEMMA EditEffect ==
  ASSUME KeyTypes, KeysNext
  PROVE  KeyTypes' /\ \A r \in Port2s : Effect(r)
<1>1. ASSUME NEW p \in Port2s, NEW q \in Port1s, NEW s \in Passphrases, Add(p, q, s)
      PROVE  KeyTypes' /\ \A r \in Port2s : Effect(r)
  <2>1. s \in Secrets
    BY DEF Passphrases
  <2>2. NewEntry(q, s) \in Entry /\ NewEntry(q, s).stamp = 0
    BY <2>1, NewEntryType
  <2>3. Put(p, NewEntry(q, s), FALSE)
    BY <1>1 DEF Add
  <2> QED BY <2>2, <2>3, PutEffect
<1>2. ASSUME NEW plan \in Plans, NEW s \in Passphrases, AddBatch(plan, s)
      PROVE  KeyTypes' /\ \A r \in Port2s : Effect(r)
  BY <1>2, BatchEffect
<1>3. ASSUME NEW p \in Entries, NEW reset \in BOOLEAN, NEW s \in NewSecrets(p),
             NEW q \in Port1s, NEW admin \in BOOLEAN, EditByAdmin(p, q, admin, s, reset)
      PROVE  KeyTypes' /\ \A r \in Port2s : Effect(r)
  <2> DEFINE e == [port1 |-> q, admin |-> admin, secret |-> s, stamp |-> Stamp(p, reset)]
  <2>1. p \in Port2s /\ keys[p] \in Entry /\ Exists(p)
    BY EntriesType
  <2>2. s \in Secrets
    BY <2>1 DEF NewSecrets, Passphrases, Entry
  <2>3. Stamp(p, reset) \in Nat /\ (Stamp(p, reset) = 0 \/ Stamp(p, reset) = keys[p].stamp)
    BY <2>1 DEF Stamp, Entry
  <2>4. e \in Entry /\ (e.stamp = 0 \/ e.stamp = keys[p].stamp)
    BY <2>2, <2>3 DEF Entry
  <2>5. Put(p, e, FALSE)
    BY <1>3 DEF EditByAdmin
  <2> HIDE DEF e
  <2> QED BY <2>1, <2>4, <2>5, PutEffect
<1>4. ASSUME NEW p \in Entries, NEW reset \in BOOLEAN, NEW s \in NewSecrets(p),
             EditByOwner(p, s, reset)
      PROVE  KeyTypes' /\ \A r \in Port2s : Effect(r)
  <2> DEFINE e == [keys[p] EXCEPT !.secret = s, !.stamp = Stamp(p, reset)]
  <2>1. p \in Port2s /\ keys[p] \in Entry /\ Exists(p)
    BY EntriesType
  <2>2. s \in Secrets
    BY <2>1 DEF NewSecrets, Passphrases, Entry
  <2>3. Stamp(p, reset) \in Nat /\ (Stamp(p, reset) = 0 \/ Stamp(p, reset) = keys[p].stamp)
    BY <2>1 DEF Stamp, Entry
  <2>4. e \in Entry /\ (e.stamp = 0 \/ e.stamp = keys[p].stamp)
    BY <2>1, <2>2, <2>3 DEF Entry
  <2>5. Put(p, e, FALSE)
    BY <1>4 DEF EditByOwner
  <2> HIDE DEF e
  <2> QED BY <2>1, <2>4, <2>5, PutEffect
<1>5. ASSUME NEW p \in Entries, DeleteByAdmin(p) \/ RemoveEntry(p)
      PROVE  KeyTypes' /\ \A r \in Port2s : Effect(r)
  <2>1. p \in Port2s
    BY EntriesType
  <2>2. \E unchecked \in BOOLEAN : Drop(p, unchecked)
    BY <1>5 DEF DeleteByAdmin, RemoveEntry
  <2> QED BY <2>1, <2>2, DropEffect
<1>6. ASSUME NEW p \in Entries, NEW q \in Port1s, SetPort1(p, q)
      PROVE  KeyTypes' /\ \A r \in Port2s : Effect(r)
  <2> DEFINE e == [keys[p] EXCEPT !.port1 = q]
  <2>1. p \in Port2s /\ keys[p] \in Entry /\ Exists(p)
    BY EntriesType
  <2>2. e \in Entry /\ e.stamp = keys[p].stamp
    BY <2>1 DEF Entry
  <2>3. Put(p, e, TRUE)
    BY <1>6 DEF SetPort1
  <2> HIDE DEF e
  <2> QED BY <2>1, <2>2, <2>3, PutEffect
<1>7. ASSUME NEW p \in Entries, NEW on \in BOOLEAN, SetFlag(p, on)
      PROVE  KeyTypes' /\ \A r \in Port2s : Effect(r)
  <2> DEFINE e == [keys[p] EXCEPT !.admin = on]
  <2>1. p \in Port2s /\ keys[p] \in Entry /\ Exists(p)
    BY EntriesType
  <2>2. e \in Entry /\ e.stamp = keys[p].stamp
    BY <2>1 DEF Entry
  <2>3. Put(p, e, TRUE)
    BY <1>7 DEF SetFlag
  <2> HIDE DEF e
  <2> QED BY <2>1, <2>2, <2>3, PutEffect
<1> QED BY <1>1, <1>2, <1>3, <1>4, <1>5, <1>6, <1>7 DEF KeysNext

----------------------------------------------------------------------------
(* Links *)

\* Times stay natural numbers.
LEMMA Extremes ==
  ASSUME NEW a \in Nat, NEW b \in Nat
  PROVE  /\ Larger(a, b) \in Nat /\ Larger(a, b) >= a /\ Larger(a, b) >= b
         /\ Smaller(a, b) \in Nat /\ Smaller(a, b) <= a /\ Smaller(a, b) <= b
BY DEF Larger, Smaller

\* A link that is set up, before it loads a key.
LEMMA ResetType == ASSUME NEW x \in Link PROVE Reset(x) \in Link /\ Reset(x).heard = NoSecret
BY SecretsAssumption DEF Reset, Closed, Link

\* Loading keeps what was heard.
LEMMA LoadedType ==
  ASSUME NEW x \in Link, NEW e \in Entry, now \in Nat
  PROVE  Loaded(x, e) \in Link /\ Loaded(x, e).heard = x.heard /\ Loaded(x, e).loaded = TRUE
<1>1. e.stamp \in Nat /\ e.secret \in Secrets
  BY DEF Entry
<1>2. e.stamp + Buffer \in Nat
  BY <1>1, TimesAssumption
<1>3. LoadedStamp(e) \in Nat
  BY <1>2, Extremes DEF LoadedStamp
<1>4. (~(e.stamp = 0 /\ e.secret = ZeroKey)) \in BOOLEAN
  OBVIOUS
<1> QED BY <1>1, <1>3, <1>4 DEF Loaded, Link

\* Hearing a packet.
LEMMA HeardType ==
  ASSUME NEW x \in Link, NEW s \in Secrets, NEW t \in Nat
  PROVE  /\ Heard(x, s, t) \in Link /\ Heard(x, s, t).heard = s
         /\ Heard(x, s, t).secret = x.secret /\ Heard(x, s, t).signs = x.signs
<1>1. x.ts \in Nat
  BY DEF Link
<1>2. Larger(x.ts, t) \in Nat
  BY <1>1, Extremes
<1>3. (IF x.signs = TRUE THEN Larger(x.ts, t) ELSE x.ts) \in Nat
  BY <1>1, <1>2
<1> QED BY <1>3 DEF Heard, Link

\* Raising timestamps changes nothing else.
LEMMA RaisedType ==
  ASSUME NEW ls \in [Links -> Link], now \in Nat
  PROVE  /\ Raised(ls) \in [Links -> Link]
         /\ \A l \in Links : /\ Raised(ls)[l].heard = ls[l].heard
                              /\ Raised(ls)[l].secret = ls[l].secret
                              /\ Raised(ls)[l].signs = ls[l].signs
                              /\ Raised(ls)[l].loaded = ls[l].loaded
<1>1. ASSUME NEW l \in Links
      PROVE  /\ [ls[l] EXCEPT !.ts = Larger(@, now)] \in Link
             /\ [ls[l] EXCEPT !.ts = Larger(@, now)].heard = ls[l].heard
             /\ [ls[l] EXCEPT !.ts = Larger(@, now)].secret = ls[l].secret
             /\ [ls[l] EXCEPT !.ts = Larger(@, now)].signs = ls[l].signs
             /\ [ls[l] EXCEPT !.ts = Larger(@, now)].loaded = ls[l].loaded
  <2>1. ls[l] \in Link /\ ls[l].ts \in Nat
    BY DEF Link
  <2>2. Larger(ls[l].ts, now) \in Nat
    BY <2>1, Extremes
  <2> QED BY <2>1, <2>2 DEF Link
<1> QED BY <1>1 DEF Raised

\* The savers carry timestamps of links.
LEMMA CarriedType == ASSUME NEW ls \in [Links -> Link] PROVE Carried(ls) \subseteq Nat
BY DEF Carried, Signing, Link

\* Raising and forking a saver.
LEMMA UpdateType ==
  ASSUME NEW ls \in [Links -> Link], now \in Nat, savers \subseteq Nat, Update(ls)
  PROVE  link' \in [Links -> Link] /\ savers' \subseteq Nat
<1>1. Raised(ls) \in [Links -> Link]
  BY RaisedType
<1>2. Carried(Raised(ls)) \subseteq Nat
  BY <1>1, CarriedType
<1> QED BY <1>1, <1>2 DEF Update

\* A saver raises the timestamp, to the clock at most.
LEMMA SavedType ==
  ASSUME NEW e \in Entry, NEW t \in Nat, now \in Nat
  PROVE  /\ Saved(t, e) \in Entry /\ Edited(Saved(t, e)) = Edited(e)
         /\ Saved(t, e).stamp >= e.stamp /\ Saved(t, e).stamp <= Larger(e.stamp, now)
<1>1. e.stamp \in Nat
  BY DEF Entry
<1> DEFINE v == Larger(e.stamp, Smaller(t, now))
<1>2. v \in Nat /\ v >= e.stamp /\ v <= Larger(e.stamp, now)
  BY <1>1 DEF Larger, Smaller
<1>3. Saved(t, e) = [e EXCEPT !.stamp = v]
  BY DEF Saved
<1> HIDE DEF v
<1>4. Saved(t, e).stamp = v
  BY <1>3 DEF Entry
<1>5. Saved(t, e) \in Entry
  BY <1>2, <1>3 DEF Entry
<1>6. Edited(Saved(t, e)) = Edited(e)
  BY <1>3 DEF Edited, Entry
<1> QED BY <1>2, <1>4, <1>5, <1>6

\* An entry that is there is one.
LEMMA ExistingType == ASSUME KeyTypes, NEW p \in Port2s, Exists(p) PROVE keys[p] \in Entry
BY DEF KeyTypes, Exists

----------------------------------------------------------------------------
(* Types *)

\* The clocks of peers.
LEMMA ClocksType == ASSUME now \in Nat PROVE Clocks \subseteq Nat
BY TimesAssumption DEF Clocks

\* Links heard with their key, and the types: the invariant of the links.
LinksInv == LinkTypes /\ Reloads /\ HeardWithKey

\* A link of its type that has heard nothing, or only its key.
Honest(x) == x \in Link /\ (x.signs = TRUE /\ x.heard # NoSecret => x.heard = x.secret)

\* Replacing one link by an honest one, while no link is to load a key.
LEMMA OneLink ==
  ASSUME LinksInv, NEW l \in Links, NEW x, Honest(x), reloading = NoLink,
         link' = [link EXCEPT ![l] = x], UNCHANGED <<now, reloading, savers>>
  PROVE  LinksInv'
<1>1. LinkTypes'
  BY DEF LinksInv, LinkTypes, Honest
<1>2. Reloads'
  BY DEF Reloads
<1>3. HeardWithKey'
  <2> SUFFICES ASSUME NEW k \in Links, link'[k].signs = TRUE, link'[k].heard # NoSecret
               PROVE  link'[k].heard = link'[k].secret
    BY DEF HeardWithKey
  <2>1. CASE k = l
    BY <2>1 DEF LinksInv, LinkTypes, Honest
  <2>2. CASE k # l
    BY <2>2 DEF LinksInv, LinkTypes, HeardWithKey
  <2> QED BY <2>1, <2>2
<1> QED BY <1>1, <1>2, <1>3 DEF LinksInv

\* Replacing one link by an honest one and raising them all.
LEMMA OneUpdate ==
  ASSUME LinksInv, NEW l \in Links, NEW x, Honest(x), reloading = NoLink,
         Update([link EXCEPT ![l] = x]), UNCHANGED <<now, reloading>>
  PROVE  LinksInv'
<1> DEFINE ls == [link EXCEPT ![l] = x]
<1>1. ls \in [Links -> Link] /\ now \in Nat /\ savers \subseteq Nat
  BY DEF LinksInv, LinkTypes, Honest
<1>2. link' \in [Links -> Link] /\ savers' \subseteq Nat
  BY <1>1, UpdateType
<1>3. LinkTypes'
  BY <1>1, <1>2 DEF LinksInv, LinkTypes
<1>4. Reloads'
  BY DEF Reloads
<1>5. HeardWithKey'
  <2> SUFFICES ASSUME NEW k \in Links, link'[k].signs = TRUE, link'[k].heard # NoSecret
               PROVE  link'[k].heard = link'[k].secret
    BY DEF HeardWithKey
  <2>1. link'[k].heard = ls[k].heard /\ link'[k].secret = ls[k].secret /\ link'[k].signs = ls[k].signs
    BY <1>1, RaisedType DEF Update
  <2>2. CASE k = l
    <3>1. ls[k] = x
      BY <2>2 DEF LinksInv, LinkTypes
    <3> QED BY <2>1, <3>1 DEF Honest
  <2>3. CASE k # l
    <3>1. ls[k] = link[k]
      BY <2>3 DEF LinksInv, LinkTypes
    <3> QED BY <2>1, <3>1 DEF LinksInv, HeardWithKey
  <2> QED BY <2>2, <2>3
<1> QED BY <1>3, <1>4, <1>5 DEF LinksInv

\* A link taken from the table.
LEMMA LinkHonest == ASSUME LinksInv, NEW l \in Links PROVE Honest(link[l]) /\ now \in Nat
BY DEF LinksInv, LinkTypes, HeardWithKey, Honest

\* Setting a link up.
LEMMA ConnectStep == ASSUME KeyTypes, LinksInv, NEW l \in Links, Connect(l) PROVE LinksInv'
<1> DEFINE x == Reset(link[l])
           y == IF Exists(Pair) THEN Loaded(x, keys[Pair]) ELSE x
<1>1. link[l] \in Link /\ now \in Nat
  BY LinkHonest DEF Honest
<1>2. x \in Link /\ x.heard = NoSecret
  BY <1>1, ResetType
<1>3. ASSUME Exists(Pair) PROVE Honest(Loaded(x, keys[Pair]))
  <2>1. keys[Pair] \in Entry
    BY <1>3, ExistingType, PairAssumption
  <2> HIDE DEF x
  <2> QED BY <1>1, <1>2, <2>1, LoadedType DEF Honest
<1>4. Honest(x)
  BY <1>2 DEF Honest
<1>5. Honest(y)
  BY <1>3, <1>4
<1>6. Update([link EXCEPT ![l] = y]) /\ reloading = NoLink /\ UNCHANGED <<now, reloading>>
  BY DEF Connect
<1> HIDE DEF y
<1> QED BY <1>5, <1>6, OneUpdate

\* Sending: only due and timestamps change.
LEMMA SendStep == ASSUME LinksInv, NEW l \in Links, Send(l) PROVE LinksInv'
<1> DEFINE y == [link[l] EXCEPT !.due = FALSE]
<1>1. Honest(y)
  BY LinkHonest DEF Honest, Link
<1>2. Update([link EXCEPT ![l] = y]) /\ reloading = NoLink /\ UNCHANGED <<now, reloading>>
  BY DEF Send
<1> HIDE DEF y
<1> QED BY <1>1, <1>2, OneUpdate

\* An accepted packet was signed with the link's key, or the link does not sign.
LEMMA HeardHonest ==
  ASSUME LinksInv, NEW l \in Links, NEW s \in Secrets, NEW t \in Nat, Accepts(link[l], s, t)
  PROVE  Honest(Heard(link[l], s, t))
<1>1. link[l] \in Link
  BY LinkHonest DEF Honest
<1>2. link[l].signs = TRUE => s = link[l].secret
  BY DEF Accepts
<1> QED BY <1>1, <1>2, HeardType DEF Honest

\* A good packet.
LEMMA ReceiveGoodStep ==
  ASSUME LinksInv, NEW l \in Links, NEW s \in Secrets, NEW t \in Nat, ReceiveGood(l, s, t)
  PROVE  LinksInv'
<1>1. Honest(Heard(link[l], s, t))
  BY HeardHonest DEF ReceiveGood
<1>2. /\ link' = [link EXCEPT ![l] = Heard(link[l], s, t)] /\ reloading = NoLink
      /\ UNCHANGED <<now, reloading, savers>>
  BY DEF ReceiveGood
<1> QED BY <1>1, <1>2, OneLink

\* A bad packet.
LEMMA ReceiveBadStep == ASSUME LinksInv, NEW l \in Links, ReceiveBad(l) PROVE LinksInv'
<1> DEFINE y == [link[l] EXCEPT !.heard = NoSecret]
<1>1. Honest(y)
  BY LinkHonest DEF Honest, Link
<1>2. /\ link' = [link EXCEPT ![l] = y] /\ reloading = NoLink
      /\ UNCHANGED <<now, reloading, savers>>
  BY DEF ReceiveBad
<1> HIDE DEF y
<1> QED BY <1>1, <1>2, OneLink

\* SETUP_SIGNING: the link that is to load the new key has heard nothing.
LEMMA SetupStep ==
  ASSUME LinksInv, NEW l \in Links, NEW s \in Secrets, NEW t \in Nat,
         NEW new \in Secrets, NEW initial \in Nat, SetupSigning(l, s, t, new, initial)
  PROVE  LinksInv'
<1>1. Honest(Heard(link[l], s, t))
  BY HeardHonest DEF SetupSigning
<1>2. CASE ~Exists(Pair)
  <2>1. /\ link' = [link EXCEPT ![l] = Heard(link[l], s, t)] /\ reloading = NoLink
        /\ UNCHANGED <<now, reloading, savers>>
    BY <1>2 DEF SetupSigning
  <2> QED BY <1>1, <2>1, OneLink
<1>3. CASE Exists(Pair)
  <2> DEFINE y == SetupHeard(link[l], s, t)
  <2>1. link[l] \in Link /\ link[l].loaded = TRUE
    BY LinkHonest DEF Honest, SetupSigning
  <2>2. y \in Link /\ y.heard = NoSecret /\ y.loaded = TRUE
    <3>1. Heard(link[l], s, t) \in Link
      BY <1>1 DEF Honest
    <3>2. Heard(link[l], s, t).loaded = TRUE
      BY <2>1 DEF Heard, Link
    <3> QED BY <3>1, <3>2 DEF SetupHeard, Link
  <2>3. link' = [link EXCEPT ![l] = y] /\ reloading' = l /\ UNCHANGED <<now, savers>>
    BY <1>3 DEF SetupSigning
  <2> HIDE DEF y
  <2>4. LinkTypes'
    BY <2>2, <2>3 DEF LinksInv, LinkTypes
  <2>5. link'[l] = y
    BY <2>3 DEF LinksInv, LinkTypes
  <2>6. Reloads'
    BY <2>2, <2>3, <2>5 DEF Reloads
  <2>7. HeardWithKey'
    <3> SUFFICES ASSUME NEW k \in Links, link'[k].signs = TRUE, link'[k].heard # NoSecret
                 PROVE  link'[k].heard = link'[k].secret
      BY DEF HeardWithKey
    <3>1. k # l
      BY <2>2, <2>5
    <3> QED BY <2>3, <3>1 DEF LinksInv, LinkTypes, HeardWithKey
  <2> QED BY <2>4, <2>6, <2>7 DEF LinksInv
<1> QED BY <1>2, <1>3

\* Loading the new key: nothing was heard since it was stored.
LEMMA ReloadStep == ASSUME KeyTypes, LinksInv, NEW l \in Links, Reload(l) PROVE LinksInv'
<1> DEFINE y == IF Exists(Pair) THEN Loaded(link[l], keys[Pair]) ELSE link[l]
<1>1. link[l] \in Link /\ now \in Nat
  BY LinkHonest DEF Honest
<1>2. link[l].heard = NoSecret
  BY LinksAssumption DEF Reload, LinksInv, Reloads
<1>3. ASSUME Exists(Pair)
      PROVE  Loaded(link[l], keys[Pair]) \in Link /\ Loaded(link[l], keys[Pair]).heard = NoSecret
  <2>1. keys[Pair] \in Entry
    BY <1>3, ExistingType, PairAssumption
  <2> QED BY <1>1, <1>2, <2>1, LoadedType
<1>4. y \in Link /\ y.heard = NoSecret
  BY <1>1, <1>2, <1>3
<1>5. link' = [link EXCEPT ![l] = y] /\ reloading' = NoLink /\ UNCHANGED <<now, savers>>
  BY DEF Reload
<1> HIDE DEF y
<1>6. LinkTypes'
  BY <1>4, <1>5 DEF LinksInv, LinkTypes
<1>7. Reloads'
  BY <1>5 DEF Reloads
<1>8. HeardWithKey'
  <2> SUFFICES ASSUME NEW k \in Links, link'[k].signs = TRUE, link'[k].heard # NoSecret
               PROVE  link'[k].heard = link'[k].secret
    BY DEF HeardWithKey
  <2>1. link'[l] = y
    BY <1>5 DEF LinksInv, LinkTypes
  <2>2. k # l
    BY <1>4, <2>1
  <2> QED BY <1>5, <2>2 DEF LinksInv, LinkTypes, HeardWithKey
<1> QED BY <1>6, <1>7, <1>8 DEF LinksInv

\* The child ends.
LEMMA SessionEndsStep == ASSUME LinksInv, SessionEnds PROVE LinksInv'
<1>1. Closed \in Link
  BY SecretsAssumption DEF Closed, Link
<1>2. link' \in [Links -> Link]
  BY <1>1 DEF SessionEnds
<1>3. LinkTypes'
  BY <1>2 DEF SessionEnds, LinksInv, LinkTypes
<1>4. Reloads'
  BY DEF SessionEnds, Reloads
<1>5. HeardWithKey'
  BY DEF SessionEnds, HeardWithKey, Closed
<1> QED BY <1>3, <1>4, <1>5 DEF LinksInv

\* Time.
LEMMA TickStep == ASSUME LinksInv, Tick PROVE LinksInv'
<1>1. ASSUME NEW l \in Links
      PROVE  /\ link'[l] \in Link /\ link'[l].signs = link[l].signs
             /\ link'[l].heard = link[l].heard /\ link'[l].secret = link[l].secret
             /\ link'[l].loaded = link[l].loaded
  BY DEF LinksInv, LinkTypes, Tick, Link
<1>2. link' \in [Links -> Link]
  BY <1>1 DEF Tick
<1>3. LinkTypes'
  BY <1>2 DEF LinksInv, LinkTypes, Tick
<1>4. Reloads'
  BY <1>1, LinksAssumption DEF Tick, LinksInv, LinkTypes, Reloads
<1>5. HeardWithKey'
  BY <1>1 DEF LinksInv, HeardWithKey
<1> QED BY <1>3, <1>4, <1>5 DEF LinksInv

\* Steps that leave the links and the clock alone, savers that are done apart.
LEMMA LinksSame ==
  ASSUME LinksInv, UNCHANGED <<now, link, reloading>>, savers' \subseteq savers
  PROVE  LinksInv'
BY DEF LinksInv, LinkTypes, Reloads, HeardWithKey

\* SETUP_SIGNING keeps the types of the entries.
LEMMA SetupKeys ==
  ASSUME KeyTypes, NEW l \in Links, NEW s \in Secrets, NEW t \in Nat, KeysAsEdited,
         NEW new \in Secrets, NEW initial \in Nat, SetupSigning(l, s, t, new, initial)
  PROVE  KeyTypes' /\ KeysAsEdited'
<1>1. CASE ~Exists(Pair)
  BY <1>1 DEF SetupSigning, KeyTypes, KeysAsEdited, Exists
<1>2. CASE Exists(Pair)
  <2> DEFINE e == [keys[Pair] EXCEPT !.secret = new, !.stamp = initial]
             d == [edited[Pair] EXCEPT !.secret = new]
  <2>1. keys[Pair] \in Entry /\ edited[Pair] = Edited(keys[Pair])
    BY <1>2, ExistingType, PairAssumption DEF KeysAsEdited
  <2>2. e \in Entry
    BY <2>1 DEF Entry
  <2>3. d = Edited(e)
    BY <2>1 DEF Edited, Entry
  <2>4. d \in [port1 : Port1s, admin : BOOLEAN, secret : Secrets]
    BY <2>2, <2>3, EditedType
  <2>5. /\ keys' = [keys EXCEPT ![Pair] = e] /\ edited' = [edited EXCEPT ![Pair] = d]
        /\ given' = [given EXCEPT ![Pair] = initial] /\ bare' = FALSE
    BY <1>2 DEF SetupSigning
  <2> HIDE DEF e, d
  <2>6. KeyTypes'
    BY <2>2, <2>4, <2>5 DEF KeyTypes
  <2>7. e # NoEntry
    BY <2>2, EntryExists
  <2>8. KeysAsEdited'
    BY <2>3, <2>5, <2>7 DEF KeysAsEdited, KeyTypes, Exists
  <2> QED BY <2>6, <2>8
<1> QED BY <1>1, <1>2

\* A saver keeps them too.
LEMMA SaveKeysType ==
  ASSUME KeyTypes, now \in Nat, NEW t \in Nat, Save(t)
  PROVE  /\ KeyTypes'
         /\ \A p \in Port2s :
              \/ keys'[p] = keys[p]
              \/ /\ Exists(p) /\ Exists(p)' /\ Edited(keys'[p]) = Edited(keys[p])
                 /\ keys'[p].stamp >= keys[p].stamp
                 /\ keys'[p].stamp <= Larger(keys[p].stamp, now)
<1>1. CASE ~Exists(Pair)
  BY <1>1 DEF Save, SaveKeys, KeyTypes
<1>2. CASE Exists(Pair)
  <2> DEFINE e == Saved(t, keys[Pair])
  <2>1. keys[Pair] \in Entry
    BY <1>2, ExistingType, PairAssumption
  <2>2. /\ e \in Entry /\ Edited(e) = Edited(keys[Pair])
        /\ e.stamp >= keys[Pair].stamp /\ e.stamp <= Larger(keys[Pair].stamp, now)
    BY <2>1, SavedType
  <2>3. keys' = [keys EXCEPT ![Pair] = e] /\ UNCHANGED <<edited, given>> /\ bare' = FALSE
    BY <1>2 DEF Save, SaveKeys
  <2> HIDE DEF e
  <2>4. KeyTypes'
    BY <2>2, <2>3 DEF KeyTypes
  <2>5. e # NoEntry
    BY <2>2, EntryExists
  <2>6. ASSUME NEW p \in Port2s, keys'[p] # keys[p]
        PROVE  p = Pair /\ keys'[p] = e
    BY <2>3, <2>6 DEF KeyTypes
  <2> QED BY <1>2, <2>2, <2>4, <2>5, <2>6 DEF Exists
<1> QED BY <1>1, <1>2

----------------------------------------------------------------------------
(* The inductive invariant *)

KeysInv == KeyTypes /\ KeysAsEdited /\ NoDrift
\* What every step keeps: the entries' part and the links' part.
Inv == KeysInv /\ LinksInv

\* It holds initially: no entry, no link.
LEMMA InitInv == Init => Inv
<1> SUFFICES ASSUME Init PROVE Inv
  OBVIOUS
<1>1. Closed \in Link /\ Closed.heard = NoSecret
  BY SecretsAssumption DEF Closed, Link
<1>2. LinksInv
  BY <1>1 DEF Init, LinksInv, LinkTypes, Reloads, HeardWithKey
<1>3. KeyTypes
  BY DEF Init, KeysInit, KeyTypes
<1>4. KeysAsEdited /\ NoDrift
  BY DEF Init, KeysInit, KeysAsEdited, NoDrift, Exists
<1> QED BY <1>2, <1>3, <1>4 DEF Inv, KeysInv

\* Edits with one of the three effects keep entries as edited and not ahead.
LEMMA EditStep == ASSUME KeysInv, now \in Nat, KeysNext, now' = now PROVE KeysInv'
<1>1. KeyTypes' /\ \A r \in Port2s : Effect(r)
  BY EditEffect DEF KeysInv
<1>2. KeysAsEdited'
  <2> SUFFICES ASSUME NEW p \in Port2s
               PROVE  edited'[p] = IF Exists(p)' THEN Edited(keys'[p]) ELSE NoEntry
    BY DEF KeysAsEdited
  <2>1. Effect(p)
    BY <1>1
  <2> QED BY <2>1, EntryExists DEF Effect, KeysInv, KeysAsEdited, Exists
<1>3. NoDrift'
  <2> SUFFICES ASSUME NEW p \in Port2s, Exists(p)'
               PROVE  keys'[p].stamp <= Larger(now', given'[p])
    BY DEF NoDrift
  <2>1. given'[p] \in Nat /\ Larger(now', given'[p]) \in Nat
    BY <1>1, Extremes DEF KeyTypes
  <2>2. CASE keys'[p] = keys[p] /\ given'[p] = given[p]
    BY <2>2 DEF KeysInv, NoDrift, Exists
  <2>3. CASE keys'[p].stamp = 0
    BY <2>1, <2>3
  <2>4. CASE Exists(p) /\ keys'[p].stamp = keys[p].stamp /\ given'[p] = given[p]
    BY <2>4 DEF KeysInv, NoDrift
  <2>5. Effect(p) /\ keys'[p] # NoEntry
    BY <1>1 DEF Exists
  <2> QED BY <2>2, <2>3, <2>4, <2>5 DEF Effect
<1> QED BY <1>1, <1>2, <1>3 DEF KeysInv

\* A saver does.
LEMMA SaveStep == ASSUME KeysInv, now \in Nat, NEW t \in Nat, Save(t) PROVE KeysInv'
<1>1. KeyTypes'
  BY SaveKeysType DEF KeysInv
<1>2. ASSUME NEW p \in Port2s
      PROVE  \/ keys'[p] = keys[p]
             \/ /\ Exists(p) /\ Exists(p)' /\ Edited(keys'[p]) = Edited(keys[p])
                /\ keys'[p].stamp <= Larger(keys[p].stamp, now)
  BY SaveKeysType DEF KeysInv
<1>3. UNCHANGED <<edited, given, now>>
  BY DEF Save
<1>4. KeysAsEdited'
  BY <1>2, <1>3 DEF KeysInv, KeysAsEdited, Exists
<1>5. NoDrift'
  <2> SUFFICES ASSUME NEW p \in Port2s, Exists(p)'
               PROVE  keys'[p].stamp <= Larger(now, given[p])
    BY <1>3 DEF NoDrift
  <2>1. CASE keys'[p] = keys[p]
    BY <2>1 DEF KeysInv, NoDrift, Exists
  <2>2. CASE Exists(p) /\ keys'[p].stamp <= Larger(keys[p].stamp, now)
    <3>1. keys[p].stamp \in Nat /\ given[p] \in Nat /\ keys'[p].stamp \in Nat
      BY <1>1, <2>2, ExistingType DEF KeysInv, KeyTypes, Entry, Exists
    <3>2. keys[p].stamp <= Larger(now, given[p])
      BY <2>2 DEF KeysInv, NoDrift
    <3> QED BY <2>2, <3>1, <3>2 DEF Larger
  <2> QED BY <1>2, <2>1, <2>2
<1> QED BY <1>1, <1>4, <1>5 DEF KeysInv

\* SETUP_SIGNING gives the entry the timestamp it stores.
LEMMA SetupKeysStep ==
  ASSUME KeysInv, NEW l \in Links, NEW s \in Secrets, NEW t \in Nat, now \in Nat,
         NEW new \in Secrets, NEW initial \in Nat, SetupSigning(l, s, t, new, initial)
  PROVE  KeysInv'
<1>1. KeyTypes' /\ KeysAsEdited'
  BY SetupKeys DEF KeysInv
<1>2. NoDrift'
  <2> SUFFICES ASSUME NEW p \in Port2s, Exists(p)'
               PROVE  keys'[p].stamp <= Larger(now, given'[p])
    BY DEF NoDrift, SetupSigning
  <2>1. CASE keys'[p] = keys[p] /\ given'[p] = given[p]
    BY <2>1 DEF KeysInv, NoDrift, Exists
  <2>2. CASE p = Pair /\ Exists(Pair)
    <3>1. keys[Pair] \in Entry
      BY <2>2, ExistingType, PairAssumption DEF KeysInv
    <3>2. keys'[p].stamp = initial /\ given'[p] = initial
      BY <2>2, <3>1 DEF SetupSigning, KeysInv, KeyTypes, Entry
    <3> QED BY <3>2, Extremes
  <2>3. CASE ~(p = Pair /\ Exists(Pair))
    BY <2>1, <2>3 DEF SetupSigning, KeysInv, KeyTypes
  <2> QED BY <2>2, <2>3
<1> QED BY <1>1, <1>2 DEF KeysInv

\* Steps that leave keys.tdb alone, while time only goes on.
LEMMA KeysSame ==
  ASSUME KeysInv, UNCHANGED <<keys, edited, given>>, bare' \in BOOLEAN,
         now \in Nat, now' \in Nat, now' >= now
  PROVE  KeysInv'
<1>1. KeyTypes' /\ KeysAsEdited'
  BY DEF KeysInv, KeyTypes, KeysAsEdited, Exists
<1>2. ASSUME NEW p \in Port2s, Exists(p)
      PROVE  keys[p].stamp <= Larger(now', given[p])
  <2>1. keys[p].stamp \in Nat /\ given[p] \in Nat
    BY <1>2, ExistingType DEF KeysInv, KeyTypes, Entry
  <2>2. keys[p].stamp <= Larger(now, given[p])
    BY <1>2 DEF KeysInv, NoDrift
  <2> QED BY <2>1, <2>2 DEF Larger
<1>3. NoDrift'
  BY <1>2 DEF NoDrift, Exists
<1> QED BY <1>1, <1>3 DEF KeysInv

\* Steps of the child that do not write keys.tdb.
LEMMA KeysQuiet ==
  ASSUME KeysInv, UNCHANGED <<keys, edited, given, now>>, bare' = FALSE, now \in Nat
  PROVE  KeysInv'
<1>1. bare' \in BOOLEAN
  OBVIOUS
<1>2. now' \in Nat /\ now' >= now
  OBVIOUS
<1> QED BY <1>1, <1>2, KeysSame

\* Every step keeps it.
LEMMA NextInv == Inv /\ [Next]_vars => Inv'
<1> SUFFICES ASSUME Inv, [Next]_vars PROVE Inv'
  OBVIOUS
<1>0. KeysInv /\ KeyTypes /\ LinksInv /\ now \in Nat /\ savers \subseteq Nat /\ Clocks \subseteq Nat
  BY ClocksType DEF Inv, KeysInv, LinksInv, LinkTypes
<1>1. CASE EditKeys
  <2>1. KeysInv'
    BY <1>0, <1>1, EditStep DEF EditKeys
  <2>2. LinksInv'
    BY <1>0, <1>1, LinksSame DEF EditKeys, signVars
  <2> QED BY <2>1, <2>2 DEF Inv
<1>2. ASSUME NEW l \in Links, Connect(l) \/ Send(l) \/ ReceiveBad(l) \/ Reload(l) PROVE Inv'
  <2>1. KeysInv'
    BY <1>0, <1>2, KeysQuiet DEF Connect, Send, ReceiveBad, Reload
  <2>2. LinksInv'
    BY <1>0, <1>2, ConnectStep, SendStep, ReceiveBadStep, ReloadStep
  <2> QED BY <2>1, <2>2 DEF Inv
<1>3. ASSUME NEW l \in Links, NEW s \in Secrets, NEW t \in Clocks, ReceiveGood(l, s, t) PROVE Inv'
  <2>1. KeysInv'
    BY <1>0, <1>3, KeysQuiet DEF ReceiveGood
  <2>2. LinksInv'
    BY <1>0, <1>3, ReceiveGoodStep
  <2> QED BY <2>1, <2>2 DEF Inv
<1>4. ASSUME NEW l \in Links, NEW s \in Secrets, NEW t \in Clocks, NEW new \in Secrets,
             NEW initial \in Clocks, SetupSigning(l, s, t, new, initial)
      PROVE  Inv'
  <2>1. t \in Nat /\ initial \in Nat
    BY <1>0
  <2>2. KeysInv'
    BY <1>0, <1>4, <2>1, SetupKeysStep
  <2>3. LinksInv'
    BY <1>0, <1>4, <2>1, SetupStep
  <2> QED BY <2>2, <2>3 DEF Inv
<1>5. CASE SessionEnds
  <2>1. KeysInv'
    BY <1>0, <1>5, KeysQuiet DEF SessionEnds
  <2>2. LinksInv'
    BY <1>0, <1>5, SessionEndsStep
  <2> QED BY <2>1, <2>2 DEF Inv
<1>6. ASSUME NEW t \in savers, Save(t) PROVE Inv'
  <2>1. t \in Nat
    BY <1>0
  <2>2. KeysInv'
    BY <1>0, <1>6, <2>1, SaveStep
  <2>3. LinksInv'
    BY <1>0, <1>6, LinksSame DEF Save
  <2> QED BY <2>2, <2>3 DEF Inv
<1>7. ASSUME NEW t \in savers, SaveFails(t) PROVE Inv'
  <2>1. KeysInv'
    BY <1>0, <1>7, KeysQuiet DEF SaveFails
  <2>2. LinksInv'
    BY <1>0, <1>7, LinksSame DEF SaveFails
  <2> QED BY <2>1, <2>2 DEF Inv
<1>8. CASE Tick
  <2>1. KeysInv'
    <3>1. UNCHANGED <<keys, edited, given>> /\ bare' = FALSE /\ now' = now + 1
      BY <1>8 DEF Tick
    <3>2. bare' \in BOOLEAN
      BY <3>1
    <3>3. now' \in Nat /\ now' >= now
      BY <1>0, <3>1
    <3> QED BY <1>0, <3>1, <3>2, <3>3, KeysSame
  <2>2. LinksInv'
    BY <1>0, <1>8, TickStep
  <2> QED BY <2>1, <2>2 DEF Inv
<1>9. CASE UNCHANGED vars
  <2>1. KeysInv'
    BY <1>0, <1>9, KeysSame DEF vars, keyVars, KeysInv, KeyTypes
  <2>2. LinksInv'
    BY <1>0, <1>9, LinksSame DEF vars, signVars
  <2> QED BY <2>1, <2>2 DEF Inv
<1> QED BY <1>1, <1>2, <1>3, <1>4, <1>5, <1>6, <1>7, <1>8, <1>9 DEF Next

\* So it always holds.
LEMMA InvHolds == Spec => []Inv
BY InitInv, NextInv, PTL DEF Spec

----------------------------------------------------------------------------
(* Theorems *)

\* The variables of the child's links, its savers and keys.tdb keep their types.
THEOREM TypeCorrect == Spec => []TypeOK
<1>1. Inv => TypeOK
  BY DEF Inv, KeysInv, LinksInv, TypeOK
<1> QED BY <1>1, InvHolds, PTL

\* save_signing_timestamp() caps at the clock: the buffer of load_signing_key() never
\* compounds over sessions, whatever savers are late.
THEOREM NoDriftCorrect == Spec => []NoDrift
<1>1. Inv => NoDrift
  BY DEF Inv, KeysInv
<1> QED BY <1>1, InvHolds, PTL

\* So load_signing_key() gives a link a timestamp that a peer with the right clock is
\* not refused for, unless the entry was given a timestamp in the future.
THEOREM NewLinkCorrect ==
  Spec => [](\A p \in Port2s : Exists(p) /\ given[p] <= now => LoadedStamp(keys[p]) <= now + Limit)
<1>1. ASSUME Inv, NEW p \in Port2s, Exists(p), given[p] <= now
      PROVE  LoadedStamp(keys[p]) <= now + Limit
  <2>1. keys[p].stamp \in Nat /\ given[p] \in Nat /\ now \in Nat
    BY <1>1, ExistingType DEF Inv, KeysInv, LinksInv, LinkTypes, KeyTypes, Entry
  <2>2. keys[p].stamp <= Larger(now, given[p])
    BY <1>1 DEF Inv, KeysInv, NoDrift
  <2> QED BY <1>1, <2>1, <2>2, TimesAssumption DEF Larger, LoadedStamp
<1>2. Inv => \A p \in Port2s : Exists(p) /\ given[p] <= now => LoadedStamp(keys[p]) <= now + Limit
  BY <1>1
<1> QED BY <1>2, InvHolds, PTL

\* save_signing_timestamp() and the child's counters fetch the entry again in their
\* transaction: they undo no edit and bring no entry back.
THEOREM KeysCorrect == Spec => []KeysAsEdited
<1>1. Inv => KeysAsEdited
  BY DEF Inv, KeysInv
<1> QED BY <1>1, InvHolds, PTL

\* handle_setup_signing() clears got_signed_packet, so it never stands for an old key.
THEOREM HeardCorrect == Spec => []HeardWithKey
<1>1. Inv => HeardWithKey
  BY DEF Inv, LinksInv
<1> QED BY <1>1, InvHolds, PTL
=============================================================================
