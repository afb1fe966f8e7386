------------------------------ MODULE Signing ------------------------------
(***************************************************************************)
(* Signing on the links of one pair's child (class MAVLink), over the keys *)
(* of KeyDb.  A link takes its key and timestamp from keys.tdb when it is  *)
(* set up; while it sends, the child raises the timestamps of its links    *)
(* and forks savers that write them back; a SETUP_SIGNING message stores a *)
(* new key.  Links are mavlink channels: the engineers' and, with          *)
(* bidirectional signing, the user's.  Time is in units of 10 s.           *)
(***************************************************************************)
EXTENDS KeyDb

CONSTANTS
  Pair,     \* the support port whose child is modelled
  Links,    \* channels of the child that may sign
  Buffer,   \* what load_signing_key() adds to a saved timestamp
  Limit,    \* MAVLINK_SIGNING_TIMESTAMP_LIMIT
  Ahead,    \* bound: how far a peer's clock runs ahead
  MaxNow,   \* bound: time
  MaxSavers \* bound: different timestamps waiting to be saved

NoSecret == "none"
NoLink == "none"

ASSUME PairAssumption == Pair \in Port2s
ASSUME LinksAssumption == NoLink \notin Links
ASSUME SecretAssumption == NoSecret \notin Secrets
ASSUME TimesAssumption ==
  /\ Buffer \in Nat /\ Limit \in Nat /\ Ahead \in Nat /\ MaxNow \in Nat
  /\ Buffer <= Limit

VARIABLES
  now,       \* the wall clock
  link,      \* the MAVLink objects with their channel's mavlink status
  reloading, \* the link that has stored a new key and not loaded it yet
  savers     \* timestamps carried by forked savers that have not written yet

signVars == <<link, reloading, savers>>
vars == <<keyVars, now, signVars>>

Larger(a, b) == IF a > b THEN a ELSE b
Smaller(a, b) == IF a < b THEN a ELSE b

\* heard: got_signed_packet, with the key of the packet.  signs: the channel's
\* status points at the link's signing data.  due: 10 s since the last save.
Link == [loaded : BOOLEAN, signs : BOOLEAN, secret : Secrets, ts : Nat,
         heard : Secrets \union {NoSecret}, due : BOOLEAN]
Closed == [loaded |-> FALSE, signs |-> FALSE, secret |-> ZeroKey, ts |-> 0,
           heard |-> NoSecret, due |-> TRUE]

Init ==
  /\ KeysInit
  /\ now = 0 /\ link = [l \in Links |-> Closed] /\ reloading = NoLink /\ savers = {}

----------------------------------------------------------------------------
(* Loading and raising *)

\* load_signing_key() of entry e: the saved timestamp and the buffer, or the
\* clock if that is later; the zero key with timestamp 0 turns signing off.
LoadedStamp(e) == Larger(now, e.stamp + Buffer)
Loaded(x, e) ==
  [x EXCEPT !.loaded = TRUE, !.secret = e.secret, !.ts = LoadedStamp(e),
            !.signs = ~(e.stamp = 0 /\ e.secret = ZeroKey)]

\* update_signing_timestamp(): every channel that signs is raised to the clock.
Raised(ls) ==
  [l \in Links |-> IF ls[l].signs = TRUE THEN [ls[l] EXCEPT !.ts = Larger(@, now)] ELSE ls[l]]
Signing(ls) == {l \in Links : ls[l].signs = TRUE}
\* The saver works on the copy fork() gives it, the latest of its channels.
Carried(ls) == {ls[l].ts : l \in {k \in Signing(ls) :
                                    \A j \in Signing(ls) : ls[j].ts <= ls[k].ts}}
Update(ls) ==
  /\ link' = Raised(ls)
  /\ \/ savers' = savers \union Carried(Raised(ls))
     \/ savers' = savers  \* fork() failed
  /\ Cardinality(savers') <= MaxSavers

\* MAVLink::init() with signing required; the zeroed object keeps the channel's
\* signing pointer.
Reset(x) == [Closed EXCEPT !.signs = x.signs, !.due = FALSE]
Connect(l) ==
  /\ reloading = NoLink
  /\ LET x == Reset(link[l]) IN
       Update([link EXCEPT ![l] = IF Exists(Pair) THEN Loaded(x, keys[Pair]) ELSE x])
  /\ bare' = FALSE
  /\ UNCHANGED <<keys, edited, given, now, reloading>>

\* send_message(): a HEARTBEAT goes out always, the rest once a signed packet was
\* heard; with a key loaded the timestamps are raised every 10 s.
Send(l) ==
  /\ reloading = NoLink
  /\ link[l].loaded = TRUE /\ link[l].due = TRUE
  /\ Update([link EXCEPT ![l].due = FALSE])
  /\ bare' = FALSE
  /\ UNCHANGED <<keys, edited, given, now, reloading>>

----------------------------------------------------------------------------
(* Receiving: receive_message() *)

\* mavlink's check of a signature: the link's key, and a timestamp later than
\* any before; on a new stream it may be older by the limit.
Accepts(x, s, t) == x.signs = FALSE \/ (s = x.secret /\ t + Limit >= x.ts)
Heard(x, s, t) ==
  [x EXCEPT !.heard = s, !.ts = IF x.signs = TRUE THEN Larger(@, t) ELSE @]

ReceiveGood(l, s, t) ==
  /\ reloading = NoLink
  /\ link[l].loaded = TRUE /\ Accepts(link[l], s, t)
  /\ link' = [link EXCEPT ![l] = Heard(@, s, t)]
  /\ bare' = FALSE
  /\ UNCHANGED <<keys, edited, given, now, reloading, savers>>

\* Unsigned, or a signature that does not match or was used before; the first
\* two bad ones that a warning is due for leave got_signed_packet alone.
ReceiveBad(l) ==
  /\ reloading = NoLink
  /\ link[l].loaded = TRUE
  /\ link' = [link EXCEPT ![l].heard = NoSecret]
  /\ bare' = FALSE
  /\ UNCHANGED <<keys, edited, given, now, reloading, savers>>

\* Mutant: the engineer need not sign with the new key.
SetupHeardKept(x, s, t) == Heard(x, s, t)
SetupHeard(x, s, t) == [Heard(x, s, t) EXCEPT !.heard = NoSecret]

\* handle_setup_signing(): a signed SETUP_SIGNING stores key and timestamp, if the
\* entry is still there; the link loads them afterwards, outside the transaction.
SetupSigning(l, s, t, new, initial) ==
  /\ reloading = NoLink
  /\ link[l].loaded = TRUE /\ Accepts(link[l], s, t)
  /\ IF Exists(Pair)
     THEN /\ keys' = [keys EXCEPT ![Pair].secret = new, ![Pair].stamp = initial]
          /\ edited' = [edited EXCEPT ![Pair].secret = new]
          /\ given' = [given EXCEPT ![Pair] = initial]
          /\ link' = [link EXCEPT ![l] = SetupHeard(@, s, t)]
          /\ reloading' = l
     ELSE /\ link' = [link EXCEPT ![l] = Heard(@, s, t)]
          /\ UNCHANGED <<keys, edited, given, reloading>>
  /\ bare' = FALSE
  /\ UNCHANGED <<now, savers>>

Reload(l) ==
  /\ reloading = l
  /\ reloading' = NoLink
  /\ link' = [link EXCEPT ![l] = IF Exists(Pair) THEN Loaded(@, keys[Pair]) ELSE @]
  /\ bare' = FALSE
  /\ UNCHANGED <<keys, edited, given, now, savers>>

\* The child ends; its counters go into the entry in a transaction of their own.
SessionEnds ==
  /\ reloading = NoLink
  /\ link' = [l \in Links |-> Closed]
  /\ bare' = FALSE
  /\ UNCHANGED <<keys, edited, given, now, reloading, savers>>

----------------------------------------------------------------------------
(* The savers: save_signing_timestamp() *)

\* Mutant: the link's timestamp, buffer included, goes into the database.
SavedUncapped(t, e) == [e EXCEPT !.stamp = Larger(@, t)]
\* Fetched again in the transaction, capped at the clock, and only raised.
Saved(t, e) == [e EXCEPT !.stamp = Larger(@, Smaller(t, now))]

\* Mutant: load_key() failing is not looked at.
SaveKeysAlways(t) == [keys EXCEPT ![Pair] =
  Saved(t, IF Exists(Pair) THEN @ ELSE NewEntry(CHOOSE q \in Port1s : TRUE, ZeroKey))]
SaveKeys(t) == IF Exists(Pair) THEN [keys EXCEPT ![Pair] = Saved(t, @)] ELSE keys

\* One element of savers stands for all that carry the same timestamp.
Save(t) ==
  /\ keys' = SaveKeys(t)
  /\ savers' \in {savers, savers \ {t}}
  /\ bare' = FALSE
  /\ UNCHANGED <<edited, given, now, link, reloading>>

\* keys.tdb cannot be opened.
SaveFails(t) ==
  /\ savers' = savers \ {t}
  /\ bare' = FALSE
  /\ UNCHANGED <<keys, edited, given, now, link, reloading>>

----------------------------------------------------------------------------
Tick ==
  /\ now < MaxNow /\ now' = now + 1
  /\ link' = [l \in Links |-> [link[l] EXCEPT !.due = TRUE]]
  /\ bare' = FALSE
  /\ UNCHANGED <<keys, edited, given, reloading, savers>>

\* What a peer's clock may say.
Clocks == 0..(now + Ahead)

EditKeys == KeysNext /\ UNCHANGED <<now, signVars>>
Next ==
  \/ EditKeys
  \/ \E l \in Links :
       \/ Connect(l) \/ Send(l) \/ ReceiveBad(l) \/ Reload(l)
       \/ \E s \in Secrets, t \in Clocks :
            \/ ReceiveGood(l, s, t)
            \/ \E new \in Secrets, initial \in Clocks : SetupSigning(l, s, t, new, initial)
  \/ SessionEnds
  \/ \E t \in savers : Save(t) \/ SaveFails(t)
  \/ Tick

Spec == Init /\ [][Next]_vars

----------------------------------------------------------------------------
(* Properties *)

KeyTypes ==
  /\ keys \in [Port2s -> Entry \union {NoEntry}]
  /\ edited \in [Port2s -> [port1 : Port1s, admin : BOOLEAN, secret : Secrets] \union {NoEntry}]
  /\ given \in [Port2s -> Nat]
  /\ bare \in BOOLEAN
LinkTypes ==
  /\ now \in Nat /\ link \in [Links -> Link]
  /\ reloading \in Links \union {NoLink} /\ savers \subseteq Nat
\* The link that is to load its key has one already and has heard nothing since.
Reloads == reloading # NoLink => link[reloading].loaded = TRUE /\ link[reloading].heard = NoSecret
TypeOK == KeyTypes /\ LinkTypes /\ Reloads

\* A saved timestamp is never later than the clock, or than the one it was given
\* since the last reset: neither the buffer of repeated loads, nor a peer whose
\* clock is ahead, nor a saver that was forked before a reset parks it in the
\* future ("letting the buffer compound across sequential short-lived sessions").
NoDrift == \A p \in Port2s : Exists(p) => keys[p].stamp <= Larger(now, given[p])

\* Whatever savers and sessions do, entries are there and say what owners,
\* administrators and SETUP_SIGNING last made of them: no edit is undone and no
\* removed entry comes back.
KeysAsEdited ==
  \A p \in Port2s : edited[p] = IF Exists(p) THEN Edited(keys[p]) ELSE NoEntry

\* got_signed_packet means that the peer has signed with the key the link holds
\* now, also after SETUP_SIGNING and after edits of the key between store and load.
HeardWithKey ==
  \A l \in Links : link[l].signs = TRUE /\ link[l].heard # NoSecret
                     => link[l].heard = link[l].secret

Clash(p, r) == keys[p].port1 \in {keys[r].port1, r} \/ keys[r].port1 = p
Clashes == {c \in Entries \X Entries : c[1] # c[2] /\ Clash(c[1], c[2])}
\* "Prevents duplicate port assignments": two entries come to share a port number
\* only by keydb.py setport1, which does not look.
NoNewClash == [][~bare' => Clashes' \subseteq Clashes]_vars

\* "Refusing to revoke admin from the last admin": the web pages leave an
\* administrator where there was one, whatever requests and keydb.py calls come
\* between; keydb.py clearflag and remove need not.
AdminStays == [][~bare' /\ Admins # {} => Admins' # {}]_vars
=============================================================================
