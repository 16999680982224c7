----------------------------- MODULE AuthRecord -----------------------------
(***************************************************************************)
(* The panel's credentials file auth.json and everything that rewrites it: *)
(* the panel's settings handlers, which read the file, check it and call   *)
(* the helper; the helper's operations, which read the file again, change  *)
(* a copy and rename it into place; and the panel-auth command.  No lock   *)
(* covers the read and the write, and the helper runs several operations   *)
(* at once, so requests overlap in any order: the record may change        *)
(* between the handler's check and the helper's read, and between that and *)
(* the rename, which then brings the older record back.  The history       *)
(* variable lost says what of the record rests on such a rewrite.          *)
(***************************************************************************)
EXTENDS Integers, FiniteSets

CONSTANTS Requests,     \* requests that may be in flight together
          GitHubUsers,  \* login names that may be allowed
          Accounts,     \* GitHub account numbers
          ClientIds,    \* OAuth client ids, without the blank one
          MaxRequests,  \* bound: requests started in a behaviour
          None          \* no value: the blank string, an unbound name

Secret == "secret"

ASSUME NoneIsNoValue == None \notin ClientIds \cup Accounts \cup {Secret}
ASSUME BoundsAreNat == MaxRequests \in Nat

VARIABLES rec,      \* auth.json
          req,      \* the request in each slot
          pending,  \* Server.pendingTOTP: a secret was generated and is fresh
          keys,     \* session keys generated so far; each one is new
          lost,     \* history: what rests on a rewrite that was overtaken
          retired,  \* history: keys whose sessions were declared void
          proved,   \* history: OAuth credentials GitHub accepted a login with
          started   \* history: requests started

authVars == <<rec, req, pending, keys, lost, retired, proved, started>>

\* The user name is left out: no check of these handlers depends on it.
Record == [set : BOOLEAN, key : Nat, disabled : BOOLEAN,
           totp : BOOLEAN, id : ClientIds \cup {None}, secret : {Secret, None},
           users : SUBSET GitHubUsers, verified : BOOLEAN,
           bound : [GitHubUsers -> Accounts \cup {None}]]

Blank == [set |-> FALSE, key |-> 0, disabled |-> FALSE,
          totp |-> FALSE, id |-> None, secret |-> None, users |-> {},
          verified |-> FALSE, bound |-> [u \in GitHubUsers |-> None]]

\* What the properties say of a record: the session key is not a revoked one,
\* there is a way in, what counts as verified was proved.
Aspects == {"key", "way", "proof"}

\* stale: what was wrong with the record the helper read, or has changed in it
\* since the handler checked it.
Request(pc, op, arg) == [pc |-> pc, op |-> op, arg |-> arg, base |-> Blank,
                         stale |-> {}, heard |-> TRUE]
NoRequest == Request("idle", "none", <<>>)

oauthReady(r) == r.id # None /\ r.secret # None /\ r.users # {}

(***************************************************************************)
(* What each operation makes of the record it read.                        *)
(***************************************************************************)

\* A new hash and session key; user name, TOTP and OAuth settings are kept.
passwordRecord(r, key, reenable) ==
    [r EXCEPT !.set = TRUE, !.key = key, !.disabled = @ /\ ~reenable]

oauthCredentialReplaced(old, in) ==
    \/ in.id # old.id
    \/ in.secret # None /\ in.secret # old.secret

boundIDsFor(users, bound) == [u \in GitHubUsers |-> IF u \in users THEN bound[u] ELSE None]

\* The settings page sends id, secret and users; a blank secret keeps the old.
MergeOAuthConfig(r, in) ==
    [set |-> r.set, key |-> r.key, disabled |-> r.disabled, totp |-> r.totp,
     id |-> in.id,
     secret |-> IF in.secret = None THEN r.secret ELSE in.secret,
     users |-> in.users,
     verified |-> r.verified /\ ~oauthCredentialReplaced(r, in),
     bound |-> boundIDsFor(in.users, r.bound)]

\* The callback sends verified_once and the bindings as its handler saw them.
MergeOAuthVerified(r, in) == [r EXCEPT !.verified = TRUE, !.bound = in.bound]

\* The helper's update_panel_auth, by the key the update holds.
MergeAuthUpdate(r, op, in) ==
    CASE op = "oauth"    -> MergeOAuthConfig(r, in)
      [] op = "callback" -> MergeOAuthVerified(r, in)
      [] op = "toggle"   -> [r EXCEPT !.disabled = in]
      [] op = "totp"     -> [r EXCEPT !.totp = in]

\* A panel in use: a password, and OAuth set up and logged in with once.
Configured(id, users) ==
    [set |-> TRUE, key |-> 1, disabled |-> FALSE, totp |-> FALSE,
     id |-> id, secret |-> Secret, users |-> users, verified |-> TRUE,
     bound |-> [u \in GitHubUsers |-> None]]

(***************************************************************************)
(* The panel's handlers up to the call of the helper.                      *)
(***************************************************************************)
AuthInit ==
    /\ \/ rec \in {Blank, passwordRecord(Blank, 1, TRUE)} /\ proved = {}
       \/ \E id \in ClientIds, users \in (SUBSET GitHubUsers) \ {{}} :
            /\ rec = Configured(id, users)
            /\ proved = {<<id, Secret>>}
    /\ req = [q \in Requests |-> NoRequest]
    /\ pending = FALSE
    /\ keys = 1
    /\ lost = {}
    /\ retired = {}
    /\ started = 0

\* A handler read the record and its checks passed; the helper has the call.
Send(q, op, arg) ==
    /\ req[q].pc = "idle"
    /\ started < MaxRequests
    /\ started' = started + 1
    /\ req' = [req EXCEPT ![q] = Request("sent", op, arg)]
    /\ UNCHANGED <<rec, pending, keys, lost, retired, proved>>

passwordChange(q) == rec.set /\ Send(q, "password", <<>>)

authUsername(q) == rec.set /\ Send(q, "username", <<>>)

revokeSessions(q) == rec.set /\ Send(q, "rotate", <<>>)

\* The settings page may clear the OAuth settings at any time.
authOAuthUnchecked(q) ==
    \E in \in [id : ClientIds \cup {None}, secret : {Secret, None}, users : SUBSET GitHubUsers] :
        Send(q, "oauth", in)

\* With password login off, GitHub is the only way in: id and users must stay.
authOAuth(q) ==
    \E in \in [id : ClientIds \cup {None}, secret : {Secret, None}, users : SUBSET GitHubUsers] :
        /\ rec.disabled => in.id # None /\ in.users # {}
        /\ Send(q, "oauth", in)

passwordToggle(q) ==
    \E off \in BOOLEAN :
        /\ rec.set
        /\ off => oauthReady(rec) /\ rec.verified
        /\ Send(q, "toggle", off)

totpSetup ==
    /\ ~(rec.set /\ rec.totp)
    /\ ~pending
    /\ pending' = TRUE
    /\ UNCHANGED <<rec, req, keys, lost, retired, proved, started>>

\* Ten minutes after its setup the generated secret is refused.
PendingExpires ==
    /\ pending
    /\ pending' = FALSE
    /\ UNCHANGED <<rec, req, keys, lost, retired, proved, started>>

totpEnable(q) == pending /\ Send(q, "totp", TRUE)

totpDisable(q) == rec.set /\ Send(q, "totp", FALSE)

(***************************************************************************)
(* The GitHub callback reads the record, exchanges the code with that      *)
(* record's credential, and reads the record again for the user list.      *)
(***************************************************************************)
oauthCallback(q) ==
    /\ req[q].pc = "idle"
    /\ started < MaxRequests
    /\ oauthReady(rec)
    /\ started' = started + 1
    /\ req' = [req EXCEPT ![q] = Request("exchange", "callback",
                                         [id |-> rec.id, secret |-> rec.secret])]
    /\ UNCHANGED <<rec, pending, keys, lost, retired, proved>>

\* GitHub answered with an account; a name not allowed, or bound to another
\* account, ends the request.  A name bound and verified needs no update.
CallbackAnswered(q) ==
    /\ req[q].pc = "exchange"
    /\ proved' = proved \cup {<<req[q].arg.id, req[q].arg.secret>>}
    /\ \/ \E u \in rec.users, a \in Accounts :
            /\ rec.bound[u] \in {None, a}
            /\ IF rec.bound[u] = None \/ ~rec.verified
               THEN req' = [req EXCEPT ![q].pc = "sent",
                                       ![q].arg = [bound |-> [rec.bound EXCEPT ![u] = a]]]
               ELSE req' = [req EXCEPT ![q] = NoRequest]
       \/ req' = [req EXCEPT ![q] = NoRequest]
    /\ UNCHANGED <<rec, pending, keys, lost, retired, started>>

CallbackFailed(q) ==
    /\ req[q].pc = "exchange"
    /\ req' = [req EXCEPT ![q] = NoRequest]
    /\ UNCHANGED <<rec, pending, keys, lost, retired, proved, started>>

(***************************************************************************)
(* The helper: read the record, then rename the changed copy into place.   *)
(***************************************************************************)
loadAuthRecord(q) ==
    /\ req[q].pc = "sent"
    /\ req' = [req EXCEPT ![q].pc = "loaded", ![q].base = rec, ![q].stale = @ \cup lost]
    /\ UNCHANGED <<rec, pending, keys, lost, retired, proved, started>>

\* What a request's handler has checked of a record the helper has yet to read.
Rests(r) == IF r.pc \notin {"exchange", "sent"} THEN {}
            ELSE CASE r.op \in {"oauth", "toggle"} -> {"way"}
                   [] r.op = "callback" -> {"proof"}
                   [] OTHER -> {}

Changes(old, new) ==
    (IF <<old.disabled, oauthReady(old)>> # <<new.disabled, oauthReady(new)>> THEN {"way"} ELSE {})
    \cup (IF <<old.id, old.secret>> # <<new.id, new.secret>> THEN {"proof"} ELSE {})

\* The rename of a record made from the one the helper had read, whatever has
\* been written since; renewed is what the operation sets itself.
writeAuthRecord(q, record, renewed) ==
    /\ req[q].pc = "loaded"
    /\ rec' = record
    /\ lost' = (lost \cup req[q].stale \cup IF record.key # rec.key THEN {"key"} ELSE {}) \ renewed
    /\ req' = [p \in Requests |->
                 IF p = q
                 THEN IF req[p].heard THEN [req[p] EXCEPT !.pc = "written", !.stale = {}] ELSE NoRequest
                 ELSE [req[p] EXCEPT !.stale = @ \cup (Changes(rec, record) \cap Rests(req[p]))]]
    /\ UNCHANGED <<pending, retired, proved, started>>

opSetPanelPassword(q) ==
    /\ req[q].op = "password"
    /\ keys' = keys + 1
    /\ writeAuthRecord(q, passwordRecord(req[q].base, keys + 1, FALSE), {"key"})

opSetPanelUsername(q) ==
    /\ req[q].op = "username"
    /\ req[q].base.set
    /\ writeAuthRecord(q, req[q].base, {})
    /\ UNCHANGED keys

opRotateSessionKey(q) ==
    /\ req[q].op = "rotate"
    /\ req[q].base.set
    /\ keys' = keys + 1
    /\ writeAuthRecord(q, [req[q].base EXCEPT !.key = keys + 1], {"key"})

\* Password login is on again; another credential is not yet verified.
Settles(base, op, in) ==
    (IF op = "toggle" /\ in = FALSE THEN {"way"} ELSE {})
    \cup (IF op = "oauth" /\ oauthCredentialReplaced(base, in) THEN {"proof"} ELSE {})

opUpdatePanelAuth(q) ==
    /\ req[q].op \in {"oauth", "callback", "toggle", "totp"}
    /\ writeAuthRecord(q, MergeAuthUpdate(req[q].base, req[q].op, req[q].arg),
                       Settles(req[q].base, req[q].op, req[q].arg))
    /\ UNCHANGED keys

\* panel-auth set-password and disable-totp: processes of their own, which
\* check nothing beforehand.
CmdSetPassword(q) ==
    /\ req[q].op = "cli-password"
    /\ keys' = keys + 1
    /\ writeAuthRecord(q, passwordRecord(req[q].base, keys + 1, TRUE), {"key", "way"})

CmdDisableTOTP(q) ==
    /\ req[q].op = "cli-totp"
    /\ req[q].base.set /\ req[q].base.totp
    /\ writeAuthRecord(q, [req[q].base EXCEPT !.totp = FALSE], {})
    /\ UNCHANGED keys

cmdPanelAuth(q) == \E op \in {"cli-password", "cli-totp"} : Send(q, op, <<>>)

\* The write fails, the record is missing, or nothing has to change.
WriteFails(q) ==
    /\ req[q].pc = "loaded"
    /\ req' = [req EXCEPT ![q] = NoRequest]
    /\ UNCHANGED <<rec, pending, keys, lost, retired, proved, started>>

\* The panel's deadline passes: the handler fails, the helper goes on.
PanelTimeout(q) ==
    /\ req[q].pc \in {"sent", "loaded"}
    /\ req[q].heard
    /\ req' = [req EXCEPT ![q].heard = FALSE]
    /\ UNCHANGED <<rec, pending, keys, lost, retired, proved, started>>

\* The handler hears of the success: it declares the other sessions void and
\* renews its own, or forgets the generated secret.
Reply(q) ==
    /\ req[q].pc = "written"
    /\ req' = [req EXCEPT ![q] = NoRequest]
    /\ retired' = IF req[q].op \in {"password", "rotate", "cli-password"}
                  THEN retired \cup {req[q].base.key} ELSE retired
    /\ pending' = (pending /\ ~(req[q].op = "totp" /\ req[q].arg))
    /\ UNCHANGED <<rec, keys, lost, proved, started>>

AuthNext ==
    \/ totpSetup \/ PendingExpires
    \/ \E q \in Requests :
        \/ passwordChange(q) \/ authUsername(q) \/ revokeSessions(q)
        \/ authOAuth(q) \/ passwordToggle(q) \/ totpEnable(q) \/ totpDisable(q)
        \/ oauthCallback(q) \/ CallbackAnswered(q) \/ CallbackFailed(q)
        \/ cmdPanelAuth(q) \/ loadAuthRecord(q)
        \/ opSetPanelPassword(q) \/ opSetPanelUsername(q)
        \/ opRotateSessionKey(q) \/ opUpdatePanelAuth(q)
        \/ CmdSetPassword(q) \/ CmdDisableTOTP(q)
        \/ WriteFails(q) \/ PanelTimeout(q) \/ Reply(q)

AuthSpec == AuthInit /\ [][AuthNext]_authVars

(***************************************************************************)
(* Properties.                                                             *)
(***************************************************************************)
AuthTypeOK ==
    /\ rec \in Record
    /\ \A q \in Requests : req[q].base \in Record /\ req[q].stale \subseteq Aspects
    /\ pending \in BOOLEAN
    /\ lost \subseteq Aspects
    /\ keys \in Nat
    /\ retired \subseteq 0..keys

\* Turning password login off never leaves the panel without a way in, however
\* requests overlap: a record with password login off has a complete OAuth
\* configuration (passwordToggle, authOAuth and MergeAuthUpdate together).  Only
\* a rewrite that lands between a handler's check and the helper's read can
\* break it, until password login is on again.
DisabledHasWayIn == rec.disabled => oauthReady(rec) \/ "way" \in lost

\* A key whose sessions were declared void (password change, rotation) is
\* never again the key of the record, unless a request that had read the record
\* before wrote it after; the next password change or rotation ends that.
RevocationHolds == rec.key \in retired => "key" \in lost

\* verified_once means that GitHub accepted a login with the credential the
\* record holds now, the condition passwordToggle relies on, unless another
\* credential was saved while the callback was under way.
VerifiedIsProved == rec.verified => <<rec.id, rec.secret>> \in proved \/ "proof" \in lost

\* The state is well typed and the record sound whatever requests rewrote it,
\* one after the other or overlapping: there is a way in, what was revoked stays
\* revoked, and what counts as proved was proved; what an overtaken rewrite has
\* spoilt of one of the three leaves the other two as they are.
RecordStaysSound == AuthTypeOK /\ DisabledHasWayIn /\ RevocationHolds /\ VerifiedIsProved
=============================================================================
