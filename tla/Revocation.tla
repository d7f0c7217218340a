----------------------------- MODULE Revocation -----------------------------
(***************************************************************************)
(* Signing in to products and being signed out of them: the verify         *)
(* endpoint (api.handleVerify), the login records (clients.RecordLogin),   *)
(* the notifier (internal/revocation) and the three admin handlers that    *)
(* use it: disable, bulk-disable and force logout.                         *)
(*                                                                         *)
(* A person is an address with one or more Firebase subs.  Each action is  *)
(* one SQL statement, one call of Firebase, one HTTP request or one step   *)
(* of a product, so logins, revocations and products interleave freely.    *)
(* Everybody has a whitelist entry here (admit would add it) and callers   *)
(* are authorised: Whitelist.tla models both.                              *)
(***************************************************************************)
EXTENDS FiniteSets, Naturals

CONSTANTS Emails, Subs, Clients,
          EmailOf,      \* the address in the ID tokens of each sub
          Reliable,     \* products that have a revoke_url and always answer in time
          WriteBack,    \* products whose requests load a user's sessions and save them later
          Logins,       \* slots for logins in flight
          Revocations,  \* slots for admin requests
          Impatient     \* those whose client may hang up, cancelling the request

ASSUME EmailAssumption     == EmailOf \in [Subs -> Emails]
ASSUME ReliableAssumption  == Reliable \subseteq Clients
ASSUME WriteBackAssumption == WriteBack \subseteq Clients
ASSUME ImpatientAssumption == Impatient \subseteq Revocations

VARIABLES active,   \* is the whitelist entry of the address active?
          links,    \* user_client_links: the recorded (sub, client) pairs
          session,  \* the (sub, client) pairs the products hold a session for
          held,     \* sessions a running request of a product has loaded and will write back
          idToken,  \* the subs whose browser holds an ID token
          login,    \* logins in flight
          rev,      \* admin requests
          net       \* notifications a product has not handled yet
vars == <<active, links, session, held, idToken, login, rev, net>>

Pairs == Subs \X Clients
Of(e) == {p \in Pairs : EmailOf[p[1]] = e}      \* the pairs of one person

\* Those at products that delete a session for good (FinanSu: a DELETE; GM2 saves
\* the whole column of tokens over it and may bring a session back).
Lasting(e) == {p \in Of(e) : p[2] \notin WriteBack}

\* A login: a product has sent the token to verify ("admit"), verify found the
\* person active ("record"), recorded the login and answered 200 ("reply").
LoginRecs == [pc : {"idle", "admit", "record", "reply"}, pair : Pairs]

\* An admin request, at the step it executes next.  The results of a bulk run add
\* up over its people.  The last three fields are history: was the person disabled
\* and no login of theirs past the whitelist when the targets were read (and has
\* nobody enabled them since), the sessions its people had when it arrived or when
\* their targets were read and never lost, and whom it signed out for good.
RevRecs == [pc      : {"idle", "disable", "targets", "firebase", "notify", "waiting",
                       "handled", "done"},
            kind    : {"disable", "bulk", "logout"},
            todo    : SUBSET Emails,  \* people still to be handled
            email   : Emails,         \* the one being handled
            targets : SUBSET Pairs,   \* RevocationTargets, of everybody handled so far
            subs    : SUBSET Subs,    \* whose refresh tokens are to be revoked
            left    : SUBSET Pairs,   \* targets not yet notified
            current : Pairs,          \* the target being notified
            revoked : SUBSET Pairs,   \* reported "revoked"
            missed  : SUBSET Pairs,   \* reported "failed" or "skipped"
            failed  : SUBSET Emails,  \* people answered with an error and no targets
            quiet   : BOOLEAN,
            before  : SUBSET Pairs,
            cleared : SUBSET Emails]

Notifications == Revocations \X Pairs
-----------------------------------------------------------------------------
Init ==
  /\ active  = [e \in Emails |-> TRUE]
  /\ links   = {}
  /\ session = {}
  /\ held    = {}
  /\ idToken = {}
  /\ \E p \in Pairs :
       /\ login = [l \in Logins |-> [pc |-> "idle", pair |-> p]]
       /\ rev   = [r \in Revocations |->
                    [pc |-> "idle", kind |-> "logout", todo |-> {}, email |-> EmailOf[p[1]],
                     targets |-> {}, subs |-> {}, left |-> {}, current |-> p,
                     revoked |-> {}, missed |-> {}, failed |-> {}, quiet |-> FALSE,
                     before |-> {}, cleared |-> {}]]
  /\ net = {}
-----------------------------------------------------------------------------
(***************************************************************************)
(* The browser and Firebase (external)                                     *)
(***************************************************************************)
\* POST /v1/auth/google lets the person through and Firebase signs them in.  The
\* ID token may be used at any time from then on: it is renewed, or it has simply
\* not expired yet, or is not used again, which is when it has.
GoogleSignIn(s) ==
  /\ active[EmailOf[s]]
  /\ idToken' = idToken \cup {s}
  /\ UNCHANGED <<active, links, session, held, login, rev, net>>
-----------------------------------------------------------------------------
(***************************************************************************)
(* Signing in to a product                                                 *)
(***************************************************************************)
At(l, pc) == login[l].pc = pc
Crossing(e) == {l \in Logins : login[l].pc \in {"record", "reply"} /\ login[l].pair \in Of(e)}

\* A product's back end calls verify; the token's signature and expiry hold.
\* Whether it has been revoked is not asked (VerifyIDToken).
VerifyToken(l) ==
  /\ At(l, "idle")
  /\ \E p \in Pairs :
       /\ p[1] \in idToken
       /\ login' = [login EXCEPT ![l] = [pc |-> "admit", pair |-> p]]
  /\ UNCHANGED <<active, links, session, held, idToken, rev, net>>

\* Variants with a plausible mistake, named "Bad...", stand before the definition
\* they would replace; only the runs that show that a property can fail use them.
BadAdmitUnasked(l) ==          \* the whitelist is not consulted
  /\ At(l, "admit")
  /\ login' = [login EXCEPT ![l].pc = "record"]
  /\ UNCHANGED <<active, links, session, held, idToken, rev, net>>

\* admit: the whitelist is looked up; somebody disabled gets 403.
Admit(l) ==
  /\ At(l, "admit")
  /\ login' = [login EXCEPT ![l].pc = IF active[EmailOf[login[l].pair[1]]]
                                       THEN "record" ELSE "idle"]
  /\ UNCHANGED <<active, links, session, held, idToken, rev, net>>

BadRecordFailsOpen(l) ==       \* the login is allowed when it cannot be recorded
  /\ At(l, "record")
  /\ links' \in {links, links \cup {login[l].pair}}
  /\ login' = [login EXCEPT ![l].pc = "reply"]
  /\ UNCHANGED <<active, session, held, idToken, rev, net>>

BadRecordByEmail(l) ==         \* the record is keyed by address, not by sub
  /\ At(l, "record")
  /\ links' = links \cup {<<EmailOf[login[l].pair[1]], login[l].pair[2]>>}
  /\ login' = [login EXCEPT ![l].pc = "reply"]
  /\ UNCHANGED <<active, session, held, idToken, rev, net>>

\* RecordLogin, then 200.
RecordLogin(l) ==
  /\ At(l, "record")
  /\ links' = links \cup {login[l].pair}
  /\ login' = [login EXCEPT ![l].pc = "reply"]
  /\ UNCHANGED <<active, session, held, idToken, rev, net>>

\* The product, told "allowed", opens a session.
OpenSession(l) ==
  /\ At(l, "reply")
  /\ session' = session \cup {login[l].pair}
  /\ login' = [login EXCEPT ![l].pc = "idle"]
  /\ UNCHANGED <<active, links, held, idToken, rev, net>>

\* An error, a lost answer or a crash on either side: no session.
LoginFails(l) ==
  /\ ~At(l, "idle")
  /\ login' = [login EXCEPT ![l].pc = "idle"]
  /\ UNCHANGED <<active, links, session, held, idToken, rev, net>>

\* A request at a product of WriteBack loads the user's sessions ...
LoadSessions(p) ==
  /\ p \in session /\ p[2] \in WriteBack
  /\ held' = held \cup {p}
  /\ UNCHANGED <<active, links, session, idToken, login, rev, net>>

\* ... and saves what it loaded, whatever has happened to them since.
SaveSessions(p) ==
  /\ p \in held
  /\ held' = held \ {p}
  /\ session' = session \cup {p}
  /\ UNCHANGED <<active, links, idToken, login, rev, net>>

\* The person signs out of a product.
SignOut(p) ==
  /\ p \in session
  /\ session' = session \ {p}
  /\ rev' = [r \in Revocations |-> [rev[r] EXCEPT !.before = @ \ {p}]]
  /\ UNCHANGED <<active, links, held, idToken, login, net>>
-----------------------------------------------------------------------------
(***************************************************************************)
(* Admin requests                                                          *)
(***************************************************************************)
Step(r, pc)   == rev[r].pc = pc
Running(r)    == ~Step(r, "idle") /\ ~Step(r, "done")

\* A request arrives: force logout or disable of one person, or a bulk run.
Request(r) ==
  /\ ~Running(r)
  /\ \E kind \in {"disable", "bulk", "logout"}, people \in (SUBSET Emails) \ {{}} :
       /\ kind # "bulk" => Cardinality(people) = 1
       /\ rev' = [rev EXCEPT ![r] =
            [@ EXCEPT !.pc = IF kind = "logout" THEN "targets" ELSE "disable",
                      !.kind = kind, !.todo = people, !.email = CHOOSE e \in people : TRUE,
                      !.targets = {}, !.subs = {}, !.left = {}, !.revoked = {}, !.missed = {},
                      !.failed = {}, !.quiet = FALSE, !.cleared = {},
                      !.before = {p \in session : EmailOf[p[1]] \in people}]]
  /\ UNCHANGED <<active, links, session, held, idToken, login, net>>

\* Whitelist.Disable of the next person (disabling twice is no error).
Disable(r) ==
  /\ Step(r, "disable")
  /\ \E e \in rev[r].todo :
       /\ active' = [active EXCEPT ![e] = FALSE]
       /\ rev' = [rev EXCEPT ![r].pc = "targets", ![r].email = e]
  /\ UNCHANGED <<links, session, held, idToken, login, net>>

BadFollowingRepeats(q) ==      \* the person just handled stays on the list
  [q EXCEPT !.pc = IF q.todo = {} THEN "done" ELSE "disable"]

\* Going on with the next person of a bulk run, or answering.
Following(q) == LET rest == q.todo \ {q.email} IN
                [q EXCEPT !.todo = rest, !.pc = IF rest = {} THEN "done" ELSE "disable"]

\* Nothing is revoked for a person who could not be disabled or looked up: 500,
\* or in a bulk run a "failed" of their own and on to the next.
Failing(q, e) == Following([q EXCEPT !.email = e, !.failed = @ \cup {e}])

\* The UPDATE of Disable is refused (last admin) or fails.
DisableFails(r) ==
  /\ Step(r, "disable")
  /\ \E e \in rev[r].todo : rev' = [rev EXCEPT ![r] = Failing(@, e)]
  /\ UNCHANGED <<active, links, session, held, idToken, login, net>>

BadLookupFails(r) ==           \* the rest of a bulk run is given up
  /\ Step(r, "targets")
  /\ rev' = [rev EXCEPT ![r].pc = "done", ![r].failed = @ \cup {rev[r].email}]
  /\ UNCHANGED <<active, links, session, held, idToken, login, net>>

\* The UPDATE took effect, but the Lookup after it or RevocationTargets fails: the
\* person is out and keeps the sessions they have.
LookupFails(r) ==
  /\ Step(r, "targets")
  /\ rev' = [rev EXCEPT ![r] = Failing(@, @.email)]
  /\ UNCHANGED <<active, links, session, held, idToken, login, net>>

\* RevocationTargets: one SELECT of everything recorded for the address.
ReadTargets(r) ==
  LET q == rev[r]  targets == links \cap Of(q.email) IN
  /\ Step(r, "targets")
  /\ rev' = [rev EXCEPT ![r] =
       [q EXCEPT !.pc = IF targets = {} THEN "notify" ELSE "firebase",
                 !.targets = q.targets \cup targets, !.subs = {p[1] : p \in targets},
                 !.left = targets,
                 !.quiet = ~active[q.email] /\ Crossing(q.email) = {},
                 !.before = q.before \cup (session \cap Of(q.email))]]
  /\ UNCHANGED <<active, links, session, held, idToken, login, net>>

\* Revoke, first loop: Firebase, once per sub, whether it works or not.  An ID
\* token that was minted before goes on being accepted until it expires (Verify
\* does not ask), so of the state here only the loop itself changes.
RevokeFirebase(r) ==
  /\ Step(r, "firebase")
  /\ \E s \in rev[r].subs :
       /\ rev' = [rev EXCEPT ![r].subs = @ \ {s},
                            ![r].pc = IF rev[r].subs = {s} THEN "notify" ELSE @]
  /\ UNCHANGED <<active, links, session, held, idToken, login, net>>

\* Revoke, second loop: a product is sent a signed notification ...
Notify(r) ==
  /\ Step(r, "notify")
  /\ \E p \in rev[r].left :
       /\ rev' = [rev EXCEPT ![r].pc = "waiting", ![r].current = p]
       /\ net' = net \cup {<<r, p>>}
  /\ UNCHANGED <<active, links, session, held, idToken, login>>

\* ... or skipped, if it had no revoke_url when the targets were read.  The
\* admin screen sets the URL at any time (Clients.tla), so it may be so.
Skip(r) ==
  /\ Step(r, "notify")
  /\ \E p \in rev[r].left :
       /\ p[2] \notin Reliable
       /\ rev' = [rev EXCEPT ![r].left = @ \ {p}, ![r].missed = @ \cup {p}]
  /\ UNCHANGED <<active, links, session, held, idToken, login, net>>

\* The product drops the sessions of the sub (even if nobody waits any more); what
\* a running request of the product has loaded stays loaded.
HandleNotification(r, p) ==
  /\ <<r, p>> \in net
  /\ net' = net \ {<<r, p>>}
  /\ session' = session \ {p}
  /\ rev' = [q \in Revocations |->
       [rev[q] EXCEPT !.before = @ \ {p},
                      !.pc = IF q = r /\ @ = "waiting" /\ rev[q].current = p
                             THEN "handled" ELSE @]]
  /\ UNCHANGED <<active, links, held, idToken, login>>

\* The notification never reaches a product that handles it: the connection is
\* refused or broken, the signature rejected, the product fails to act on it.
LoseNotification(r, p) ==
  /\ <<r, p>> \in net
  /\ p[2] \notin Reliable
  /\ net' = net \ {<<r, p>>}
  /\ UNCHANGED <<active, links, session, held, idToken, login, rev>>

BadAnyAnswerIsRevoked(r) ==    \* the outcome of the request is not looked at
  /\ Step(r, "handled") \/ Step(r, "waiting")
  /\ rev' = [rev EXCEPT ![r].pc = "notify", ![r].left = @ \ {rev[r].current},
                        ![r].revoked = @ \cup {rev[r].current}]
  /\ UNCHANGED <<active, links, session, held, idToken, login, net>>

BadStopAtFailure(r) ==         \* the loop ends at the first failure
  /\ Step(r, "waiting") \/ Step(r, "handled")
  /\ rev[r].current[2] \notin Reliable
  /\ rev' = [rev EXCEPT ![r].pc = "notify", ![r].left = {},
                        ![r].missed = @ \cup {rev[r].current}]
  /\ UNCHANGED <<active, links, session, held, idToken, login, net>>

BadFailureUnreported(r) ==     \* a failure is logged but not returned
  /\ Step(r, "waiting") \/ Step(r, "handled")
  /\ rev[r].current[2] \notin Reliable
  /\ rev' = [rev EXCEPT ![r].pc = "notify", ![r].left = @ \ {rev[r].current}]
  /\ UNCHANGED <<active, links, session, held, idToken, login, net>>

\* A 2xx arrives: "revoked".
NotifySucceeds(r) ==
  /\ Step(r, "handled")
  /\ rev' = [rev EXCEPT ![r].pc = "notify", ![r].left = @ \ {rev[r].current},
                        ![r].revoked = @ \cup {rev[r].current}]
  /\ UNCHANGED <<active, links, session, held, idToken, login, net>>

\* Another status, a transport error or the 5 s timeout: "failed", on to the
\* next target.
NotifyFails(r) ==
  /\ Step(r, "waiting") \/ Step(r, "handled")
  /\ rev[r].current[2] \notin Reliable
  /\ rev' = [rev EXCEPT ![r].pc = "notify", ![r].left = @ \ {rev[r].current},
                        ![r].missed = @ \cup {rev[r].current}]
  /\ UNCHANGED <<active, links, session, held, idToken, login, net>>

\* All targets have a result: the person is finished.
FinishPerson(r) ==
  LET q == rev[r] IN
  /\ Step(r, "notify") /\ q.left = {}
  /\ rev' = [rev EXCEPT ![r] =
       Following([q EXCEPT !.cleared = IF q.quiet /\ q.missed \cap Of(q.email) = {}
                                       THEN @ \cup {q.email} ELSE @])]
  /\ UNCHANGED <<active, links, session, held, idToken, login, net>>

\* The admin's client hangs up, which cancels the context of the request and of
\* the notifications it is sending, or the process stops.
HangUp(r) ==
  /\ r \in Impatient /\ Running(r)
  /\ rev' = [rev EXCEPT ![r].pc = "idle"]
  /\ UNCHANGED <<active, links, session, held, idToken, login, net>>

\* Enable: also ends what earlier requests promised about the person.
Enable(e) ==
  /\ ~active[e]
  /\ active' = [active EXCEPT ![e] = TRUE]
  /\ rev' = [r \in Revocations |->
       [rev[r] EXCEPT !.quiet = @ /\ rev[r].email # e, !.cleared = @ \ {e}]]
  /\ UNCHANGED <<links, session, held, idToken, login, net>>

\* What a handler does by itself, its wait for Firebase left out.
HandlerStep(r) == \/ Disable(r) \/ ReadTargets(r) \/ Notify(r) \/ Skip(r)
                  \/ NotifySucceeds(r) \/ NotifyFails(r) \/ FinishPerson(r)

Next ==
  \/ \E s \in Subs : GoogleSignIn(s)
  \/ \E l \in Logins : \/ VerifyToken(l) \/ Admit(l) \/ RecordLogin(l) \/ OpenSession(l)
                       \/ LoginFails(l)
  \/ \E p \in Pairs : LoadSessions(p) \/ SaveSessions(p) \/ SignOut(p)
  \/ \E r \in Revocations : \/ Request(r) \/ HandlerStep(r) \/ RevokeFirebase(r)
                             \/ DisableFails(r) \/ LookupFails(r) \/ HangUp(r)
  \/ \E r \in Revocations, p \in Pairs : HandleNotification(r, p) \/ LoseNotification(r, p)
  \/ \E e \in Emails : Enable(e)

\* A handler that has started goes on, its client gives up after 5 s, and a
\* reliable product handles what it is sent.  Nothing limits how long a call of
\* Firebase takes, so RevokeFirebase is not among these.
Fairness ==
  /\ \A r \in Revocations : WF_vars(HandlerStep(r))
  /\ \A r \in Revocations, p \in Pairs :
       p[2] \in Reliable => WF_vars(HandleNotification(r, p))

Spec     == Init /\ [][Next]_vars
FairSpec == Spec /\ Fairness
-----------------------------------------------------------------------------
(***************************************************************************)
(* Properties                                                              *)
(***************************************************************************)
TypeOK ==
  /\ active \in [Emails -> BOOLEAN]
  /\ links \subseteq Pairs
  /\ session \subseteq Pairs
  /\ held \subseteq Pairs
  /\ idToken \subseteq Subs
  /\ login \in [Logins -> LoginRecs]
  /\ rev \in [Revocations -> RevRecs]
  /\ net \subseteq Notifications

\* "A login the platform has not recorded is one it could not revoke later, so
\* it is not allowed through": whatever fails and whenever, a product that has a
\* session (or is about to write one back), or an answer that lets it open one, is
\* recorded for the sub.
NothingUnrecorded ==
  /\ session \cup held \subseteq links
  /\ \A l \in Logins : At(l, "reply") => login[l].pair \in links

\* Somebody a request disabled (or found disabled) while no login of theirs was
\* past the whitelist, and whose products all reported "revoked", is signed out
\* and stays so until enabled: neither an old ID token, nor a login that was
\* waiting, nor a retry of another admin brings a session back - except at the
\* products of WriteBack, whose own requests may (Gm2.tla shows how).
ClearedIsOut ==
  \A r \in Revocations : \A e \in rev[r].cleared :
    /\ session \cap Lasting(e) = {}
    /\ Crossing(e) = {}
    /\ ~active[e]

\* No session that was open when the targets were read survives behind a
\* "revoked": it has been dropped or the admin has been told it may be left.
NoSilentSurvivor ==
  \A r \in Revocations : rev[r].before \cap rev[r].revoked = {}

\* When a person is finished, every target has exactly one result: a product
\* that fails does not stop the others from being told.
EveryTargetReported ==
  [][\A r \in Revocations : FinishPerson(r) =>
       /\ rev[r].revoked \cup rev[r].missed = rev[r].targets
       /\ rev[r].revoked \cap rev[r].missed = {}
       /\ rev[r].before \cap Of(rev[r].email) \subseteq rev[r].missed]_vars

\* A bulk run overlooks nobody: when it is answered, every session its people had
\* when it arrived is gone, or was reported "failed" or "skipped", or belongs to
\* somebody reported as failed - whichever UPDATE, lookup or product failed on the
\* way, for this person or for another.
NothingForgotten ==
  \A r \in Revocations : Step(r, "done") =>
    \A p \in rev[r].before : p \in rev[r].missed \/ EmailOf[p[1]] \in rev[r].failed

\* The request waits for Firebase and never gets an answer.
FirebaseHangs(r) == <>[]Step(r, "firebase")

\* One unreachable product must not keep the others signed in: a target at a
\* reliable product loses its session whatever the other products do, unless
\* Firebase, which is asked first, never answers.
ReachableIsSignedOut ==
  \A r \in Revocations \ Impatient, p \in Pairs :
    \/ FirebaseHangs(r)
    \/ (/\ p[2] \in Reliable /\ p \in rev[r].left
        /\ Step(r, "firebase") \/ Step(r, "notify")) ~> (p \notin session)

\* Every request is answered, whatever fails, unless Firebase never answers it.
Answered ==
  \A r \in Revocations \ Impatient : FirebaseHangs(r) \/ (Running(r) ~> ~Running(r))
-----------------------------------------------------------------------------
=============================================================================
