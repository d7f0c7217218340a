--------------------------------- MODULE Gm2 ---------------------------------
(***************************************************************************)
(* A product: GM2's accounts and devise_token_auth tokens                  *)
(* (examples/gm2-mock).  A login allowed by the platform is tied to the    *)
(* account of its address or signs up; a notification of the platform      *)
(* clears the tokens of the account.                                       *)
(*                                                                         *)
(* All tokens of an account are one column of its row.  A request loads    *)
(* the row into memory and later saves the whole column as it then knows   *)
(* it, so requests run between the load and the save of each other.        *)
(***************************************************************************)
EXTENDS FiniteSets, Naturals

CONSTANTS Emails, Subs,
          Vouched,   \* the addresses that ID tokens of each sub have carried
          Tokens,    \* access tokens
          Calls,     \* slots for requests
          MaxDevices \* tokens an account may have (10, the library's default)
ASSUME MaxDevicesAssumption == MaxDevices \in Nat \ {0}

\* Two logins are never vouched for with one address (FirebaseUsers.tla,
\* OneUidPerPerson); the address of a login may change.
ASSUME VouchedAssumption ==
  /\ Vouched \in [Subs -> SUBSET Emails]
  /\ \A s, t \in Subs : s # t => Vouched[s] \cap Vouched[t] = {}

None == "none"     \* nil
ASSUME NoneAssumption == None \notin Emails \cup Subs \cup Tokens

VARIABLES account,   \* users: the row of each address, if there is one
          call       \* the requests
vars == <<account, call>>

Accounts == [exists : BOOLEAN, linked : Subs \cup {None}, tokens : SUBSET Tokens]

\* A request, at the statement it executes next; email is the address it looks
\* for, then the account it works on; loaded is the tokens column it has in
\* memory.  The last three fields are history: the tokens a notification found
\* when it arrived, those other requests had in memory when it took effect, and
\* whether the token issued here must work.
CallRecs == [kind    : {"passwordSignUp", "passwordSignIn", "signIn", "signUp", "signOut",
                        "revoke", None},
             pc      : {"idle", "findLinked", "findEmail", "link", "insert", "save", "clear",
                        "done"},
             sub     : Subs \cup {None},
             email   : Emails \cup {None},
             token   : Tokens \cup {None},  \* to be issued, or the one signing out
             loaded  : SUBSET Tokens,
             older   : SUBSET Tokens,
             exposed : SUBSET Tokens,
             works   : BOOLEAN]

SignIns == {"passwordSignUp", "passwordSignIn", "signIn", "signUp"}
-----------------------------------------------------------------------------
Idle == [kind |-> None, pc |-> "idle", sub |-> None, email |-> None, token |-> None,
         loaded |-> {}, older |-> {}, exposed |-> {}, works |-> FALSE]

At(c, pc)    == call[c].pc = pc
Live(c)      == ~At(c, "idle") /\ ~At(c, "done")
Become(c, k) == call' = [call EXCEPT ![c] = k]
Goto(c, pc)  == Become(c, [call[c] EXCEPT !.pc = pc])
Refuse(c)    == Become(c, Idle)     \* an error is answered: nothing to remember

LinkedTo(s)  == {e \in Emails : account[e].linked = s}
Holding(e)   == {c \in Calls : call[c].email = e /\ call[c].pc \in {"link", "save", "clear"}}
\* What other requests than c may still write back into the row of e.
Stale(c, e)  == UNION {call[d].loaded : d \in Holding(e) \ {c}}

LiveTokens   == UNION {account[e].tokens : e \in Emails}
\* Tokens are random: a new one is none that anybody has or remembers.
NewTokens    == Tokens \ (LiveTokens \cup
                  UNION {{call[c].token} \cup call[c].loaded \cup call[c].older : c \in Calls})

Init == /\ account = [e \in Emails |-> [exists |-> FALSE, linked |-> None, tokens |-> {}]]
        /\ call = [c \in Calls |-> Idle]

\* The row of e, in memory.
Load(c, e, pc) == Become(c, [call[c] EXCEPT !.pc = pc, !.email = e, !.loaded = account[e].tokens])

\* A request arrives: the password forms, an ID token the platform has allowed
\* (so its address is verified), a sign-out, a notification with a valid signature.
Arrive(c) ==
  /\ ~Live(c)
  /\ \/ \E e \in Emails, t \in NewTokens :
          \/ Become(c, [Idle EXCEPT !.kind = "passwordSignUp", !.pc = "insert",
                                    !.email = e, !.token = t])
          \/ Become(c, [Idle EXCEPT !.kind = "passwordSignIn", !.pc = "findEmail",
                                    !.email = e, !.token = t])
     \/ \E s \in Subs, t \in NewTokens, kind \in {"signIn", "signUp"} : \E e \in Vouched[s] :
          Become(c, [Idle EXCEPT !.kind = kind, !.pc = "findLinked", !.sub = s,
                                 !.email = e, !.token = t])
     \/ \E e \in Emails : \E t \in account[e].tokens :
          Become(c, [Idle EXCEPT !.kind = "signOut", !.pc = "findEmail",
                                 !.email = e, !.token = t])
     \/ \E s \in Subs :
          Become(c, [Idle EXCEPT !.kind = "revoke", !.pc = "findLinked", !.sub = s,
                       !.older = UNION {account[e].tokens : e \in LinkedTo(s)}])
  /\ UNCHANGED account

\* find_by(auth_platform_user_id: sub), and what its callers do with the account.
\* The update of a notification writes nothing if it has loaded no tokens.
FindLinked(c) ==
  LET k == call[c]  found == LinkedTo(k.sub) IN
  /\ At(c, "findLinked")
  /\ \/ found = {} /\ k.kind # "revoke" /\ Goto(c, "findEmail")
     \/ found # {} /\ k.kind = "signUp" /\ Refuse(c)
     \/ \E e \in found : k.kind = "signIn" /\ Load(c, e, "save")
     \/ \E e \in found : k.kind = "revoke" /\ account[e].tokens # {} /\ Load(c, e, "clear")
     \/ /\ k.kind = "revoke" /\ \A e \in found : account[e].tokens = {}
        /\ Become(c, [k EXCEPT !.pc = "done", !.exposed = UNION {Stale(c, e) : e \in found}])
  /\ UNCHANGED account

\* find_by(email:), for a first login, a sign-up, a password sign-in (whose
\* password may be wrong) and a sign-out (whose token may be gone).
FindEmail(c) ==
  LET k == call[c]  row == account[k.email] IN
  /\ At(c, "findEmail")
  /\ \/ k.kind = "signUp" /\ ~row.exists /\ Goto(c, "insert")
     \/ k.kind = "signIn" /\ row.exists /\ row.linked = None /\ Load(c, k.email, "link")
     \/ k.kind = "passwordSignIn" /\ row.exists /\ Load(c, k.email, "save")
     \/ k.kind = "signOut" /\ k.token \in row.tokens /\ Load(c, k.email, "save")
     \/ \/ k.kind = "signUp" /\ row.exists
        \/ k.kind = "signIn" /\ (row.exists => row.linked # None)
        \/ k.kind = "passwordSignIn"
        \/ k.kind = "signOut" /\ k.token \notin row.tokens
       /\ Refuse(c)
  /\ UNCHANGED account

\* Variants with a plausible mistake, named "Bad...", stand before the definition
\* they would replace; only the runs that show that a property can fail use them.
BadLinkNotUnique(c) ==             \* the column has no unique index
  LET k == call[c] IN
  /\ At(c, "link")
  /\ account' = [account EXCEPT ![k.email].linked = k.sub]
  /\ Goto(c, "save")

BadLinkByEmail(c) ==               \* the column holds the address, not the sub
  LET k == call[c] IN
  /\ At(c, "link")
  /\ account' = [account EXCEPT ![k.email].linked = k.email]
  /\ Goto(c, "save")

\* update!(auth_platform_user_id:) writes that column, over any other value; the
\* unique index refuses a sub another account has.
Link(c) ==
  LET k == call[c] IN
  /\ At(c, "link")
  /\ \/ /\ LinkedTo(k.sub) \subseteq {k.email}
        /\ account' = [account EXCEPT ![k.email].linked = k.sub]
        /\ Goto(c, "save")
     \/ ~(LinkedTo(k.sub) \subseteq {k.email}) /\ Refuse(c) /\ UNCHANGED account

\* The row of a new account, without tokens; both indexes are unique.
Insert(c) ==
  LET k == call[c]
      taken == account[k.email].exists \/ (k.sub # None /\ LinkedTo(k.sub) # {}) IN
  /\ At(c, "insert")
  /\ \/ /\ ~taken
        /\ account' = [account EXCEPT ![k.email] = [exists |-> TRUE, linked |-> k.sub, tokens |-> {}]]
        /\ Goto(c, "save")
     \/ taken /\ Refuse(c) /\ UNCHANGED account

BadSaveOneDevice(c) ==             \* the column is replaced, not added to
  LET k == call[c] IN
  /\ At(c, "save")
  /\ account' = [account EXCEPT ![k.email].tokens =
                   IF k.kind = "signOut" THEN @ \ {k.token} ELSE {k.token}]
  /\ IF k.kind = "signOut" THEN Refuse(c)
     ELSE Become(c, [k EXCEPT !.pc = "done", !.loaded = {}, !.works = Holding(k.email) = {c}])

\* What create_token leaves of the tokens T with the newest, t: it drops the
\* oldest beyond MaxDevices (which they are is left open, but for t).
Kept(T, t) == IF Cardinality(T) <= MaxDevices THEN {T}
              ELSE {S \in SUBSET T : t \in S /\ Cardinality(S) = MaxDevices}

\* save! of the whole column: create_new_auth_token adds a token to what was
\* loaded, a sign-out takes its own away.  A token that is evicted need not work
\* any longer.
Save(c) ==
  LET k == call[c]  e == k.email  more == k.loaded \cup {k.token} IN
  /\ At(c, "save")
  /\ \/ /\ k.kind \in SignIns
        /\ \E kept \in Kept(more, k.token) :
             /\ account' = [account EXCEPT ![e].tokens = kept]
             /\ call' = [d \in Calls |->
                  IF d = c THEN [k EXCEPT !.pc = "done", !.loaded = {}, !.works = Holding(e) = {c}]
                  ELSE [call[d] EXCEPT !.works = @ /\ call[d].token \notin more \ kept]]
     \/ /\ k.kind = "signOut"
        /\ account' = [account EXCEPT ![e].tokens = k.loaded \ {k.token}]
        /\ call' = [d \in Calls |-> IF d = c THEN Idle
                                    ELSE [call[d] EXCEPT !.works = @ /\ call[d].token # k.token]]

BadClearKeepsPassword(c) ==        \* only the platform's own tokens are cleared
  LET k == call[c]  kept == {d \in Calls : call[d].kind = "passwordSignIn"} IN
  /\ At(c, "clear")
  /\ account' = [account EXCEPT ![k.email].tokens = @ \cap {call[d].token : d \in kept}]
  /\ Become(c, [k EXCEPT !.pc = "done", !.loaded = {}, !.exposed = Stale(c, k.email)])

\* update!(tokens: {}), and 204.
Clear(c) ==
  LET k == call[c]  e == k.email IN
  /\ At(c, "clear")
  /\ account' = [account EXCEPT ![e].tokens = {}]
  /\ call' = [d \in Calls |->
       IF d = c THEN [k EXCEPT !.pc = "done", !.loaded = {}, !.exposed = Stale(c, e)]
       ELSE [call[d] EXCEPT !.works = @ /\ call[d].email # e]]

\* A statement fails, the caller hangs up or the process dies.
Fail(c) == Live(c) /\ Refuse(c) /\ UNCHANGED account

\* token_lifespan is over: wherever the token still is, it is refused from now on.
Expire(t) ==
  /\ t \in LiveTokens \cup UNION {call[c].loaded : c \in Calls}
  /\ account' = [e \in Emails |-> [account[e] EXCEPT !.tokens = @ \ {t}]]
  /\ call' = [c \in Calls |-> [call[c] EXCEPT !.loaded = @ \ {t},
                                             !.works = @ /\ call[c].token # t]]

Next == \/ \E c \in Calls : \/ Arrive(c) \/ FindLinked(c) \/ FindEmail(c) \/ Link(c)
                            \/ Insert(c) \/ Save(c) \/ Clear(c) \/ Fail(c)
        \/ \E t \in Tokens : Expire(t)

Spec == Init /\ [][Next]_vars
-----------------------------------------------------------------------------
(***************************************************************************)
(* Properties                                                              *)
(***************************************************************************)
TypeOK == /\ account \in [Emails -> Accounts]
          /\ call \in [Calls -> CallRecs]

Ended(c, kinds) == At(c, "done") /\ call[c].kind \in kinds

\* A login is one account for good: whichever of sign-in and sign-up it used,
\* under whatever address, at the same time or later, it gets into the same one.
OneAccountPerLogin ==
  \A c, d \in Calls :
    Ended(c, {"signIn", "signUp"}) /\ Ended(d, {"signIn", "signUp"})
      => (call[c].sub = call[d].sub => call[c].email = call[d].email)

\* Signing in elsewhere signs nobody out: a session that was opened while no
\* other request of the account was between its load and its save works until it
\* signs out, the platform revokes it, it expires or it is evicted as one of more
\* than MaxDevices.  (Two saves over each other do sign a device out.)
OtherDevicesStayIn ==
  \A c \in Calls : call[c].works => call[c].token \in account[call[c].email].tokens

\* What the platform takes a 204 for, as far as GM2 keeps it: the tokens the
\* person had when the notification arrived are dead, but for those another
\* request had in memory when the column was cleared.
RevokedTokenIsDead ==
  \A c \in Calls : Ended(c, {"revoke"}) =>
    (call[c].older \ call[c].exposed) \cap LiveTokens = {}
-----------------------------------------------------------------------------
(***************************************************************************)
(* What the comments say and the code does not do (see README).            *)
(***************************************************************************)
\* "Every devise_token_auth token, including ones from a password login": none of
\* the tokens that the notification was about is alive after the 204.
EveryTokenIsDead ==
  \A c \in Calls : Ended(c, {"revoke"}) => call[c].older \cap LiveTokens = {}
=============================================================================
