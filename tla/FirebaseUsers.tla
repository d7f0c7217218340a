---------------------------- MODULE FirebaseUsers ----------------------------
(***************************************************************************)
(* POST /v1/auth/google (api.handleGoogleSignIn) and the Firebase users it *)
(* finds, replaces and creates (firebaseauth.CustomTokenFor).              *)
(*                                                                         *)
(* Each call of Firebase is one action, so two sign-ins of one person (two *)
(* tabs, a double click) run between the calls of each other.  Firebase    *)
(* itself, the browser and password sign-ups, which the console should     *)
(* have switched off, are external.  No address is vouched for by          *)
(* anything but CustomTokenFor, and the address of a user does not change. *)
(***************************************************************************)
CONSTANTS Emails,
          Allowed,   \* addresses the whitelist lets through (Whitelist.tla)
          Uids,      \* a Firebase user, once created, has a uid of its own for good
          Calls      \* slots for sign-ins

ASSUME AllowedAssumption == Allowed \subseteq Emails

VARIABLES user,      \* the Firebase users
          call,      \* POST /v1/auth/google in flight
          idToken,   \* the uids somebody holds an ID token of (it outlives its user)
          recorded   \* the subs verify has recorded a login of, and products link to
vars == <<user, call, idToken, recorded>>

None == "none"

Users    == [state : {"unused", "live", "deleted"}, email : Emails \cup {None}, verified : BOOLEAN]
CallRecs == [pc : {"idle", "admit", "find", "delete", "create", "mint", "minted"},
             email : Emails \cup {None}, uid : Uids \cup {None}]
-----------------------------------------------------------------------------
Idle == [pc |-> "idle", email |-> None, uid |-> None]

At(c, pc)      == call[c].pc = pc
Goto(c, pc)    == call' = [call EXCEPT ![c].pc = pc]
Fails(c)       == call' = [call EXCEPT ![c] = Idle]     \* 4xx or 5xx
With(c, u, pc) == call' = [call EXCEPT ![c].pc = pc, ![c].uid = u]

\* Firebase keeps one user per address.
UserOf(e) == {u \in Uids : user[u].state = "live" /\ user[u].email = e}

Created(u, e, verified) ==
  /\ user[u].state = "unused"
  /\ user' = [user EXCEPT ![u] = [state |-> "live", email |-> e, verified |-> verified]]

Init == /\ user = [u \in Uids |-> [state |-> "unused", email |-> None, verified |-> FALSE]]
        /\ call = [c \in Calls |-> Idle]
        /\ idToken = {} /\ recorded = {}

\* Somebody, the owner or not, signs up with an address and a password and
\* holds an ID token that says the address is not verified.
PasswordSignUp(u) ==
  /\ \E e \in Emails : UserOf(e) = {} /\ Created(u, e, FALSE)
  /\ idToken' = idToken \cup {u}
  /\ UNCHANGED <<call, recorded>>

\* A Google ID token arrives that is valid.
GoogleSignIn(c) ==
  /\ At(c, "idle")
  /\ \E e \in Emails : call' = [call EXCEPT ![c] = [Idle EXCEPT !.pc = "admit", !.email = e]]
  /\ UNCHANGED <<user, idToken, recorded>>

\* Variants with a plausible mistake, named "Bad...", stand before the definition
\* they would replace; only the runs that show that a property can fail use them.
\* admit, before Firebase is involved; 403 for somebody it refuses.
Admit(c) ==
  /\ At(c, "admit")
  /\ IF call[c].email \in Allowed THEN Goto(c, "find") ELSE Fails(c)
  /\ UNCHANGED <<user, idToken, recorded>>

BadFindTakesAnyone(c) ==       \* email_verified is not looked at
  /\ At(c, "find")
  /\ \/ UserOf(call[c].email) = {} /\ Goto(c, "create")
     \/ \E u \in UserOf(call[c].email) : With(c, u, "mint")
  /\ UNCHANGED <<user, idToken, recorded>>

\* GetUserByEmail
Find(c) ==
  LET found == UserOf(call[c].email) IN
  /\ At(c, "find")
  /\ \/ found = {} /\ Goto(c, "create")
     \/ \E u \in found : user[u].verified  /\ With(c, u, "mint")
     \/ \E u \in found : ~user[u].verified /\ With(c, u, "delete")
  /\ UNCHANGED <<user, idToken, recorded>>

BadDeleteByEmail(c) ==         \* whoever has the address by now is deleted
  /\ At(c, "delete")
  /\ \E u \in UserOf(call[c].email) : user' = [user EXCEPT ![u].state = "deleted"]
  /\ Goto(c, "create")
  /\ UNCHANGED <<idToken, recorded>>

\* DeleteUser of the uid that was found; an error if it is gone by now.
Delete(c) ==
  LET u == call[c].uid IN
  /\ At(c, "delete")
  /\ \/ /\ user[u].state = "live"
        /\ user' = [user EXCEPT ![u].state = "deleted"]
        /\ Goto(c, "create")
     \/ user[u].state = "deleted" /\ Fails(c) /\ UNCHANGED user
  /\ UNCHANGED <<idToken, recorded>>

BadCreateDuplicate(c) ==       \* "multiple accounts per email address" is on
  /\ At(c, "create")
  /\ \E u \in Uids : Created(u, call[c].email, TRUE) /\ With(c, u, "mint")
  /\ UNCHANGED <<idToken, recorded>>

BadCreateUnnamed(c) ==         \* the uid of the new user is not taken over
  /\ At(c, "create") /\ UserOf(call[c].email) = {}
  /\ \E u \in Uids : Created(u, call[c].email, TRUE)
  /\ call' = [call EXCEPT ![c].pc = "mint", ![c].uid = call[c].email]
  /\ UNCHANGED <<idToken, recorded>>

\* CreateUser with a verified address; an error if there is one by now.
Create(c) ==
  LET e == call[c].email IN
  /\ At(c, "create")
  /\ \/ UserOf(e) # {} /\ Fails(c) /\ UNCHANGED user
     \/ UserOf(e) = {} /\ \E u \in Uids : Created(u, e, TRUE) /\ With(c, u, "mint")
  /\ UNCHANGED <<idToken, recorded>>

\* CustomToken: signed here, Firebase is not asked.
Mint(c) == At(c, "mint") /\ Goto(c, "minted") /\ UNCHANGED <<user, idToken, recorded>>

\* The browser exchanges the custom token for a session and its ID tokens.
Exchange(c) ==
  /\ At(c, "minted")
  /\ idToken' = idToken \cup {call[c].uid}
  /\ call' = [call EXCEPT ![c] = Idle]
  /\ UNCHANGED <<user, recorded>>

\* A call of Firebase fails, the browser goes away or the process dies.
Fail(c) == ~At(c, "idle") /\ Fails(c) /\ UNCHANGED <<user, idToken, recorded>>

\* POST /v1/auth/verify with an ID token of the user, who may be gone: an
\* unverified address is refused, any other login is recorded (Revocation.tla).
VerifyLogin(u) ==
  /\ u \in idToken /\ user[u].verified
  /\ recorded' = recorded \cup {u}
  /\ UNCHANGED <<user, call, idToken>>

Next == \/ \E u \in Uids  : PasswordSignUp(u) \/ VerifyLogin(u)
        \/ \E c \in Calls : \/ GoogleSignIn(c) \/ Admit(c) \/ Find(c) \/ Delete(c) \/ Create(c)
                            \/ Mint(c) \/ Exchange(c) \/ Fail(c)

Spec == Init /\ [][Next]_vars
-----------------------------------------------------------------------------
(***************************************************************************)
(* Properties                                                              *)
(***************************************************************************)
TypeOK == /\ user \in [Uids -> Users]
          /\ call \in [Calls -> CallRecs]
          /\ idToken \subseteq Uids
          /\ recorded \subseteq Uids

\* "verify never let it in anywhere, so nothing refers to its UID": no product is
\* linked, and no revocation will be addressed, to a user that was deleted, even
\* when one sign-in deletes what another has just found or created.
NothingRefersToDeleted == \A u \in recorded : user[u].state = "live"

\* The sub is "the stable identifier" of a person: all the logins ever recorded
\* of one address are one sub, so one revocation and one linked account cover
\* them.  (Gm2.tla assumes it, and Revocation.tla for each of its people.)
OneUidPerPerson == \A u, v \in recorded : user[u].email = user[v].email => u = v

\* A custom token is never minted "vouching for whoever set its password", for a
\* user that is gone (Firebase would create an anonymous one under the uid), or
\* for "someone [the whitelist] refuses".
VouchedForOwner ==
  \A c \in Calls : At(c, "minted") =>
    /\ user[call[c].uid] = [state |-> "live", email |-> call[c].email, verified |-> TRUE]
    /\ call[c].email \in Allowed
=============================================================================
