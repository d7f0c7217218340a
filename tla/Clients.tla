------------------------------- MODULE Clients -------------------------------
(***************************************************************************)
(* The registered products (internal/clients): create, update and          *)
(* rotate-secret of the admin screen, the register-client command and the  *)
(* check of a product's credentials.                                       *)
(*                                                                         *)
(* As in Whitelist.tla one statement is atomic and a call is several, so   *)
(* each action is one statement with the code up to the next.  A product   *)
(* is known here by its name, which is UNIQUE and never changes (its id is *)
(* random); secrets are numbered as they are generated.  Calls refused     *)
(* before their first statement (no name, not a URL) are left out.         *)
(***************************************************************************)
EXTENDS FiniteSets, Naturals

CONSTANTS Names, Urls,   \* product names; valid revoke URLs and ""
          Calls,         \* slots for calls in progress
          MaxSecrets     \* bound of TLC: how many secrets are generated

ASSUME SecretsAssumption == MaxSecrets \in Nat

VARIABLES row,      \* clients: the row of each product
          issued,   \* how many secrets have been generated
          retired,  \* history: the secrets that have been replaced
          call      \* the call in each slot
vars == <<row, issued, retired, call>>

NoSecret == 0
Secrets  == 0 .. MaxSecrets
Absent   == [active |-> FALSE, url |-> "", secret |-> NoSecret]
Rows     == [active : BOOLEAN, url : Urls, secret : Secrets \ {NoSecret}] \cup {Absent}

\* An argument that may be nil is a set: empty, or holding its one value.
Optional(S)     == {{}} \cup {{x} : x \in S}
Or(given, dflt) == IF given = {} THEN dflt ELSE CHOOSE x \in given : TRUE

\* A call, at the statement it executes next.
CallRecs == [op     : {"create", "update", "rotate", "register"},
             pc     : {"idle", "find", "get", "write", "insert", "rotate", "reget", "done"},
             name   : Names,
             active : Optional(BOOLEAN),
             url    : Optional(Urls),
             known  : Rows,            \* Update: the row its Get read
             secret : Secrets,         \* the secret it has generated
             res    : {"ok", "not_found", "duplicate", "error"}]
-----------------------------------------------------------------------------
At(c, pc)      == call[c].pc = pc
Live(c)        == call[c].pc \notin {"idle", "done"}
Registered(n)  == row[n].secret # NoSecret
Become(c, k)   == call' = [call EXCEPT ![c] = k]
Goto(c, pc)    == Become(c, [call[c] EXCEPT !.pc = pc])

\* An answered call keeps its answer; its arguments are forgotten.
Answer(c, res) == Become(c, [call[c] EXCEPT !.pc = "done", !.res = res, !.active = {},
                                            !.url = {}, !.known = Absent])

Call(op, pc, n, active, url) ==
  [op |-> op, pc |-> pc, name |-> n, active |-> active, url |-> url,
   known |-> Absent, secret |-> NoSecret, res |-> "error"]

Init == /\ row     = [n \in Names |-> Absent]
        /\ issued  = 0
        /\ retired = {}
        /\ \E n \in Names : call = [c \in Calls |-> Call("create", "idle", n, {}, {})]

\* randomToken("cs_"): c goes on to pc with a new secret.
Generate(c, k, pc) ==
  /\ issued < MaxSecrets
  /\ issued' = issued + 1
  /\ Become(c, [k EXCEPT !.secret = issued + 1, !.pc = pc])

\* A call arrives.  An update names at least one of its two fields; the URL of
\* a creation may be empty.
Start(c) ==
  /\ ~Live(c)
  /\ \E n \in Names :
       \/ \E url \in Urls : Generate(c, Call("create", "", n, {}, {url}), "insert")
       \/ Generate(c, Call("rotate", "", n, {}, {}), "rotate")
       \/ /\ \/ \E url \in Urls : Become(c, Call("register", "find", n, {}, {url}))
             \/ \E active \in Optional(BOOLEAN), url \in Optional(Urls) :
                  /\ active # {} \/ url # {}
                  /\ Become(c, Call("update", "get", n, active, url))
          /\ UNCHANGED issued
  /\ UNCHANGED <<row, retired>>

\* Variants with a plausible mistake, named "Bad...", stand before the definition
\* they would replace; only the runs that show that a property can fail use them.
BadFindNoSecret(c) ==      \* register-client inserts a product without a secret
  LET k == call[c] IN
  /\ At(c, "find")
  /\ \/ Registered(k.name) /\ k.url # {""} /\ Goto(c, "get") /\ UNCHANGED issued
     \/ Registered(k.name) /\ k.url = {""} /\ Answer(c, "duplicate") /\ UNCHANGED issued
     \/ ~Registered(k.name) /\ Goto(c, "insert") /\ UNCHANGED issued
  /\ UNCHANGED <<row, retired>>

\* register-client: FindByName decides between Update, an error and Create.
Find(c) ==
  LET k == call[c] IN
  /\ At(c, "find")
  /\ \/ Registered(k.name) /\ k.url # {""} /\ Goto(c, "get") /\ UNCHANGED issued
     \/ Registered(k.name) /\ k.url = {""} /\ Answer(c, "duplicate") /\ UNCHANGED issued
     \/ ~Registered(k.name) /\ Generate(c, k, "insert")
  /\ UNCHANGED <<row, retired>>

BadInsertIgnores(c) ==     \* INSERT OR IGNORE
  LET k == call[c] IN
  /\ At(c, "insert")
  /\ row' = IF Registered(k.name) THEN row
            ELSE [row EXCEPT ![k.name] = [active |-> TRUE, url |-> Or(k.url, ""),
                                          secret |-> k.secret]]
  /\ Goto(c, "reget")
  /\ UNCHANGED <<issued, retired>>

\* Create: the INSERT, which fails when the name is taken.
Insert(c) ==
  LET k == call[c] IN
  /\ At(c, "insert")
  /\ IF Registered(k.name)
     THEN Answer(c, "duplicate") /\ UNCHANGED row
     ELSE /\ row' = [row EXCEPT ![k.name] = [active |-> TRUE, url |-> Or(k.url, ""),
                                             secret |-> k.secret]]
          /\ Goto(c, "reget")
  /\ UNCHANGED <<issued, retired>>

\* Update: Get ...
Get(c) ==
  LET k == call[c] IN
  /\ At(c, "get")
  /\ IF Registered(k.name)
     THEN Become(c, [k EXCEPT !.pc = "write", !.known = row[k.name]])
     ELSE Answer(c, "not_found")
  /\ UNCHANGED <<row, issued, retired>>

BadWriteRow(c) ==          \* the whole row that was read is written back
  LET k == call[c] IN
  /\ At(c, "write")
  /\ row' = [row EXCEPT ![k.name] = [active |-> Or(k.active, k.known.active),
                                     url |-> Or(k.url, k.known.url),
                                     secret |-> k.known.secret]]
  /\ Goto(c, "reget")
  /\ UNCHANGED <<issued, retired>>

\* ... and an UPDATE of both columns, with what Get read where nil was given.
Write(c) ==
  LET k == call[c] IN
  /\ At(c, "write")
  /\ row' = [row EXCEPT ![k.name].active = Or(k.active, k.known.active),
                        ![k.name].url    = Or(k.url, k.known.url)]
  /\ Goto(c, "reget")
  /\ UNCHANGED <<issued, retired>>

\* RotateSecret: UPDATE ... SET secret_hash.
Rotate(c) ==
  LET k == call[c] IN
  /\ At(c, "rotate")
  /\ IF Registered(k.name)
     THEN /\ row' = [row EXCEPT ![k.name].secret = k.secret]
          /\ retired' = retired \cup {row[k.name].secret}
          /\ Goto(c, "reget")
     ELSE Answer(c, "not_found") /\ UNCHANGED <<row, retired>>
  /\ UNCHANGED issued

\* The Get whose row is returned, with the new secret if there is one.
Reget(c) ==
  /\ At(c, "reget")
  /\ Answer(c, IF Registered(call[c].name) THEN "ok" ELSE "not_found")
  /\ UNCHANGED <<row, issued, retired>>

\* A statement fails, the client hangs up or the process dies.
Fail(c) == Live(c) /\ Answer(c, "error") /\ UNCHANGED <<row, issued, retired>>

Next == \E c \in Calls : \/ Start(c) \/ Find(c) \/ Insert(c) \/ Get(c) \/ Write(c)
                         \/ Rotate(c) \/ Reget(c) \/ Fail(c)

Spec == Init /\ [][Next]_vars

\* Authenticate: one SELECT; the secret must match and the product be active.
Authenticates(n, secret) == Registered(n) /\ row[n].secret = secret /\ row[n].active
-----------------------------------------------------------------------------
(***************************************************************************)
(* Properties                                                              *)
(***************************************************************************)
TypeOK == /\ row \in [Names -> Rows]
          /\ issued \in Secrets
          /\ retired \subseteq Secrets
          /\ call \in [Calls -> CallRecs]

\* "RotateSecret issues a new secret; the old one stops working immediately",
\* and for good: no update that had read the row before brings it back.
OldSecretIsDead == \A n \in Names, secret \in retired : ~Authenticates(n, secret)

\* A secret is shown once, so it must be the right one: the secret handed out by
\* Create or RotateSecret is the one in the product's row until it is replaced,
\* also when two calls create or rotate the same product at the same time.
HandedOutWorks ==
  \A c \in Calls :
    (At(c, "done") /\ call[c].res = "ok" /\ call[c].secret # NoSecret)
      => call[c].secret \in {row[call[c].name].secret} \cup retired
=============================================================================
