--------------------------- MODULE ClientsProofs ---------------------------
(***************************************************************************)
(* Proofs about Clients, for any products, URLs and number of calls in     *)
(* progress.                                                               *)
(***************************************************************************)
EXTENDS Clients, TLAPS

\* What a call has in hand at each of its statements.
WellFormed(k) ==
  /\ k.pc \in {"find", "insert"}   => k.url # {}
  /\ k.pc \in {"write", "reget"}   => Registered(k.name)
  /\ k.pc = "write"                => k.known.secret # NoSecret
  /\ k.pc \in {"insert", "rotate"} => k.secret # NoSecret
  /\ k.pc \in {"find", "get", "write"} => k.secret = NoSecret
CallOK == \A c \in Calls : WellFormed(call[c])

\* A secret that is generated and not yet stored.
Pending(c) == At(c, "insert") \/ At(c, "rotate")

\* Secrets in use have been generated.
Generated == /\ \A n \in Names : row[n].secret <= issued
             /\ \A secret \in retired : secret <= issued
             /\ \A c \in Calls : call[c].secret <= issued

\* A secret is pending at one call, in the row of one product, or retired.
OnePlace ==
  /\ \A c \in Calls : Pending(c) =>
       /\ call[c].secret \notin retired
       /\ \A n \in Names : row[n].secret # call[c].secret
       /\ \A d \in Calls \ {c} : Pending(d) => call[d].secret # call[c].secret
  /\ \A n \in Names : Registered(n) =>
       /\ row[n].secret \notin retired
       /\ \A m \in Names \ {n} : row[m].secret # row[n].secret

\* A call that has stored its secret finds it in the row or retired.
Stored ==
  \A c \in Calls :
    (At(c, "reget") \/ (At(c, "done") /\ call[c].res = "ok")) /\ call[c].secret # NoSecret
      => call[c].secret \in {row[call[c].name].secret} \cup retired

IInv == TypeOK /\ CallOK /\ Generated /\ OnePlace /\ Stored
-----------------------------------------------------------------------------
\* A step either leaves the table alone and moves one call ...
Quiet(c, k) ==
  /\ Become(c, k) /\ UNCHANGED <<row, issued, retired>>
  /\ WellFormed(k) /\ k.pc \notin {"insert", "rotate", "reget"}
  /\ k.secret \in {call[c].secret, NoSecret}
  /\ (k.pc = "done" /\ k.res = "ok") => (At(c, "reget") /\ k.name = call[c].name)

\* ... or gives it a new secret ...
Draws(c, k) ==
  /\ Become(c, k) /\ UNCHANGED <<row, retired>>
  /\ WellFormed(k) /\ k.pc \in {"insert", "rotate"}
  /\ issued' = issued + 1 /\ k.secret = issued'

\* ... or sets the row of its product.
Sets(c) == /\ Goto(c, "reget")
           /\ issued' = issued
           /\ \/ Insert(c) /\ ~Registered(call[c].name)
              \/ Write(c)
              \/ Rotate(c) /\ Registered(call[c].name)

LEMMA OrType ==
  ASSUME NEW S, NEW given \in Optional(S), NEW dflt, dflt \in S \/ given # {}
  PROVE  Or(given, dflt) \in S
<1>1. CASE given = {}
  BY <1>1 DEF Or
<1>2. CASE given # {}
  <2>1. PICK x \in S : given = {x}
    BY <1>2 DEF Optional
  <2>2. (CHOOSE y \in given : TRUE) = x
    BY <2>1
  <2>. QED
    BY <1>2, <2>1, <2>2 DEF Or
<1>. QED
  BY <1>1, <1>2

LEMMA NextSecret ==
  /\ NoSecret \in Secrets
  /\ issued \in Secrets /\ issued < MaxSecrets => issued + 1 \in Secrets \ {NoSecret}
BY SecretsAssumption DEF Secrets, NoSecret

\* A new call is well typed.
LEMMA CallType ==
  ASSUME NEW op \in {"create", "update", "rotate", "register"}, NEW n \in Names,
         NEW active \in Optional(BOOLEAN), NEW url \in Optional(Urls),
         NEW pc \in {"find", "get", "insert", "rotate"}, NEW secret \in Secrets
  PROVE  /\ [Call(op, "", n, active, url) EXCEPT !.secret = secret, !.pc = pc] \in CallRecs
         /\ Call(op, pc, n, active, url) \in CallRecs
<1>1. NoSecret \in Secrets /\ Absent \in Rows
  BY NextSecret DEF Rows
<1>. QED
  BY <1>1 DEF Call, CallRecs

LEMMA AnswerQuiet ==
  ASSUME TypeOK, NEW c \in Calls, NEW res \in {"ok", "not_found", "duplicate", "error"},
         Answer(c, res), UNCHANGED <<row, issued, retired>>, res = "ok" => At(c, "reget")
  PROVE  \E k \in CallRecs : Quiet(c, k)
<1>. DEFINE k == [call[c] EXCEPT !.pc = "done", !.res = res, !.active = {},
                                 !.url = {}, !.known = Absent]
<1>1. k \in CallRecs
  BY DEF TypeOK, CallRecs, Optional, Rows
<1>2. Become(c, k) /\ k.pc = "done" /\ k.res = res /\ k.secret = call[c].secret
      /\ k.name = call[c].name
  BY DEF TypeOK, CallRecs, Answer
<1>. HIDE DEF k
<1>. QED
  BY <1>1, <1>2 DEF Quiet, WellFormed

LEMMA StartShape ==
  ASSUME TypeOK, NEW c \in Calls, Start(c)
  PROVE  \E k \in CallRecs : Quiet(c, k) \/ Draws(c, k)
<1>. PICK n \in Names :
       \/ \E url \in Urls : Generate(c, Call("create", "", n, {}, {url}), "insert")
       \/ Generate(c, Call("rotate", "", n, {}, {}), "rotate")
       \/ /\ \/ \E url \in Urls : Become(c, Call("register", "find", n, {}, {url}))
             \/ \E active \in Optional(BOOLEAN), url \in Optional(Urls) :
                  Become(c, Call("update", "get", n, active, url))
          /\ UNCHANGED issued
  BY DEF Start
<1>. UNCHANGED <<row, retired>>
  BY DEF Start
<1>0. {} \in Optional(BOOLEAN) /\ {} \in Optional(Urls) /\ \A url \in Urls : {url} \in Optional(Urls)
  BY DEF Optional
<1>1. ASSUME NEW url \in Urls, Generate(c, Call("create", "", n, {}, {url}), "insert")
      PROVE  \E k \in CallRecs : Draws(c, k)
  <2>. DEFINE k == [Call("create", "", n, {}, {url}) EXCEPT !.secret = issued + 1, !.pc = "insert"]
  <2>1. issued + 1 \in Secrets /\ issued + 1 # NoSecret
    BY <1>1, NextSecret DEF Generate, TypeOK
  <2>2. k \in CallRecs
    BY <1>0, <2>1, CallType
  <2>3. k.pc = "insert" /\ k.secret = issued + 1 /\ k.url = {url}
    BY DEF Call
  <2>4. Become(c, k)
    BY <1>1 DEF Generate
  <2>. HIDE DEF k
  <2>. QED
    BY <1>1, <2>1, <2>2, <2>3, <2>4 DEF Generate, Draws, WellFormed
<1>2. ASSUME Generate(c, Call("rotate", "", n, {}, {}), "rotate")
      PROVE  \E k \in CallRecs : Draws(c, k)
  <2>. DEFINE k == [Call("rotate", "", n, {}, {}) EXCEPT !.secret = issued + 1, !.pc = "rotate"]
  <2>1. issued + 1 \in Secrets /\ issued + 1 # NoSecret
    BY <1>2, NextSecret DEF Generate, TypeOK
  <2>2. k \in CallRecs
    BY <1>0, <2>1, CallType
  <2>3. k.pc = "rotate" /\ k.secret = issued + 1
    BY DEF Call
  <2>4. Become(c, k)
    BY <1>2 DEF Generate
  <2>. HIDE DEF k
  <2>. QED
    BY <1>2, <2>1, <2>2, <2>3, <2>4 DEF Generate, Draws, WellFormed
<1>3. ASSUME NEW url \in Urls, Become(c, Call("register", "find", n, {}, {url})), UNCHANGED issued
      PROVE  \E k \in CallRecs : Quiet(c, k)
  <2>. DEFINE k == Call("register", "find", n, {}, {url})
  <2>1. k \in CallRecs
    BY <1>0, CallType, NextSecret
  <2>2. k.pc = "find" /\ k.url = {url} /\ k.secret = NoSecret
    BY DEF Call
  <2>3. Become(c, k)
    BY <1>3
  <2>. HIDE DEF k
  <2>. QED
    BY <1>3, <2>1, <2>2, <2>3 DEF Quiet, WellFormed
<1>4. ASSUME NEW active \in Optional(BOOLEAN), NEW url \in Optional(Urls),
             Become(c, Call("update", "get", n, active, url)), UNCHANGED issued
      PROVE  \E k \in CallRecs : Quiet(c, k)
  <2>. DEFINE k == Call("update", "get", n, active, url)
  <2>1. k \in CallRecs
    BY CallType, NextSecret
  <2>2. k.pc = "get" /\ k.secret = NoSecret
    BY DEF Call
  <2>3. Become(c, k)
    BY <1>4
  <2>. HIDE DEF k
  <2>. QED
    BY <1>4, <2>1, <2>2, <2>3 DEF Quiet, WellFormed
<1>. QED
  BY <1>1, <1>2, <1>3, <1>4

LEMMA FindShape ==
  ASSUME TypeOK, CallOK, NEW c \in Calls, Find(c)
  PROVE  \E k \in CallRecs : Quiet(c, k) \/ Draws(c, k)
<1>. call[c] \in CallRecs /\ WellFormed(call[c]) /\ At(c, "find")
  BY DEF TypeOK, CallOK, Find
<1>1. CASE Goto(c, "get") /\ UNCHANGED issued
  <2>. DEFINE k == [call[c] EXCEPT !.pc = "get"]
  <2>1. k \in CallRecs /\ k.pc = "get" /\ k.secret = call[c].secret
    BY DEF CallRecs
  <2>2. Become(c, k)
    BY <1>1 DEF Goto
  <2>. HIDE DEF k
  <2>. QED
    BY <1>1, <2>1, <2>2 DEF Find, Quiet, WellFormed, At
<1>2. CASE Answer(c, "duplicate") /\ UNCHANGED issued
  <2>1. \E k \in CallRecs : Quiet(c, k)
    BY <1>2, AnswerQuiet DEF Find
  <2>. QED
    BY <2>1
<1>3. CASE Generate(c, call[c], "insert")
  <2>. DEFINE k == [call[c] EXCEPT !.secret = issued + 1, !.pc = "insert"]
  <2>1. issued + 1 \in Secrets /\ issued + 1 # NoSecret
    BY <1>3, NextSecret DEF Generate, TypeOK
  <2>2. k \in CallRecs /\ k.pc = "insert" /\ k.secret = issued + 1 /\ k.url = call[c].url
    BY <2>1 DEF CallRecs
  <2>3. Become(c, k)
    BY <1>3 DEF Generate
  <2>. HIDE DEF k
  <2>. QED
    BY <1>3, <2>1, <2>2, <2>3 DEF Find, Generate, Draws, At, WellFormed
<1>. QED
  BY <1>1, <1>2, <1>3 DEF Find

LEMMA GetShape ==
  ASSUME TypeOK, CallOK, NEW c \in Calls, Get(c)
  PROVE  \E k \in CallRecs : Quiet(c, k)
<1>. /\ call[c] \in CallRecs /\ row[call[c].name] \in Rows
     /\ call[c].secret = NoSecret
  BY DEF TypeOK, CallRecs, CallOK, WellFormed, Get, At
<1>1. CASE Registered(call[c].name)
  <2>. DEFINE k == [call[c] EXCEPT !.pc = "write", !.known = row[call[c].name]]
  <2>1. k \in CallRecs /\ k.pc = "write" /\ k.secret = call[c].secret /\ k.name = call[c].name
        /\ k.known = row[call[c].name]
    BY DEF CallRecs
  <2>2. Become(c, k)
    BY <1>1 DEF Get
  <2>. HIDE DEF k
  <2>. QED
    BY <1>1, <2>1, <2>2 DEF Get, Quiet, WellFormed, Registered
<1>2. CASE ~Registered(call[c].name)
  BY <1>2, AnswerQuiet DEF Get
<1>. QED
  BY <1>1, <1>2

\* Every step has one of the three shapes.
LEMMA Shapes ==
  ASSUME TypeOK, CallOK, Next
  PROVE  \E c \in Calls : Sets(c) \/ \E k \in CallRecs : Quiet(c, k) \/ Draws(c, k)
<1>. PICK c \in Calls : \/ Start(c) \/ Find(c) \/ Insert(c) \/ Get(c) \/ Write(c)
                        \/ Rotate(c) \/ Reget(c) \/ Fail(c)
  BY DEF Next
<1>1. CASE Start(c)
  BY <1>1, StartShape
<1>2. CASE Find(c)
  BY <1>2, FindShape
<1>3. CASE Insert(c)
  <2>1. CASE Registered(call[c].name)
    BY <1>3, <2>1, AnswerQuiet DEF Insert
  <2>2. CASE ~Registered(call[c].name)
    BY <1>3, <2>2 DEF Insert, Sets
  <2>. QED
    BY <2>1, <2>2
<1>4. CASE Get(c)
  BY <1>4, GetShape
<1>5. CASE Write(c)
  BY <1>5 DEF Write, Sets
<1>6. CASE Rotate(c)
  <2>1. CASE Registered(call[c].name)
    BY <1>6, <2>1 DEF Rotate, Sets
  <2>2. CASE ~Registered(call[c].name)
    BY <1>6, <2>2, AnswerQuiet DEF Rotate
  <2>. QED
    BY <2>1, <2>2
<1>7. CASE Reget(c)
  BY <1>7, AnswerQuiet DEF Reget
<1>8. CASE Fail(c)
  BY <1>8, AnswerQuiet DEF Fail
<1>. QED
  BY <1>1, <1>2, <1>3, <1>4, <1>5, <1>6, <1>7, <1>8
-----------------------------------------------------------------------------
LEMMA InitIInv == Init => IInv
<1>. SUFFICES ASSUME Init PROVE IInv
  OBVIOUS
<1>. PICK n \in Names : call = [c \in Calls |-> Call("create", "idle", n, {}, {})]
  BY DEF Init
<1>1. Call("create", "idle", n, {}, {}) \in CallRecs
  <2>. {} \in Optional(BOOLEAN) /\ {} \in Optional(Urls) /\ NoSecret \in Secrets /\ Absent \in Rows
    BY NextSecret DEF Optional, Rows
  <2>. QED
    BY DEF Call, CallRecs
<1>2. TypeOK
  <2>. Absent \in Rows /\ 0 \in Secrets
    BY NextSecret DEF Rows, NoSecret
  <2>. QED
    BY <1>1 DEF Init, TypeOK
<1>3. \A c \in Calls : call[c].pc = "idle" /\ call[c].secret = NoSecret
  BY DEF Call
<1>4. \A m \in Names : row[m].secret = NoSecret
  BY DEF Init, Absent
<1>. QED
  BY <1>2, <1>3, <1>4 DEF Init, IInv, CallOK, WellFormed, Generated, OnePlace, Pending, At,
                          Stored, Registered, NoSecret

LEMMA RowType ==
  ASSUME NEW x \in Rows
  PROVE  /\ x.secret \in Secrets
         /\ x.secret # NoSecret =>
              x \in [active : BOOLEAN, url : Urls, secret : Secrets \ {NoSecret}]
<1>1. CASE x = Absent
  <2>1. x.secret = NoSecret
    BY <1>1 DEF Absent
  <2>. QED
    BY <2>1, NextSecret
<1>2. CASE x # Absent
  BY <1>2 DEF Rows
<1>. QED
  BY <1>1, <1>2

\* What Sets does to the row of its product and to the history.
LEMMA SetsEffect ==
  ASSUME TypeOK, CallOK, NEW c \in Calls, Sets(c)
  PROVE  LET n == call[c].name IN
         /\ n \in Names
         /\ row' = [row EXCEPT ![n] = row'[n]]
         /\ row'[n] \in Rows \ {Absent} /\ row'[n].secret # NoSecret
         /\ issued' = issued
         /\ call' = [call EXCEPT ![c].pc = "reget"]
         /\ \/ /\ Pending(c) /\ row'[n].secret = call[c].secret
               /\ IF Registered(n) THEN retired' = retired \cup {row[n].secret}
                                   ELSE UNCHANGED retired
            \/ /\ At(c, "write") /\ Registered(n) /\ row'[n].secret = row[n].secret
               /\ UNCHANGED retired
<1>. DEFINE k == call[c]  n == call[c].name
<1>1. k \in CallRecs /\ WellFormed(k) /\ n \in Names /\ row \in [Names -> Rows]
  BY DEF TypeOK, CallOK, CallRecs
<1>2. issued' = issued /\ call' = [call EXCEPT ![c].pc = "reget"]
  BY DEF Sets, Goto, Become
<1>3. CASE Insert(c) /\ ~Registered(n)
  <2>. DEFINE new == [active |-> TRUE, url |-> Or(k.url, ""), secret |-> k.secret]
  <2>1. row' = [row EXCEPT ![n] = new] /\ At(c, "insert") /\ UNCHANGED retired
    BY <1>3 DEF Insert
  <2>2. k.url \in Optional(Urls) /\ k.url # {} /\ k.secret \in Secrets \ {NoSecret}
    BY <1>1, <2>1 DEF WellFormed, At, CallRecs
  <2>3. Or(k.url, "") \in Urls
    BY <2>2, OrType
  <2>4. new \in [active : BOOLEAN, url : Urls, secret : Secrets \ {NoSecret}]
    BY <2>2, <2>3
  <2>5. new \in Rows \ {Absent} /\ new.secret = k.secret /\ k.secret # NoSecret
    BY <2>2, <2>4 DEF Rows, Absent
  <2>. HIDE DEF new
  <2>6. row'[n] = new /\ row' = [row EXCEPT ![n] = row'[n]]
    BY <1>1, <2>1
  <2>. QED
    BY <1>1, <1>2, <1>3, <2>1, <2>5, <2>6 DEF Pending
<1>4. CASE Write(c)
  <2>. DEFINE new == [row[n] EXCEPT !.active = Or(k.active, k.known.active),
                                    !.url    = Or(k.url, k.known.url)]
  <2>1. row' = [row EXCEPT ![n] = new] /\ At(c, "write") /\ UNCHANGED retired
    BY <1>1, <1>4 DEF Write
  <2>2. Registered(n) /\ k.known \in Rows /\ k.known.secret # NoSecret
        /\ k.active \in Optional(BOOLEAN) /\ k.url \in Optional(Urls)
    BY <1>1, <2>1 DEF WellFormed, At, CallRecs
  <2>3. row[n] \in [active : BOOLEAN, url : Urls, secret : Secrets \ {NoSecret}]
        /\ k.known \in [active : BOOLEAN, url : Urls, secret : Secrets \ {NoSecret}]
    BY <1>1, <2>2, RowType DEF Registered
  <2>4. Or(k.active, k.known.active) \in BOOLEAN /\ Or(k.url, k.known.url) \in Urls
    BY <2>2, <2>3, OrType
  <2>5. new \in [active : BOOLEAN, url : Urls, secret : Secrets \ {NoSecret}]
        /\ new.secret = row[n].secret
    BY <2>3, <2>4
  <2>6. new \in Rows \ {Absent} /\ new.secret # NoSecret
    BY <2>5 DEF Rows, Absent
  <2>. HIDE DEF new
  <2>7. row'[n] = new /\ row' = [row EXCEPT ![n] = row'[n]]
    BY <1>1, <2>1
  <2>. QED
    BY <1>1, <1>2, <2>1, <2>2, <2>5, <2>6, <2>7
<1>5. CASE Rotate(c) /\ Registered(n)
  <2>. DEFINE new == [row[n] EXCEPT !.secret = k.secret]
  <2>1. row' = [row EXCEPT ![n] = new] /\ At(c, "rotate")
        /\ retired' = retired \cup {row[n].secret}
    BY <1>1, <1>5 DEF Rotate
  <2>2. k.secret \in Secrets \ {NoSecret}
    BY <1>1, <2>1 DEF WellFormed, At, CallRecs
  <2>3. row[n] \in [active : BOOLEAN, url : Urls, secret : Secrets \ {NoSecret}]
    BY <1>1, <1>5, RowType DEF Registered
  <2>4. new \in [active : BOOLEAN, url : Urls, secret : Secrets \ {NoSecret}]
        /\ new.secret = k.secret
    BY <2>2, <2>3
  <2>5. new \in Rows \ {Absent} /\ new.secret # NoSecret
    BY <2>4 DEF Rows, Absent
  <2>. HIDE DEF new
  <2>6. row'[n] = new /\ row' = [row EXCEPT ![n] = row'[n]]
    BY <1>1, <2>1
  <2>. QED
    BY <1>1, <1>2, <1>5, <2>1, <2>4, <2>5, <2>6 DEF Pending
<1>. QED
  BY <1>3, <1>4, <1>5 DEF Sets
-----------------------------------------------------------------------------
LEMMA TypeStep ==
  ASSUME TypeOK, CallOK, [Next]_vars
  PROVE  TypeOK'
<1>1. CASE UNCHANGED vars
  BY <1>1 DEF vars, TypeOK
<1>2. ASSUME NEW c \in Calls, NEW k \in CallRecs, Quiet(c, k)
      PROVE  TypeOK'
  BY <1>2 DEF Quiet, Become, TypeOK
<1>3. ASSUME NEW c \in Calls, NEW k \in CallRecs, Draws(c, k)
      PROVE  TypeOK'
  <2>1. issued' \in Secrets
    BY <1>3 DEF Draws, CallRecs
  <2>. QED
    BY <1>3, <2>1 DEF Draws, Become, TypeOK
<1>4. ASSUME NEW c \in Calls, Sets(c)
      PROVE  TypeOK'
  <2>. DEFINE n == call[c].name
  <2>1. /\ n \in Names
        /\ row' = [row EXCEPT ![n] = row'[n]]
        /\ row'[n] \in Rows
        /\ issued' = issued
        /\ call' = [call EXCEPT ![c].pc = "reget"]
        /\ retired' = retired \/ retired' = retired \cup {row[n].secret}
    BY <1>4, SetsEffect
  <2>2. row[n].secret \in Secrets
    BY <2>1, RowType DEF TypeOK
  <2>3. [call[c] EXCEPT !.pc = "reget"] \in CallRecs
    BY DEF TypeOK, CallRecs
  <2>4. row' \in [Names -> Rows]
    BY <2>1 DEF TypeOK
  <2>5. call' \in [Calls -> CallRecs]
    BY <2>1, <2>3 DEF TypeOK
  <2>. QED
    BY <2>1, <2>2, <2>4, <2>5 DEF TypeOK
<1>. QED
  BY <1>1, <1>2, <1>3, <1>4, Shapes

LEMMA CallStep ==
  ASSUME TypeOK, CallOK, [Next]_vars
  PROVE  CallOK'
<1>1. CASE UNCHANGED vars
  BY <1>1 DEF vars, CallOK, WellFormed, Registered
<1>2. ASSUME NEW c \in Calls, NEW k \in CallRecs, Quiet(c, k) \/ Draws(c, k)
      PROVE  CallOK'
  BY <1>2 DEF Quiet, Draws, Become, TypeOK, CallOK, WellFormed, Registered
<1>3. ASSUME NEW c \in Calls, Sets(c)
      PROVE  CallOK'
  <2>. DEFINE n == call[c].name
  <2>1. /\ n \in Names
        /\ row' = [row EXCEPT ![n] = row'[n]]
        /\ row'[n].secret # NoSecret
        /\ call' = [call EXCEPT ![c].pc = "reget"]
    BY <1>3, SetsEffect
  <2>2. \A m \in Names : Registered(m) => Registered(m)'
    BY <2>1 DEF Registered, TypeOK
  <2>3. Registered(n)'
    BY <2>1 DEF Registered
  <2>4. ASSUME NEW d \in Calls PROVE WellFormed(call[d])'
    <3>1. CASE d = c
      <4>1. call'[c].pc = "reget" /\ call'[c].name = n
        BY <2>1 DEF TypeOK, CallRecs
      <4>. QED
        BY <2>3, <3>1, <4>1 DEF WellFormed
    <3>2. CASE d # c
      <4>1. call'[d] = call[d] /\ call[d].name \in Names
        BY <2>1, <3>2 DEF TypeOK, CallRecs
      <4>. QED
        BY <2>2, <4>1 DEF CallOK, WellFormed
    <3>. QED
      BY <3>1, <3>2
  <2>. QED
    BY <2>4 DEF CallOK
<1>. QED
  BY <1>1, <1>2, <1>3, Shapes

LEMMA GeneratedStep ==
  ASSUME TypeOK, CallOK, Generated, [Next]_vars
  PROVE  Generated'
<1>. USE DEF Generated
<1>. issued \in Nat /\ NoSecret <= issued
  BY SecretsAssumption DEF TypeOK, Secrets, NoSecret
<1>1. CASE UNCHANGED vars
  BY <1>1 DEF vars
<1>2. ASSUME NEW c \in Calls, NEW k \in CallRecs, Quiet(c, k)
      PROVE  Generated'
  BY <1>2 DEF Quiet, Become, TypeOK
<1>3. ASSUME NEW c \in Calls, NEW k \in CallRecs, Draws(c, k)
      PROVE  Generated'
  <2>1. \A n \in Names : row[n].secret \in Nat
    BY RowType, SecretsAssumption DEF TypeOK, Secrets
  <2>2. \A secret \in retired : secret \in Nat
    BY SecretsAssumption DEF TypeOK, Secrets
  <2>3. \A d \in Calls : call[d].secret \in Nat
    BY SecretsAssumption DEF TypeOK, CallRecs, Secrets
  <2>4. issued' = issued + 1 /\ UNCHANGED <<row, retired>>
        /\ \A d \in Calls : call'[d].secret \in {call[d].secret, issued'}
    BY <1>3 DEF Draws, Become, TypeOK
  <2>. QED
    BY <2>1, <2>2, <2>3, <2>4
<1>4. ASSUME NEW c \in Calls, Sets(c)
      PROVE  Generated'
  <2>. DEFINE n == call[c].name
  <2>1. /\ n \in Names
        /\ row' = [row EXCEPT ![n] = row'[n]]
        /\ row'[n].secret \in {call[c].secret, row[n].secret}
        /\ issued' = issued
        /\ call' = [call EXCEPT ![c].pc = "reget"]
        /\ retired' = retired \/ retired' = retired \cup {row[n].secret}
    BY <1>4, SetsEffect
  <2>2. \A m \in Names : row'[m].secret <= issued
    BY <2>1 DEF TypeOK
  <2>3. \A d \in Calls : call'[d].secret = call[d].secret
    BY <2>1 DEF TypeOK, CallRecs
  <2>. QED
    BY <2>1, <2>2, <2>3
<1>. QED
  BY <1>1, <1>2, <1>3, <1>4, Shapes

LEMMA OnePlaceStep ==
  ASSUME TypeOK, CallOK, Generated, OnePlace, [Next]_vars
  PROVE  OnePlace'
<1>1. CASE UNCHANGED vars
  BY <1>1 DEF vars, OnePlace, Pending, At, Registered
<1>2. ASSUME NEW c \in Calls, NEW k \in CallRecs, Quiet(c, k)
      PROVE  OnePlace'
  <2>1. \A d \in Calls : d # c => call'[d] = call[d]
    BY <1>2 DEF Quiet, Become, TypeOK
  <2>2. ~Pending(c)' /\ UNCHANGED <<row, retired>>
    BY <1>2 DEF Quiet, Become, TypeOK, Pending, At
  <2>. QED
    BY <2>1, <2>2 DEF OnePlace, Pending, At, Registered
<1>3. ASSUME NEW c \in Calls, NEW k \in CallRecs, Draws(c, k)
      PROVE  OnePlace'
  <2>1. \A d \in Calls : d # c => call'[d] = call[d]
    BY <1>3 DEF Draws, Become, TypeOK
  <2>2. UNCHANGED <<row, retired>> /\ call'[c].secret = issued + 1
    BY <1>3 DEF Draws, Become, TypeOK
  <2>3. issued \in Nat
    BY SecretsAssumption DEF TypeOK, Secrets
  <2>4. /\ issued + 1 \notin retired
        /\ \A n \in Names : row[n].secret # issued + 1
        /\ \A d \in Calls : call[d].secret # issued + 1
    BY <2>3 DEF Generated
  <2>. QED
    BY <2>1, <2>2, <2>4 DEF OnePlace, Pending, At, Registered
<1>4. ASSUME NEW c \in Calls, Sets(c)
      PROVE  OnePlace'
  <2>. DEFINE n == call[c].name
  <2>1. /\ n \in Names
        /\ row' = [row EXCEPT ![n] = row'[n]]
        /\ call' = [call EXCEPT ![c].pc = "reget"]
        /\ row'[n].secret # NoSecret
    BY <1>4, SetsEffect
  <2>2. \A m \in Names : m # n => row'[m] = row[m]
    BY <2>1 DEF TypeOK
  <2>3. /\ \A d \in Calls : d # c => call'[d] = call[d]
        /\ ~Pending(c)'
        /\ \A d \in Calls : call'[d].secret = call[d].secret
    BY <2>1 DEF TypeOK, CallRecs, Pending, At
  <2>. HIDE DEF n
  <2>4. CASE /\ At(c, "write") /\ Registered(n) /\ row'[n].secret = row[n].secret
             /\ UNCHANGED retired
    <3>1. \A m \in Names : row'[m].secret = row[m].secret
      BY <2>2, <2>4
    <3>. QED
      BY <2>3, <2>4, <3>1 DEF OnePlace, Pending, At, Registered
  <2>5. CASE /\ Pending(c) /\ row'[n].secret = call[c].secret
             /\ IF Registered(n) THEN retired' = retired \cup {row[n].secret}
                                 ELSE UNCHANGED retired
    <3>1. /\ call[c].secret \notin retired'
          /\ \A m \in Names : m # n => row[m].secret # call[c].secret
      BY <2>1, <2>5 DEF OnePlace
    <3>2. ASSUME NEW d \in Calls, Pending(d)'
          PROVE  /\ call[d].secret \notin retired'
                 /\ \A m \in Names : row'[m].secret # call[d].secret
                 /\ \A q \in Calls \ {d} : Pending(q)' => call[q].secret # call[d].secret
      <4>1. d # c /\ Pending(d)
        BY <2>3, <3>2 DEF Pending, At
      <4>2. \A q \in Calls : Pending(q)' => Pending(q)
        BY <2>3 DEF Pending, At
      <4>. QED
        BY <2>1, <2>2, <2>5, <4>1, <4>2 DEF OnePlace
    <3>3. ASSUME NEW m \in Names, Registered(m)'
          PROVE  /\ row'[m].secret \notin retired'
                 /\ \A q \in Names \ {m} : row'[q].secret # row'[m].secret
      <4>1. CASE m = n
        BY <2>2, <2>5, <3>1, <4>1
      <4>2. CASE m # n
        <5>1. Registered(m) /\ row'[m] = row[m]
          BY <2>2, <3>3, <4>2 DEF Registered
        <5>2. row[m].secret \notin retired'
          BY <2>1, <2>5, <4>2, <5>1 DEF OnePlace
        <5>. QED
          BY <2>1, <2>2, <2>5, <3>1, <5>1, <5>2 DEF OnePlace
      <4>. QED
        BY <4>1, <4>2
    <3>. QED
      BY <2>3, <3>2, <3>3 DEF OnePlace
  <2>. QED
    BY <1>4, <2>4, <2>5, SetsEffect DEF n
<1>. QED
  BY <1>1, <1>2, <1>3, <1>4, Shapes

LEMMA StoredStep ==
  ASSUME TypeOK, CallOK, Stored, [Next]_vars
  PROVE  Stored'
<1>1. CASE UNCHANGED vars
  BY <1>1 DEF vars, Stored, At
<1>2. ASSUME NEW c \in Calls, NEW k \in CallRecs, Quiet(c, k)
      PROVE  Stored'
  <2>1. \A d \in Calls : d # c => call'[d] = call[d]
    BY <1>2 DEF Quiet, Become, TypeOK
  <2>2. call'[c] = k /\ UNCHANGED <<row, retired>>
    BY <1>2 DEF Quiet, Become, TypeOK
  <2>3. (k.pc = "done" /\ k.res = "ok")
          => At(c, "reget") /\ k.name = call[c].name /\ k.secret \in {call[c].secret, NoSecret}
    BY <1>2 DEF Quiet
  <2>4. k.pc # "reget"
    BY <1>2 DEF Quiet
  <2>. QED
    BY <2>1, <2>2, <2>3, <2>4 DEF Stored, At
<1>3. ASSUME NEW c \in Calls, NEW k \in CallRecs, Draws(c, k)
      PROVE  Stored'
  <2>1. \A d \in Calls : d # c => call'[d] = call[d]
    BY <1>3 DEF Draws, Become, TypeOK
  <2>2. call'[c].pc \in {"insert", "rotate"} /\ UNCHANGED <<row, retired>>
    BY <1>3 DEF Draws, Become, TypeOK
  <2>. QED
    BY <2>1, <2>2 DEF Stored, At
<1>4. ASSUME NEW c \in Calls, Sets(c)
      PROVE  Stored'
  <2>. DEFINE n == call[c].name
  <2>1. /\ n \in Names
        /\ row' = [row EXCEPT ![n] = row'[n]]
        /\ call' = [call EXCEPT ![c].pc = "reget"]
    BY <1>4, SetsEffect
  <2>2. \A m \in Names : m # n => row'[m] = row[m]
    BY <2>1 DEF TypeOK
  <2>3. /\ \A d \in Calls : d # c => call'[d] = call[d]
        /\ call'[c].name = n /\ call'[c].secret = call[c].secret
    BY <2>1 DEF TypeOK, CallRecs
  <2>. HIDE DEF n
  <2>. \A d \in Calls : call[d].name \in Names
    BY DEF TypeOK, CallRecs
  <2>4. CASE /\ At(c, "write") /\ Registered(n) /\ row'[n].secret = row[n].secret
             /\ UNCHANGED retired
    <3>1. call[c].secret = NoSecret
      BY <2>4 DEF CallOK, WellFormed, At
    <3>2. \A m \in Names : row'[m].secret = row[m].secret
      BY <2>2, <2>4
    <3>. QED
      BY <2>3, <2>4, <3>1, <3>2 DEF Stored, At
  <2>5. CASE /\ Pending(c) /\ row'[n].secret = call[c].secret
             /\ IF Registered(n) THEN retired' = retired \cup {row[n].secret}
                                 ELSE UNCHANGED retired
    BY <2>2, <2>3, <2>5 DEF Stored, At, Registered
  <2>. QED
    BY <1>4, <2>4, <2>5, SetsEffect DEF n
<1>. QED
  BY <1>1, <1>2, <1>3, <1>4, Shapes
-----------------------------------------------------------------------------
\* The types of the registry and of the calls, for any number of each.
THEOREM TypeCorrect == Spec => []TypeOK
<1>1. Init => IInv
  BY InitIInv
<1>2. IInv /\ [Next]_vars => IInv'
  BY TypeStep, CallStep, GeneratedStep, OnePlaceStep, StoredStep DEF IInv
<1>. QED
  BY <1>1, <1>2, PTL DEF Spec, IInv

\* RotateSecret: once replaced, a secret never authenticates again, whatever
\* creations, updates and rotations run at the same time.
THEOREM OldSecretStaysDead == Spec => []OldSecretIsDead
<1>1. Init => IInv
  BY InitIInv
<1>2. IInv /\ [Next]_vars => IInv'
  BY TypeStep, CallStep, GeneratedStep, OnePlaceStep, StoredStep DEF IInv
<1>3. IInv => OldSecretIsDead
  BY DEF IInv, OnePlace, OldSecretIsDead, Authenticates
<1>. QED
  BY <1>1, <1>2, <1>3, PTL DEF Spec

\* A secret handed out by Create or RotateSecret is the stored one until another
\* rotation replaces it.
THEOREM HandedOutSecretWorks == Spec => []HandedOutWorks
<1>1. Init => IInv
  BY InitIInv
<1>2. IInv /\ [Next]_vars => IInv'
  BY TypeStep, CallStep, GeneratedStep, OnePlaceStep, StoredStep DEF IInv
<1>3. IInv => HandedOutWorks
  BY DEF IInv, Stored, HandedOutWorks
<1>. QED
  BY <1>1, <1>2, <1>3, PTL DEF Spec
=============================================================================
