----------------------- MODULE TransferConsoleProofs -----------------------
(***************************************************************************)
(* Proofs about the api process and the transfer page on top of it, for    *)
(* any number of connections, keys, payloads, accounts and forms.          *)
(***************************************************************************)
EXTENDS TransferConsole, FiniteSetTheorems, TLAPS

\* A connection's record agrees with the call it made, with what that call
\* returned and with what the database holds.
ConnTrue(p) ==
    /\ request[p] = None \/ reply[p] = None
    /\ conn[p].stage = "account" => conn[p].resource \in AccountIds
    /\ conn[p].stage = "transfer" =>
          /\ conn[p].resource \in Keys
          /\ request[p] # None => request[p].key = conn[p].resource
          /\ reply[p] # None /\ reply[p].code \in Service!Successes =>
                /\ reply[p].result \in Payloads
                /\ posted[conn[p].resource] = reply[p].result
    /\ conn[p].stage = "audit" => conn[p].status = 201
    /\ conn[p].status = 201 =>
          /\ conn[p].stage \in {"audit", "flush"}
          /\ \/ conn[p].resource \in accounts
             \/ /\ conn[p].resource \in Keys
                /\ conn[p].result \in Payloads
                /\ posted[conn[p].resource] = conn[p].result
          /\ conn[p].stage = "flush" => conn[p].resource \in auditLog \/ conn[p].auditError

\* What the page awaits is the answer to the form it sent under its key.
AwaitedTrue ==
    call # None =>
        /\ step # "result"
        /\ sent \in Payloads
        /\ conn[call].stage \in {"transfer", "audit", "flush"}
        /\ conn[call].stage = "transfer" =>
              /\ conn[call].resource = idempotencyKey
              /\ request[call] # None => request[call].body = sent
              /\ reply[call] # None /\ reply[call].code \in Service!Successes =>
                    reply[call].result = sent
        /\ conn[call].status = 201 =>
              conn[call].resource = idempotencyKey /\ conn[call].result = sent

\* Nothing was ever asked for, or paid, under a key that is not drawn yet.
KeysDrawn ==
    /\ forms = idempotencyKey
    /\ \A k \in Keys : posted[k] # None => k <= idempotencyKey
    /\ \A p \in Procs : request[p] # None => request[p].key <= idempotencyKey

ConsoleInv ==
    /\ TypeOK
    /\ reply \in [Procs -> Service!Reply \union {None}]
    /\ \A p \in Procs : ConnTrue(p)
    /\ AuditTruthful
    /\ AwaitedTrue
    /\ step = "result" => result \in Payloads
    /\ ResultTrue
    /\ KeysDrawn

-----------------------------------------------------------------------------
(* The api's steps. *)

\* Every error code a handler can meet has a status that is an error.
LEMMA ErrorStatus ==
    ASSUME NEW code \in Service!Errors \union DomainCodes
    PROVE  StatusForError(code) \in Statuses /\ StatusForError(code) >= 400
<1>1. code \in DomainCodes \union {"error", "PAYLOAD_MISMATCH", "FAILED_KEY"}
  BY ApiAssumption DEF Service!Errors, DomainCodes
<1> QED
  BY <1>1 DEF StatusForError, Statuses, DomainCodes

\* An error of Execute is told from its successes by its code.
LEMMA CodesApart == Service!Errors \intersect Service!Successes = {}
  BY ApiAssumption DEF Service!Errors, Service!Successes, DomainCodes

\* What a handler's answer leaves in its connection.
LEMMA WrittenConn ==
    ASSUME conn \in [Procs -> Conn], NEW p \in Procs,
           NEW s \in Statuses, NEW id \in Resources \union {None},
           NEW res \in Payloads \union {None}, Written(p, s, id, res)
    PROVE  \E c \in Conn :
              /\ conn' = [conn EXCEPT ![p] = c]
              /\ c.stage = (IF s >= 400 THEN "flush" ELSE "audit")
              /\ c.status = s /\ c.resource = id /\ c.result = res
<1> DEFINE c == [conn[p] EXCEPT !.status = s, !.resource = id, !.result = res,
                                !.stage = IF s >= 400 THEN "flush" ELSE "audit"]
<1>1. conn[p] \in Conn
  OBVIOUS
<1>2. c \in Conn
  <2> DEFINE st == IF s >= 400 THEN "flush" ELSE "audit"
  <2>1. st \in {"free", "transfer", "account", "audit", "flush"}
    OBVIOUS
  <2> HIDE DEF st
  <2>2. [conn[p] EXCEPT !.status = s, !.resource = id, !.result = res, !.stage = st] \in Conn
    BY <1>1, <2>1 DEF Conn
  <2> QED
    BY <2>2 DEF st
<1>3. /\ c.stage = (IF s >= 400 THEN "flush" ELSE "audit")
      /\ c.status = s /\ c.resource = id /\ c.result = res
  BY <1>1 DEF Conn
<1>4. conn' = [conn EXCEPT ![p] = c]
  BY DEF Written
<1> QED
  BY <1>2, <1>3, <1>4

\* A step on connection p leaves the other connections' truth alone: tables only
\* grow, and what is committed under a key stays.
LEMMA ServerStep ==
    ASSUME ConsoleInv, NEW p \in Procs, UNCHANGED page,
           ApiTypeOK', reply' \in [Procs -> Service!Reply \union {None}],
           \A q \in Procs \ {p} : /\ conn'[q] = conn[q]
                                  /\ request'[q] = request[q]
                                  /\ reply'[q] = reply[q],
           accounts \subseteq accounts', auditLog \subseteq auditLog',
           \A k \in Keys : posted[k] # None => posted'[k] = posted[k],
           \A r \in auditLog' \ auditLog : r \in accounts' \/ (r \in Keys /\ posted'[r] # None),
           ConnTrue(p)', call = p => AwaitedTrue', KeysDrawn'
    PROVE  ConsoleInv'
<1> USE ConsoleAssumption DEF ConsoleInv
<1>1. ASSUME NEW q \in Procs, q # p
      PROVE  ConnTrue(q)'
  BY <1>1 DEF ConnTrue, TypeOK, ApiTypeOK
<1>2. AuditTruthful'
  BY DEF AuditTruthful
<1>3. AwaitedTrue'
  <2> SUFFICES ASSUME call # p, call # None
               PROVE  AwaitedTrue'
    BY DEF page, AwaitedTrue
  <2>1. call \in Procs \ {p}
    BY DEF TypeOK
  <2> QED
    BY <2>1 DEF page, AwaitedTrue
<1>4. ResultTrue' /\ (step' = "result" => result' \in Payloads)
  BY DEF ResultTrue, page, TypeOK
<1>5. TypeOK'
  BY <1>3 DEF page, TypeOK, AwaitedTrue
<1> QED
  BY <1>1, <1>2, <1>3, <1>4, <1>5

\* Execute commits the transfer of its call.
LEMMA CommitStep ==
    ASSUME ConsoleInv, NEW p \in Procs, UNCHANGED page,
           Service!Commit(p), UNCHANGED <<conn, ledgers>>
    PROVE  ConsoleInv'
<1> USE ConsoleAssumption DEF ConsoleInv
<1>0. /\ request[p] # None /\ posted[request[p].key] = None
      /\ posted' = [posted EXCEPT ![request[p].key] = request[p].body]
      /\ UNCHANGED <<request, reply, conn, accounts, auditLog>>
  BY DEF Service!Commit, ledgers
<1>1. request[p] \in Service!Request
  BY <1>0 DEF TypeOK, ApiTypeOK
<1>2. request[p].key \in Keys /\ request[p].body \in Payloads
  BY <1>1 DEF Service!Request
<1>3. \A k \in Keys : posted[k] # None => posted'[k] = posted[k]
  BY <1>0, <1>2 DEF TypeOK, ApiTypeOK
<1>4. ApiTypeOK'
  BY <1>0, <1>2 DEF TypeOK, ApiTypeOK
<1>5. ConnTrue(p)'
  BY <1>0, <1>3 DEF ConnTrue
<1>6. AwaitedTrue'
  BY <1>0 DEF AwaitedTrue, page
<1>7. KeysDrawn'
  BY <1>0, <1>2 DEF KeysDrawn, page, TypeOK, ApiTypeOK
<1> QED
  BY <1>0, <1>3, <1>4, <1>5, <1>6, <1>7, ServerStep

\* Execute returns: a success is the transfer committed under the key.
LEMMA ReturnStep ==
    ASSUME ConsoleInv, NEW p \in Procs, UNCHANGED page, request[p] # None,
           NEW code \in Service!Successes \union Service!Errors,
           NEW res \in Payloads \union {None}, Service!Return(p, code, res),
           code \in Service!Successes =>
              res = request[p].body /\ posted[request[p].key] = request[p].body,
           UNCHANGED <<conn, ledgers>>
    PROVE  ConsoleInv'
<1> USE ConsoleAssumption DEF ConsoleInv
<1> DEFINE answer == [code |-> code, result |-> res]
<1>0. /\ request' = [request EXCEPT ![p] = None]
      /\ reply' = [reply EXCEPT ![p] = answer]
      /\ UNCHANGED <<posted, conn, accounts, auditLog>>
  BY DEF Service!Return, ledgers
<1>1. request[p] \in Service!Request
  BY DEF TypeOK, ApiTypeOK
<1>2. request[p].key \in Keys /\ request[p].body \in Payloads
  BY <1>1 DEF Service!Request
<1>3. answer \in Service!Reply /\ answer # None
  BY DEF Service!Reply
<1>4. conn[p].stage = "transfer" /\ conn[p].status # 201
  BY DEF TypeOK, ApiTypeOK, ConnTrue
<1>5. /\ request'[p] = None /\ reply'[p] = answer
      /\ request' \in [Procs -> Service!Request \union {None}]
      /\ reply' \in [Procs -> Service!Reply \union {None}]
  BY <1>0, <1>3 DEF TypeOK, ApiTypeOK
<1>6. ApiTypeOK'
  <2>1. \A q \in Procs : (request'[q] # None \/ reply'[q] # None) <=> (request[q] # None \/ reply[q] # None)
    BY <1>0, <1>3, <1>5 DEF TypeOK, ApiTypeOK
  <2> QED
    BY <1>0, <1>5, <2>1 DEF TypeOK, ApiTypeOK
<1> HIDE DEF answer
<1>7. answer.code \in Service!Successes => answer.result = request[p].body /\ posted[request[p].key] = request[p].body
  BY DEF answer
<1>8. ConnTrue(p)'
  BY <1>0, <1>2, <1>4, <1>5, <1>7 DEF ConnTrue
<1>9. call = p => AwaitedTrue'
  BY <1>0, <1>4, <1>5, <1>7 DEF AwaitedTrue, page
<1>10. KeysDrawn'
  BY <1>0 DEF KeysDrawn, page, TypeOK, ApiTypeOK
<1> QED
  BY <1>0, <1>5, <1>6, <1>8, <1>9, <1>10, ServerStep DEF TypeOK, ApiTypeOK

\* The handler of POST /v1/transfers writes its answer.
LEMMA TransferDoneStep ==
    ASSUME ConsoleInv, NEW p \in Procs, UNCHANGED page, TransferDone(p)
    PROVE  ConsoleInv'
<1> USE ConsoleAssumption DEF ConsoleInv
<1>0. /\ conn[p].stage = "transfer" /\ reply[p] # None
      /\ reply' = [reply EXCEPT ![p] = None]
      /\ UNCHANGED <<posted, request, accounts, auditLog>>
  BY DEF TransferDone, Service!Collect, ledgers
<1>1. request[p] = None /\ reply[p] \in Service!Reply
  BY <1>0 DEF ConnTrue
<1>2. conn[p].resource \in Keys
  BY <1>0 DEF ConnTrue
<1>3. PICK c \in Conn :
         /\ conn' = [conn EXCEPT ![p] = c]
         /\ \/ /\ reply[p].code \in Service!Successes
               /\ c.stage = "audit" /\ c.status = 201
               /\ c.resource = conn[p].resource /\ c.result = reply[p].result
            \/ c.stage = "flush" /\ c.status # 201
  <2>1. CASE reply[p].code \in Service!Successes
    <3>1. Written(p, 201, conn[p].resource, reply[p].result)
      BY <2>1 DEF TransferDone
    <3>2. 201 \in Statuses /\ ~ (201 >= 400)
      BY DEF Statuses
    <3>3. reply[p].result \in Payloads \union {None} /\ conn[p].resource \in Resources \union {None}
      BY <1>1, <1>2 DEF Service!Reply, Resources
    <3> QED
      BY <2>1, <3>1, <3>2, <3>3, WrittenConn DEF TypeOK, ApiTypeOK
  <2>2. CASE reply[p].code \notin Service!Successes
    <3>1. Written(p, StatusForError(reply[p].code), None, None)
      BY <2>2 DEF TransferDone
    <3>2. reply[p].code \in Service!Errors
      BY <1>1, <2>2 DEF Service!Reply
    <3>3. StatusForError(reply[p].code) \in Statuses /\ StatusForError(reply[p].code) >= 400
      BY <3>2, ErrorStatus
    <3> QED
      BY <3>1, <3>3, WrittenConn DEF TypeOK, ApiTypeOK
  <2> QED
    BY <2>1, <2>2
<1>4. /\ conn'[p] = c /\ reply'[p] = None /\ request'[p] = None
      /\ \A q \in Procs \ {p} : conn'[q] = conn[q] /\ reply'[q] = reply[q] /\ request'[q] = request[q]
      /\ reply' \in [Procs -> Service!Reply \union {None}]
  BY <1>0, <1>1, <1>3 DEF TypeOK, ApiTypeOK
<1>5. ApiTypeOK'
  BY <1>0, <1>3, <1>4 DEF TypeOK, ApiTypeOK
<1>6. ConnTrue(p)'
  BY <1>0, <1>2, <1>3, <1>4 DEF ConnTrue
<1>7. call = p => AwaitedTrue'
  BY <1>0, <1>3, <1>4 DEF AwaitedTrue, page
<1>8. KeysDrawn'
  BY <1>0 DEF KeysDrawn, page
<1> QED
  BY <1>0, <1>4, <1>5, <1>6, <1>7, <1>8, ServerStep

\* The handler of POST /v1/accounts writes its answer.
LEMMA CreateAccountStep ==
    ASSUME ConsoleInv, NEW p \in Procs, UNCHANGED page, CreateAccount(p)
    PROVE  ConsoleInv'
<1> USE ConsoleAssumption DEF ConsoleInv
<1>0. /\ conn[p].stage = "account"
      /\ accounts' \in {accounts, accounts \union {conn[p].resource}}
      /\ UNCHANGED <<posted, request, reply, auditLog>>
  BY DEF CreateAccount, service
<1>1. conn[p].resource \in AccountIds
  BY <1>0 DEF ConnTrue
<1>2. PICK c \in Conn :
         /\ conn' = [conn EXCEPT ![p] = c]
         /\ \/ /\ c.stage = "audit" /\ c.status = 201
               /\ c.resource = conn[p].resource /\ c.resource \in accounts'
            \/ c.stage = "flush" /\ c.status # 201
  <2>1. CASE Written(p, 201, conn[p].resource, None) /\ accounts' = accounts \union {conn[p].resource}
    <3>1. 201 \in Statuses /\ ~ (201 >= 400)
      BY DEF Statuses
    <3>2. conn[p].resource \in Resources \union {None}
      BY <1>1 DEF Resources
    <3> QED
      BY <2>1, <3>1, <3>2, WrittenConn DEF TypeOK, ApiTypeOK
  <2>2. ASSUME NEW code \in {"CONFLICT", "error"}, Written(p, StatusForError(code), None, None)
        PROVE  \E c \in Conn : /\ conn' = [conn EXCEPT ![p] = c]
                               /\ c.stage = "flush" /\ c.status # 201
    <3>1. StatusForError(code) \in Statuses /\ StatusForError(code) >= 400
      BY <2>2, ErrorStatus DEF Service!Errors, DomainCodes
    <3> QED
      BY <2>2, <3>1, WrittenConn DEF TypeOK, ApiTypeOK
  <2> QED
    BY <2>1, <2>2 DEF CreateAccount
<1>3. conn'[p] = c /\ \A q \in Procs \ {p} : conn'[q] = conn[q]
  BY <1>2 DEF TypeOK, ApiTypeOK
<1>4. ApiTypeOK'
  BY <1>0, <1>1, <1>2, <1>3 DEF TypeOK, ApiTypeOK
<1>5. ConnTrue(p)'
  BY <1>0, <1>2, <1>3 DEF ConnTrue, TypeOK, ApiTypeOK
<1>6. call # p
  BY <1>0 DEF AwaitedTrue
<1>7. KeysDrawn'
  BY <1>0 DEF KeysDrawn, page
<1> QED
  BY <1>0, <1>3, <1>4, <1>5, <1>6, <1>7, ServerStep

\* The audit middleware runs before the answer is sent.
LEMMA AuditStep ==
    ASSUME ConsoleInv, NEW p \in Procs, UNCHANGED page, AuditWritten(p) \/ AuditFails(p)
    PROVE  ConsoleInv'
<1> USE ConsoleAssumption DEF ConsoleInv
<1>0. conn[p].stage = "audit" /\ conn[p].status = 201 /\ conn[p] \in Conn
  BY DEF AuditWritten, AuditFails, ConnTrue, TypeOK, ApiTypeOK
<1>1. /\ \/ conn' = [conn EXCEPT ![p].stage = "flush"]
         \/ conn' = [conn EXCEPT ![p].stage = "flush", ![p].auditError = TRUE]
      /\ auditLog' \in {auditLog, auditLog \union {conn[p].resource}}
      /\ UNCHANGED <<posted, request, reply, accounts>>
  BY DEF AuditWritten, AuditFails, service, ledgers
<1>2. /\ conn'[p] \in Conn
      /\ conn'[p].stage = "flush" /\ conn'[p].status = 201
      /\ conn'[p].resource = conn[p].resource /\ conn'[p].result = conn[p].result
  BY <1>0, <1>1 DEF Conn, TypeOK, ApiTypeOK
<1>3. conn'[p].resource \in auditLog' \/ conn'[p].auditError
  BY <1>0, <1>2 DEF AuditWritten, AuditFails, Conn, TypeOK, ApiTypeOK
<1>4. \A q \in Procs \ {p} : conn'[q] = conn[q]
  BY <1>1 DEF TypeOK, ApiTypeOK
<1>5. conn' \in [Procs -> Conn]
  <2>1. DOMAIN conn' = Procs /\ conn' = [q \in Procs |-> conn'[q]]
    BY <1>1 DEF TypeOK, ApiTypeOK
  <2> QED
    BY <1>2, <1>4, <2>1 DEF TypeOK, ApiTypeOK
<1>6. ApiTypeOK'
  BY <1>0, <1>1, <1>2, <1>4, <1>5, SMTT(30) DEF TypeOK, ApiTypeOK, Conn
<1>7. ConnTrue(p)'
  BY <1>0, <1>1, <1>2, <1>3 DEF ConnTrue
<1>8. call = p => AwaitedTrue'
  BY <1>0, <1>1, <1>2 DEF AwaitedTrue, page
<1>9. KeysDrawn'
  BY <1>1 DEF KeysDrawn, page
<1>10. \A r \in auditLog' \ auditLog : r \in accounts' \/ (r \in Keys /\ posted'[r] # None)
  BY <1>0, <1>1 DEF ConnTrue
<1> QED
  BY <1>1, <1>4, <1>6, <1>7, <1>8, <1>9, <1>10, ServerStep

\* A request that is refused at the door, and an account's that is let in.
LEMMA ArrivalStep ==
    ASSUME ConsoleInv, NEW p \in Procs, conn[p].stage = "free", NEW c \in Conn,
           conn' = [conn EXCEPT ![p] = c], c.status # 201,
           \/ c.stage = "flush"
           \/ c.stage = "account" /\ c.resource \in AccountIds,
           UNCHANGED <<service, ledgers>>
    PROVE  ApiTypeOK' /\ ConnTrue(p)' /\ \A q \in Procs \ {p} : conn'[q] = conn[q]
<1> USE ConsoleAssumption DEF ConsoleInv
<1>1. conn'[p] = c /\ \A q \in Procs \ {p} : conn'[q] = conn[q]
  BY DEF TypeOK, ApiTypeOK
<1>2. ApiTypeOK'
  BY <1>1 DEF TypeOK, ApiTypeOK, service, ledgers
<1>3. ConnTrue(p)'
  BY <1>1 DEF ConnTrue, service
<1> QED
  BY <1>1, <1>2, <1>3

-----------------------------------------------------------------------------
(* The page's steps. *)

\* A connection nothing is served on.
LEMMA FreeConn == Free \in Conn /\ Free.stage = "free" /\ Free.status # 201
  BY ConsoleAssumption DEF Free, Conn, Statuses

\* A request that is refused when it arrives.
LEMMA RefusedConn ==
    ASSUME NEW p \in Procs, Refused(p)
    PROVE  \E c \in Conn : /\ conn' = [conn EXCEPT ![p] = c]
                           /\ c.stage = "flush" /\ c.status # 201
<1>1. PICK code \in KeyErrors \union BodyErrors :
         conn' = [conn EXCEPT ![p] = [Free EXCEPT !.stage = "flush", !.status = StatusForError(code)]]
  BY DEF Refused
<1>2. code \in Service!Errors \union DomainCodes
  BY DEF KeyErrors, BodyErrors, DomainCodes
<1>3. StatusForError(code) \in Statuses /\ StatusForError(code) >= 400
  BY <1>2, ErrorStatus
<1> DEFINE c == [Free EXCEPT !.stage = "flush", !.status = StatusForError(code)]
<1>4. c \in Conn /\ c.stage = "flush" /\ c.status = StatusForError(code)
  BY <1>3 DEF Free, Conn
<1>5. StatusForError(code) # 201
  BY <1>3
<1> QED
  BY <1>1, <1>4, <1>5

\* The steps that only move the page about, or let go of an awaited answer.
LEMMA PageStep ==
    ASSUME ConsoleInv, UNCHANGED apiVars,
           step' \in {"details", "review"}, form' \in Payloads, idempotencyKey' \in Keys,
           call' \in {call, None}, call' # None => sent' = sent /\ idempotencyKey' = idempotencyKey,
           sent' \in {sent, None}, result' \in {result, None},
           forms' = idempotencyKey', idempotencyKey' >= idempotencyKey
    PROVE  ConsoleInv'
<1> USE ConsoleAssumption DEF ConsoleInv
<1>0. UNCHANGED <<posted, request, reply, conn, accounts, auditLog>>
  BY DEF apiVars, service, ledgers
<1>1. TypeOK'
  BY <1>0 DEF TypeOK, ApiTypeOK
<1>2. \A p \in Procs : ConnTrue(p)'
  BY <1>0 DEF ConnTrue
<1>3. AuditTruthful' /\ ResultTrue' /\ step' # "result"
  BY <1>0 DEF AuditTruthful, ResultTrue
<1>4. AwaitedTrue'
  BY <1>0 DEF AwaitedTrue
<1>5. KeysDrawn'
  <2>1. idempotencyKey \in Int /\ idempotencyKey' \in Int /\ Keys \subseteq Int
    BY DEF TypeOK
  <2>2. \A p \in Procs : request[p] # None => request[p].key \in Keys
    BY DEF TypeOK, ApiTypeOK, Service!Request
  <2> QED
    BY <1>0, <2>1, <2>2 DEF KeysDrawn
<1> QED
  BY <1>0, <1>1, <1>2, <1>3, <1>4, <1>5

\* onSubmit up to its await.
LEMMA ConfirmStep ==
    ASSUME ConsoleInv, NEW p \in Procs, Confirm(p)
    PROVE  ConsoleInv'
<1> USE ConsoleAssumption DEF ConsoleInv
<1>0. /\ step = "review" /\ call' = p /\ sent' = form /\ conn[p].stage = "free"
      /\ UNCHANGED <<step, form, idempotencyKey, result, forms, posted, accounts, auditLog>>
  BY DEF Confirm, PostTransfers, Refused, Service!Execute, ledgers, service
<1>1. AuditTruthful' /\ ResultTrue' /\ step' # "result"
  BY <1>0 DEF AuditTruthful, ResultTrue
<1>2. CASE PostTransfers(p, idempotencyKey, form)
  <2> DEFINE r == [key |-> idempotencyKey, body |-> form]
  <2>1. /\ request' = [request EXCEPT ![p] = r]
        /\ reply' = [reply EXCEPT ![p] = None]
    BY <1>2 DEF PostTransfers, Service!Execute
  <2>2. r \in Service!Request /\ r # None /\ r.key = idempotencyKey /\ r.body = form
    BY DEF Service!Request, TypeOK
  <2>3. PICK c \in Conn :
           /\ conn' = [conn EXCEPT ![p] = c]
           /\ c.stage = "transfer" /\ c.resource = idempotencyKey /\ c.status # 201
    <3> DEFINE c == [Free EXCEPT !.stage = "transfer", !.resource = idempotencyKey]
    <3>1. conn' = [conn EXCEPT ![p] = c]
      BY <1>2 DEF PostTransfers
    <3>2. idempotencyKey \in Resources
      BY DEF Resources, TypeOK
    <3>3. c \in Conn
      BY <3>2, FreeConn DEF Conn
    <3>4. c.stage = "transfer" /\ c.resource = idempotencyKey /\ c.status # 201
      BY FreeConn DEF Conn
    <3> QED
      BY <3>1, <3>3, <3>4
  <2> HIDE DEF r
  <2>4. /\ request'[p] = r /\ reply'[p] = None /\ conn'[p] = c
        /\ \A q \in Procs \ {p} : conn'[q] = conn[q] /\ reply'[q] = reply[q] /\ request'[q] = request[q]
        /\ reply' \in [Procs -> Service!Reply \union {None}]
    BY <2>1, <2>3 DEF TypeOK, ApiTypeOK
  <2>5. ApiTypeOK'
    BY <1>0, <2>1, <2>2, <2>3, <2>4 DEF TypeOK, ApiTypeOK
  <2>6. TypeOK'
    BY <1>0, <2>3, <2>4, <2>5 DEF TypeOK
  <2>7. ASSUME NEW q \in Procs
        PROVE  ConnTrue(q)'
    <3>1. CASE q = p
      BY <1>0, <2>2, <2>3, <2>4, <3>1 DEF ConnTrue, TypeOK
    <3>2. CASE q # p
      BY <1>0, <2>4, <3>2 DEF ConnTrue
    <3> QED
      BY <3>1, <3>2
  <2>8. AwaitedTrue'
    BY <1>0, <2>2, <2>3, <2>4 DEF AwaitedTrue, TypeOK
  <2>9. KeysDrawn'
    BY <1>0, <2>2, <2>4 DEF KeysDrawn, TypeOK
  <2> QED
    BY <1>0, <1>1, <2>4, <2>6, <2>7, <2>8, <2>9
<1>3. CASE Refused(p)
  <2>1. PICK c \in Conn : conn' = [conn EXCEPT ![p] = c] /\ c.stage = "flush" /\ c.status # 201
    BY <1>3, RefusedConn
  <2>2. UNCHANGED <<service, ledgers>>
    BY <1>3 DEF Refused
  <2>3. ApiTypeOK' /\ ConnTrue(p)' /\ \A q \in Procs \ {p} : conn'[q] = conn[q]
    BY <1>0, <2>1, <2>2, ArrivalStep
  <2>4. \A q \in Procs \ {p} : ConnTrue(q)'
    BY <2>2, <2>3 DEF ConnTrue, service, ledgers
  <2>5. conn'[p] = c
    BY <2>1 DEF TypeOK, ApiTypeOK
  <2>6. TypeOK'
    BY <1>0, <2>1, <2>3, <2>5 DEF TypeOK
  <2>7. AwaitedTrue'
    BY <1>0, <2>1, <2>5 DEF AwaitedTrue, TypeOK
  <2>8. KeysDrawn'
    BY <1>0, <2>2 DEF KeysDrawn, service
  <2> QED
    BY <1>0, <1>1, <2>2, <2>3, <2>4, <2>6, <2>7, <2>8 DEF service
<1> QED
  BY <1>2, <1>3 DEF Confirm

\* An answer arrives; the page reads it if it is the one it awaits.
LEMMA DeliverStep ==
    ASSUME ConsoleInv, NEW p \in Procs, Deliver(p)
    PROVE  ConsoleInv'
<1> USE ConsoleAssumption DEF ConsoleInv
<1>0. /\ conn[p].stage = "flush" /\ conn' = [conn EXCEPT ![p] = Free]
      /\ UNCHANGED <<posted, request, reply, accounts, auditLog>>
  BY DEF Deliver, Flush, service, ledgers
<1>1. Free \in Conn /\ Free.stage = "free" /\ Free.status # 201
  BY FreeConn
<1>2. conn'[p] = Free /\ \A q \in Procs \ {p} : conn'[q] = conn[q]
  BY <1>0 DEF TypeOK, ApiTypeOK
<1>3. ApiTypeOK'
  BY <1>0, <1>1, <1>2 DEF TypeOK, ApiTypeOK
<1>4. ASSUME NEW q \in Procs
      PROVE  ConnTrue(q)'
  <2>1. CASE q = p
    BY <1>0, <1>1, <1>2, <2>1 DEF ConnTrue
  <2>2. CASE q # p
    BY <1>0, <1>2, <2>2 DEF ConnTrue
  <2> QED
    BY <2>1, <2>2
<1>5. AuditTruthful'
  BY <1>0 DEF AuditTruthful
<1>6. idempotencyKey' = idempotencyKey /\ forms' = forms /\ form' = form
  BY DEF Deliver, Failed, page
<1>7. KeysDrawn'
  BY <1>0, <1>6 DEF KeysDrawn
<1> DEFINE PagePart == /\ TypeOK' /\ AwaitedTrue' /\ ResultTrue'
                       /\ step' = "result" => result' \in Payloads
<1>8. ASSUME call = p, conn[p].status = 201, result' = conn[p].result, step' = "result",
             call' = None, UNCHANGED <<form, idempotencyKey, sent, forms>>
      PROVE  PagePart
  <2>1. conn[p].resource = idempotencyKey /\ conn[p].result = sent /\ sent \in Payloads
    BY <1>8 DEF AwaitedTrue
  <2>2. idempotencyKey \in Keys /\ idempotencyKey \notin accounts
    BY DEF TypeOK, ApiTypeOK
  <2>3. posted[idempotencyKey] = sent
    BY <1>8, <2>1, <2>2 DEF ConnTrue
  <2>4. ResultTrue'
    BY <1>0, <1>8, <2>1, <2>3 DEF ResultTrue
  <2>5. AwaitedTrue'
    BY <1>8 DEF AwaitedTrue
  <2>6. TypeOK'
    BY <1>3, <1>8, <2>1 DEF TypeOK
  <2> QED
    BY <1>8, <2>1, <2>4, <2>5, <2>6
<1>9. ASSUME Failed
      PROVE  PagePart
  <2>1. TypeOK'
    BY <1>3, <1>9 DEF TypeOK, Failed
  <2> QED
    BY <1>9, <2>1 DEF Failed, AwaitedTrue, ResultTrue
<1>10. ASSUME call # p, UNCHANGED page
       PROVE  PagePart
  <2>1. call # None => conn'[call] = conn[call]
    BY <1>2, <1>10 DEF TypeOK
  <2>2. AwaitedTrue'
    BY <1>0, <1>10, <2>1 DEF AwaitedTrue, page
  <2>3. TypeOK'
    BY <1>3, <1>10, <2>1 DEF TypeOK, page
  <2> QED
    BY <1>0, <1>10, <2>2, <2>3 DEF page, ResultTrue
<1> QED
  <2>1. PagePart
    BY <1>8, <1>9, <1>10 DEF Deliver
  <2> HIDE DEF PagePart
  <2>2. TypeOK' /\ AwaitedTrue' /\ ResultTrue' /\ (step' = "result" => result' \in Payloads)
    BY <2>1 DEF PagePart
  <2> QED
    BY <1>0, <1>4, <1>5, <1>7, <2>2

-----------------------------------------------------------------------------

\* The inductive invariant of the page and the api together.
THEOREM ConsoleInvariant == Spec => []ConsoleInv
<1>1. Init => ConsoleInv
  <2> SUFFICES ASSUME Init
               PROVE  ConsoleInv
    OBVIOUS
  <2>1. /\ posted = [k \in Keys |-> None] /\ request = [p \in Procs |-> None]
        /\ reply = [p \in Procs |-> None] /\ conn = [p \in Procs |-> Free]
        /\ accounts = {} /\ auditLog = {}
    BY DEF Init, ApiInit, Service!Init
  <2>2. Free \in Conn /\ Free.stage = "free" /\ Free.status # 201
    BY FreeConn
  <2>3. TypeOK
    BY <2>1, <2>2, ConsoleAssumption DEF Init, TypeOK, ApiTypeOK
  <2>4. \A p \in Procs : ConnTrue(p)
    BY <2>1, <2>2 DEF ConnTrue
  <2> QED
    BY <2>1, <2>3, <2>4 DEF Init, ConsoleInv, AuditTruthful, AwaitedTrue, ResultTrue, KeysDrawn
<1>2. ConsoleInv /\ [Next]_vars => ConsoleInv'
  <2> SUFFICES ASSUME ConsoleInv, [Next]_vars
               PROVE  ConsoleInv'
    OBVIOUS
  <2>k. idempotencyKey \in Keys /\ idempotencyKey \in Int /\ forms = idempotencyKey /\ form \in Payloads
    BY ConsoleAssumption DEF ConsoleInv, TypeOK, KeysDrawn
  <2>1. ASSUME NEW b \in Payloads, EditForm(b)
        PROVE  ConsoleInv'
    BY <2>1, <2>k, PageStep DEF EditForm
  <2>2. CASE Continue
    BY <2>2, <2>k, PageStep DEF Continue
  <2>3. CASE Back
    BY <2>3, <2>k, PageStep DEF Back
  <2>4. CASE ConnectionLost
    BY <2>4, <2>k, PageStep DEF ConnectionLost, Failed
  <2>5. CASE Reload
    BY <2>5, <2>k, PageStep, ConsoleAssumption DEF Reload
  <2>6. CASE NewTransfer
    BY <2>5, <2>6 DEF NewTransfer
  <2>7. ASSUME NEW p \in Procs, TransferStep(p), UNCHANGED page
        PROVE  ConsoleInv'
    <3>0. UNCHANGED <<conn, ledgers>>
      BY <2>7 DEF TransferStep
    <3>1. CASE Service!Commit(p)
      BY <2>7, <3>0, <3>1, CommitStep
    <3>2. CASE Service!Succeed(p)
      <4>1. request[p] # None /\ posted[request[p].key] = request[p].body
        BY <3>2 DEF Service!Succeed
      <4>2. request[p].body \in Payloads
        BY <4>1 DEF ConsoleInv, TypeOK, ApiTypeOK, Service!Request
      <4>3. PICK code \in Service!Successes : Service!Return(p, code, request[p].body)
        BY <3>2 DEF Service!Succeed
      <4> QED
        BY <2>7, <3>0, <4>1, <4>2, <4>3, ReturnStep
    <3>3. CASE Service!Fail(p)
      <4>1. PICK code \in Service!Errors : Service!Return(p, code, None)
        BY <3>3 DEF Service!Fail
      <4>2. request[p] # None /\ code \notin Service!Successes
        BY <3>3, CodesApart DEF Service!Fail
      <4> QED
        BY <2>7, <3>0, <4>1, <4>2, ReturnStep
    <3> QED
      BY <2>7, <3>1, <3>2, <3>3 DEF TransferStep, Service!Work
  <2>8. ASSUME NEW p \in Procs, Serve(p), UNCHANGED page
        PROVE  ConsoleInv'
    BY <2>7, <2>8, TransferDoneStep, CreateAccountStep, AuditStep DEF Serve
  <2>9. ASSUME NEW p \in Procs, NEW id \in AccountIds, PostAccounts(p, id), UNCHANGED page
        PROVE  ConsoleInv'
    <3>1. conn[p].stage = "free" /\ UNCHANGED <<service, ledgers>>
      BY <2>9 DEF PostAccounts
    <3>2. PICK c \in Conn :
             /\ conn' = [conn EXCEPT ![p] = c]
             /\ c.stage = "account" /\ c.resource = id /\ c.status # 201
      <4> DEFINE c == [Free EXCEPT !.stage = "account", !.resource = id]
      <4>1. conn' = [conn EXCEPT ![p] = c]
        BY <2>9 DEF PostAccounts
      <4>2. id \in Resources
        BY DEF Resources
      <4>3. c \in Conn
        BY <4>2, FreeConn DEF Conn
      <4>4. c.stage = "account" /\ c.resource = id /\ c.status # 201
        BY FreeConn DEF Conn
      <4> QED
        BY <4>1, <4>3, <4>4
    <3>3. ApiTypeOK' /\ ConnTrue(p)' /\ \A q \in Procs \ {p} : conn'[q] = conn[q]
      BY <3>1, <3>2, ArrivalStep
    <3>4. call # p
      BY <3>1, ConsoleAssumption DEF ConsoleInv, AwaitedTrue
    <3>5. KeysDrawn'
      BY <2>9, <3>1 DEF ConsoleInv, KeysDrawn, page, service
    <3>6. UNCHANGED <<posted, request, reply, accounts, auditLog>>
      BY <3>1 DEF service, ledgers
    <3>7. reply' \in [Procs -> Service!Reply \union {None}]
      BY <3>6 DEF ConsoleInv
    <3> QED
      BY <2>9, <3>3, <3>4, <3>5, <3>6, <3>7, ServerStep
  <2>10. CASE UNCHANGED vars
    BY <2>10
    DEF vars, apiVars, service, ledgers, page, ConsoleInv, TypeOK, ApiTypeOK, ConnTrue, AuditTruthful,
        AwaitedTrue, ResultTrue, KeysDrawn
  <2> QED
    BY <2>1, <2>2, <2>3, <2>4, <2>5, <2>6, <2>8, <2>9, <2>10, ConfirmStep, DeliverStep DEF Next
<1> QED
  BY <1>1, <1>2, PTL DEF Spec

\* Type correctness of the page and the api.
THEOREM ConsoleTypeCorrect == Spec => []TypeOK
<1>1. ConsoleInv => TypeOK
  BY DEF ConsoleInv
<1> QED
  BY <1>1, ConsoleInvariant, PTL

\* The audit log names only transfers that are committed and accounts that exist.
THEOREM AuditAlwaysTruthful == Spec => []AuditTruthful
<1>1. ConsoleInv => AuditTruthful
  BY DEF ConsoleInv
<1> QED
  BY <1>1, ConsoleInvariant, PTL

\* The result step shows the form that was submitted and the transfer that was
\* committed under its key.
THEOREM ResultAlwaysTrue == Spec => []ResultTrue
<1>1. ConsoleInv => ResultTrue
  BY DEF ConsoleInv
<1> QED
  BY <1>1, ConsoleInvariant, PTL

\* One form pays at most once, whatever is retried, edited or lost: only keys that
\* were drawn have moved money, and a form draws one.
THEOREM FormPaysOnce == Spec => []PaidOncePerForm
<1>1. ConsoleInv => PaidOncePerForm
  <2> SUFFICES ASSUME ConsoleInv
               PROVE  PaidOncePerForm
    OBVIOUS
  <2> DEFINE paid == {k \in Keys : posted[k] # None}
  <2>1. forms \in Nat /\ paid \subseteq 1..forms
    BY ConsoleAssumption DEF ConsoleInv, TypeOK, KeysDrawn
  <2>2. IsFiniteSet(1..forms) /\ Cardinality(1..forms) = forms
    BY <2>1, FS_Interval
  <2>3. Cardinality(paid) <= Cardinality(1..forms)
    BY <2>1, <2>2, FS_Subset
  <2> QED
    BY <2>2, <2>3 DEF PaidOncePerForm
<1> QED
  BY <1>1, ConsoleInvariant, PTL

\* A success is shown only after its audit row was written or its insert failed.
THEOREM AcknowledgedIsAudited == Spec => AcknowledgedAudited
<1> DEFINE Shown == step' = "result" /\ step # "result" =>
                       idempotencyKey \in auditLog \/ conn[call].auditError
<1>1. ConsoleInv /\ [Next]_vars => [Shown]_vars
  <2> SUFFICES ASSUME ConsoleInv, Next, step' = "result", step # "result"
               PROVE  idempotencyKey \in auditLog \/ conn[call].auditError
    OBVIOUS
  <2>1. PICK p \in Procs : Deliver(p)
    BY DEF Next, EditForm, Continue, Back, ConnectionLost, Failed, NewTransfer, Reload, Confirm, page
  <2>2. call = p /\ conn[p].status = 201 /\ conn[p].stage = "flush"
    BY <2>1 DEF Deliver, Flush, Failed, page
  <2>3. conn[p].resource = idempotencyKey
    BY <2>2, ConsoleAssumption DEF ConsoleInv, AwaitedTrue
  <2> QED
    BY <2>2, <2>3 DEF ConsoleInv, ConnTrue
<1>2. Spec => [][Shown]_vars
  BY <1>1, ConsoleInvariant, PTL DEF Spec
<1> QED
  BY <1>2 DEF AcknowledgedAudited
=============================================================================
