---------------------------- MODULE Certificates ----------------------------
(***************************************************************************)
(* Certificates: obtaining one by dns-01, the files it is kept in, what a  *)
(* TLS listener loads at start, and a crash at every step in between.      *)
(*                                                                         *)
(* Source: trench/security/{acme,certs,tls}.py and, in app.py, _tls_       *)
(* material, _renew_certificates and the part of _schedule_jobs that arms  *)
(* them.  The CA is external: it settles an authorization by looking at    *)
(* the challenge record.  A key pair is a number; a file holds a number,   *)
(* nothing (0), or Torn.  Two renewals can run at once: the one at start-  *)
(* up, which the job board does not know of, and the job.                  *)
(***************************************************************************)
EXTENDS Naturals, FiniteSets

CONSTANTS
  Name,                \* the names of the certificate; each has an authorization
  MaxPairs, MaxBoots,  \* bounds: key pairs ever made, starts of the process
  Torn, None

VARIABLES
  state,       \* "down", "up", or "refused": start-up failed loading its files
  key, cert,   \* acme.key, acme.crt
  selfKey, selfCert,   \* trench.key, trench.crt
  aged,        \* the stored certificate is within RENEW_BEFORE_DAYS of its end
  serves,      \* the pair the listener loaded
  txt,         \* name -> the renewal whose challenge is published there
  task,        \* renewal -> [at, name, pair, published, left]
  pairs, boots

files == <<key, cert, selfKey, selfCert, aged>>
vars == <<state, files, serves, txt, task, pairs, boots>>

Renewal == {"startup", "job"}
Idle == [at |-> "idle", name |-> None, pair |-> 0, published |-> {}, left |-> {}]
AtBoot == [r \in Renewal |-> IF r = "startup" THEN [Idle EXCEPT !.at = "armed"] ELSE Idle]

Init ==
  /\ state = "down"
  /\ key = 0 /\ cert = 0 /\ selfKey = 0 /\ selfCert = 0 /\ aged = FALSE
  /\ serves = None
  /\ txt = [n \in Name |-> None]
  /\ task = AtBoot
  /\ pairs = 0 /\ boots = 0

-----------------------------------------------------------------------------
(* Start-up.                                                               *)

(* _tls_material: the files ACME has written, when both exist.             *)
FromAcme == key # 0 /\ cert # 0
Loads(c, k) == c = k /\ c # Torn          \* load_cert_chain
Due == cert \in {0, Torn} \/ aged

(* ensure_cert: a pair of our own unless both files exist already; the key *)
(* file is created before it is filled.                                    *)
SelfSigned == selfKey # 0 /\ selfCert # 0

Boot ==
  /\ state = "down" /\ boots < MaxBoots
  /\ boots' = boots + 1
  /\ IF FromAcme
     THEN /\ state' = IF Loads(cert, key) THEN "up" ELSE "refused"
          /\ serves' = IF Loads(cert, key) THEN cert ELSE None
     ELSE IF SelfSigned
     THEN /\ state' = IF Loads(selfCert, selfKey) THEN "up" ELSE "refused"
          /\ serves' = IF Loads(selfCert, selfKey) THEN selfCert ELSE None
     ELSE state' = "signing" /\ UNCHANGED serves
  /\ UNCHANGED <<files, txt, task, pairs>>

(* generate_self_signed: certificate, empty key file, key.                 *)
SignCert ==
  /\ state = "signing" /\ pairs < MaxPairs
  /\ pairs' = pairs + 1 /\ selfCert' = pairs + 1
  /\ state' = "key"
  /\ UNCHANGED <<key, cert, selfKey, aged, serves, txt, task, boots>>
OpenKey ==
  /\ state = "key" /\ selfKey' = Torn /\ state' = "fill"
  /\ UNCHANGED <<key, cert, selfCert, aged, serves, txt, task, pairs, boots>>
FillKey ==
  /\ state = "fill" /\ selfKey' = selfCert
  /\ state' = "up" /\ serves' = selfCert
  /\ UNCHANGED <<key, cert, selfCert, aged, txt, task, pairs, boots>>

(* The process dies.  The challenge records were only in memory.           *)
Crash ==
  /\ state \notin {"down", "refused"}
  /\ state' = "down" /\ serves' = None
  /\ task' = AtBoot /\ txt' = [n \in Name |-> None]
  /\ UNCHANGED <<files, pairs, boots>>

-----------------------------------------------------------------------------
(* renew and obtain.                                                       *)

Up(r, at) == state = "up" /\ task[r].at = at
Set(r, v) == task' = [task EXCEPT ![r] = v]
Same == UNCHANGED <<state, files, serves, pairs, boots>>

(* renew: _account, register and new_order.  The one at start-up runs once. *)
Renew(r) ==
  /\ Up(r, IF r = "startup" THEN "armed" ELSE "idle") /\ Due
  /\ Set(r, [Idle EXCEPT !.at = "order", !.left = Name])
  /\ Same /\ UNCHANGED txt

(* The next authorization: already valid at the CA, or to be answered.     *)
Authorization(r, n) ==
  /\ Up(r, "order") /\ n \in task[r].left
  /\ \/ Set(r, [task[r] EXCEPT !.left = @ \ {n}]) /\ UNCHANGED txt
     \/ /\ txt' = [txt EXCEPT ![n] = r]                  \* _publish clears first
        /\ Set(r, [task[r] EXCEPT !.at = "poll", !.name = n, !.published = @ \cup {n}, !.left = @ \ {n}])
  /\ Same

(* answer and poll: the CA looks at the record.                            *)
Validated(r) ==
  /\ Up(r, "poll") /\ txt[task[r].name] = r
  /\ Set(r, [task[r] EXCEPT !.at = "order"])
  /\ Same /\ UNCHANGED txt

(* Anything refused, invalid or timed out raises out of obtain.            *)
Cleanup_OnSuccess(r, failed) == IF failed THEN "idle" ELSE "clean"   \* mutant: no finally
Cleanup(r, failed) == IF failed THEN "undo" ELSE "clean"

Fails(r) ==
  /\ Up(r, "order") \/ Up(r, "poll")
  /\ Set(r, [task[r] EXCEPT !.at = Cleanup(r, TRUE)])
  /\ Same /\ UNCHANGED txt

(* make_csr and finalize.                                                  *)
Finalized(r) ==
  /\ Up(r, "order") /\ task[r].left = {} /\ pairs < MaxPairs
  /\ pairs' = pairs + 1
  /\ Set(r, [task[r] EXCEPT !.at = Cleanup(r, FALSE), !.pair = pairs + 1])
  /\ UNCHANGED <<state, files, serves, txt, boots>>

(* The finally of obtain: each record it published.                        *)
Unpublish(r, n) ==
  /\ Up(r, "undo") \/ Up(r, "clean")
  /\ n \in task[r].published
  /\ txt' = [txt EXCEPT ![n] = None]
  /\ Set(r, [task[r] EXCEPT !.published = @ \ {n}])
  /\ Same

GivesUp(r) ==
  /\ Up(r, "undo") /\ task[r].published = {}
  /\ Set(r, Idle)
  /\ Same /\ UNCHANGED txt

(* _write_private of the key (a rename), then the certificate in place,    *)
(* with no await in between: only a crash can come there.                  *)
WriteKey(r) ==
  /\ Up(r, "clean") /\ task[r].published = {}
  /\ key' = task[r].pair
  /\ Set(r, [task[r] EXCEPT !.at = "cert"])
  /\ UNCHANGED <<state, cert, selfKey, selfCert, aged, serves, txt, pairs, boots>>

OpenCert(r) ==
  /\ Up(r, "cert") /\ cert' = Torn
  /\ Set(r, [task[r] EXCEPT !.at = "text"])
  /\ UNCHANGED <<state, key, selfKey, selfCert, aged, serves, txt, pairs, boots>>

WriteCert(r) ==
  /\ Up(r, "text")
  /\ cert' = task[r].pair /\ aged' = FALSE
  /\ Set(r, Idle)
  /\ UNCHANGED <<state, key, selfKey, selfCert, serves, txt, pairs, boots>>

Ages == cert \notin {0, Torn} /\ ~aged /\ aged' = TRUE
        /\ UNCHANGED <<state, key, cert, selfKey, selfCert, serves, txt, task, pairs, boots>>

-----------------------------------------------------------------------------
RenewalStep(r) ==
  \/ Renew(r) \/ Validated(r) \/ Fails(r) \/ Finalized(r) \/ GivesUp(r)
  \/ WriteKey(r) \/ OpenCert(r) \/ WriteCert(r)
  \/ \E n \in Name : Authorization(r, n) \/ Unpublish(r, n)

Writing == {r \in Renewal : task[r].at \in {"cert", "text"}}
Runs(r) == Writing \subseteq {r}

Next ==
  \/ Boot \/ SignCert \/ OpenKey \/ FillKey \/ Ages
  \/ Crash
  \/ \E r \in Renewal : Runs(r) /\ RenewalStep(r)

Spec == Init /\ [][Next]_vars

-----------------------------------------------------------------------------
(* However renewals overlap or fail: between the writes of one renewal,    *)
(* the stored certificate and key belong together, and when no renewal is  *)
(* running no challenge is left in the zone (AcmeManager.renew, whose      *)
(* failure leaves "the existing one untouched", and the finally of obtain). *)
RenewalsAreWhole ==
  state = "up" =>
    /\ (Writing = {} /\ cert # 0) => cert = key
    /\ (\A r \in Renewal : task[r].at \in {"idle", "armed"}) => \A n \in Name : txt[n] = None

(* "The key first: a certificate on disk without its key is the one        *)
(* combination that breaks a restart, and the key alone is harmless"       *)
(* (AcmeManager.renew): a process that died after the new key was written  *)
(* and before the certificate was starts again.                            *)
(* The code does not guarantee it: see the observations in README.md.      *)
KeyAloneIsHarmless == (FromAcme /\ cert # Torn) => state # "refused"

=============================================================================
