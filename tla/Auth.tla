-------------------------------- MODULE Auth --------------------------------
(***************************************************************************)
(* Signing in to the console: the backoff that is counted before the first *)
(* await, one-time codes, the scrypt gate, sessions, and the changes of    *)
(* password and second factor that end them.                               *)
(*                                                                         *)
(* Source: trench/api/auth.py, security/{totp,hashutil}.py and the session *)
(* routes of api/server.py.  There is one account.  A password is a number *)
(* and a code is what the body of a request holds: the secret and the time *)
(* step the digits belong to, and how they are written, with or without    *)
(* blanks around them; steps are the units of time.  A task is a request;  *)
(* other requests run at every await.                                      *)
(***************************************************************************)
EXTENDS Naturals, Sequences, FiniteSets, SequencesExt

CONSTANTS
  Task, Prefix,            \* requests at once; lockout keys of addresses
  Slots,                   \* _SCRYPT_SLOTS
  Threshold, Base, MaxDelay,     \* LOCKOUT_*
  Window, Memory,          \* the +/- steps of totp.verify; TOTP_MEMORY
  Spelling, Bare,          \* ways to write a code; the one without blanks
  KnownPrefixes, SessionTtl,
  MaxTime, MaxAttempts, MaxChanges,    \* bounds
  None

ASSUME AuthAssumption ==
  /\ Threshold \in Nat \ {0} /\ MaxDelay \in Nat
  /\ Window \in Nat /\ Memory \in Nat
  /\ Memory >= 2 * Window     \* "longer than any code stays valid"
  /\ Bare \in Spelling
  /\ MaxTime \in Nat /\ MaxChanges \in Nat

VARIABLES
  now,
  row,         \* app_user: [pw, cheap, secret]; secret 0: no second factor
  fails,       \* AuthManager._fails: key -> [n, last]
  used,        \* _totp_used: code, as it was written -> when it was spent
  known,       \* _known_from
  sessions,    \* session -> expiry; a session is the number of its login
  pending,     \* APIServer._pending_totp: the secret being enrolled, or 0
  hashing,     \* scrypt jobs running
  task,
  tries,       \* key -> when attempts were let through since it was cleared
  spent,       \* code -> how often it was taken
  attempts, changes

auth == <<fails, used, known, sessions, pending>>
seen == <<tries, spent, attempts, changes>>
vars == <<now, row, auth, hashing, task, seen>>

Key == Prefix \cup {"user", "totp"}
Secret == 0 .. MaxChanges + 1
Code == Secret \X (0 .. MaxTime + 1) \X Spelling
Clear == [n |-> 0, last |-> 0]
Idle(t) == task[t] = None

Init ==
  /\ now = 0
  /\ row \in [pw : {0}, cheap : BOOLEAN, secret : {0, 1}]
  /\ fails = [k \in Key |-> Clear]
  /\ used = [c \in {} |-> 0]
  /\ known = <<>>
  /\ \E open \in {{}, {0}} : sessions = [s \in open |-> SessionTtl]      \* a session from before
  /\ pending = 0
  /\ hashing = 0
  /\ task = [t \in Task |-> None]
  /\ tries = [k \in Key |-> <<>>] /\ spent = [c \in Code |-> 0]
  /\ attempts = 0 /\ changes = 0

-----------------------------------------------------------------------------
(* Backoff.                                                                *)

Delay(n) ==
  LET d == Base * 2 ^ (n - Threshold)
  IN  IF d \in 0 .. MaxDelay THEN d ELSE MaxDelay
Locked(k) == fails[k].n >= Threshold /\ fails[k].last + Delay(fails[k].n) > now

Counted_Not(keys) == UNCHANGED fails      \* mutant: counted nowhere before the verify
Counted(keys) ==
  fails' = [k \in Key |-> IF k \in keys THEN [n |-> fails[k].n + 1, last |-> now] ELSE fails[k]]

Cleared(keys) ==
  /\ fails' = [k \in Key |-> IF k \in keys THEN Clear ELSE fails[k]]
  /\ tries' = [k \in Key |-> IF k \in keys THEN <<>> ELSE tries[k]]

(* _sweep: sessions that are over, and counters nobody has touched.        *)
Stale(k) == fails[k].n > 0 /\ now > fails[k].last + 4 * MaxDelay
Sweep ==
  /\ sessions' = [s \in {x \in DOMAIN sessions : sessions[x] >= now} |-> sessions[s]]
  /\ Cleared({k \in Key : Stale(k)})

-----------------------------------------------------------------------------
(* One-time codes.  totp.verify strips what it is given; _consume_totp     *)
(* remembers it as it came.                                                *)

Verify(secret, c) == c[1] = secret /\ c[2] <= now + Window /\ now <= c[2] + Window

Stripped(c) == [c EXCEPT ![3] = Bare]

Kept_OneWindow == {c \in DOMAIN used : now - used[c] <= Window}   \* mutant: TOTP_MEMORY of one step
Kept == {c \in DOMAIN used : now - used[c] <= Memory}

(* _consume_totp.                                                          *)
Consume(c) ==
  /\ used' = [x \in Kept \cup {c} |-> IF x \in Kept THEN used[x] ELSE now]
  /\ spent' = IF c \in Kept THEN spent ELSE [spent EXCEPT ![c] = @ + 1]

(* The second factor of a row is met by a code; what that leaves behind.   *)
Factor(secret, c) == secret = 0 \/ (Verify(secret, c) /\ c \notin Kept)
Spends(secret, c) == IF secret # 0 /\ Verify(secret, c) THEN Consume(c) ELSE UNCHANGED <<used, spent>>

-----------------------------------------------------------------------------
(* login: counted before the row is read.                                  *)

Keys(p) == {p} \cup (IF p \in Range(known) THEN {} ELSE {"user"})

Login(t, p, pw, c) ==
  LET keys == Keys(p)
  IN /\ Idle(t) /\ attempts < MaxAttempts
     /\ \A k \in keys : ~Locked(k)
     /\ Counted(keys)
     /\ tries' = [k \in Key |-> IF k \in keys THEN Append(tries[k], now) ELSE tries[k]]
     /\ attempts' = attempts + 1
     /\ task' = [task EXCEPT ![t] = [at |-> "row", from |-> p, keys |-> keys, pw |-> pw, code |-> c,
                                     row |-> None, id |-> attempts + 1]]
     /\ UNCHANGED <<now, row, used, known, sessions, pending, hashing, spent, changes>>

ReadRow(t) ==
  /\ ~Idle(t) /\ task[t].at = "row"
  /\ task' = [task EXCEPT ![t].row = row, ![t].at = "verify"]
  /\ UNCHANGED <<now, row, auth, hashing, seen>>

(* _scrypt: a slot of the gate, then a thread.                             *)
Running == [verify |-> "verifying", rehash |-> "rehashing", password |-> "setting"]
Enter(t) ==
  /\ ~Idle(t) /\ task[t].at \in DOMAIN Running /\ hashing < Slots
  /\ hashing' = hashing + 1
  /\ task' = [task EXCEPT ![t].at = Running[@]]
  /\ UNCHANGED <<now, row, auth, seen>>
Leaves(t, what) == ~Idle(t) /\ task[t].at = Running[what] /\ hashing' = hashing - 1

Remembered(p) ==
  IF p \in Range(known) THEN known
  ELSE LET all == Append(known, p)
       IN IF Len(all) > KnownPrefixes THEN Tail(all) ELSE all

Verified(t) ==
  LET k == task[t]
      right == k.pw = k.row.pw
  IN /\ Leaves(t, "verify")
     /\ IF right THEN Spends(k.row.secret, k.code) ELSE UNCHANGED <<used, spent>>
     /\ IF right /\ Factor(k.row.secret, k.code)
        THEN /\ Cleared(k.keys)
             /\ known' = Remembered(k.from)
             /\ task' = [task EXCEPT ![t].at = IF k.row.cheap THEN "rehash" ELSE "session"]
             /\ UNCHANGED sessions
        ELSE Sweep /\ task' = [task EXCEPT ![t] = None] /\ UNCHANGED known
     /\ UNCHANGED <<now, row, pending, attempts, changes>>

(* set_password of what was just verified, at the current cost.            *)
Rehashed(t) ==
  /\ Leaves(t, "rehash")
  /\ row' = [row EXCEPT !.pw = task[t].pw, !.cheap = FALSE]
  /\ task' = [task EXCEPT ![t].at = "session"]
  /\ UNCHANGED <<now, auth, seen>>

Opened(t) ==
  /\ ~Idle(t) /\ task[t].at = "session"
  /\ sessions' = [s \in DOMAIN sessions \cup {task[t].id} |->
                    IF s = task[t].id THEN now + SessionTtl ELSE sessions[s]]
  /\ task' = [task EXCEPT ![t] = None]
  /\ UNCHANGED <<now, row, fails, used, known, pending, hashing, seen>>

-----------------------------------------------------------------------------
(* What a session may do.                                                  *)

Valid(s) == s \in DOMAIN sessions /\ sessions[s] >= now        \* session_user
Only(s) == [x \in DOMAIN sessions \cap {s} |-> sessions[x]]     \* end_other_sessions

Logout(s) ==
  /\ Valid(s)
  /\ sessions' = [x \in DOMAIN sessions \ {s} |-> sessions[x]]
  /\ UNCHANGED <<now, row, fails, used, known, pending, hashing, task, seen>>

ChangePassword(t, s) ==
  /\ Idle(t) /\ Valid(s) /\ changes < MaxChanges
  /\ changes' = changes + 1
  /\ task' = [task EXCEPT ![t] = [at |-> "password", pw |-> changes + 1, id |-> s]]
  /\ UNCHANGED <<now, row, auth, hashing, tries, spent, attempts>>

PasswordSet(t) ==
  /\ Leaves(t, "password")
  /\ row' = [row EXCEPT !.pw = task[t].pw, !.cheap = FALSE]
  /\ sessions' = Only(task[t].id)
  /\ task' = [task EXCEPT ![t] = None]
  /\ UNCHANGED <<now, fails, used, known, pending, seen>>

Enrol(s) ==
  /\ Valid(s) /\ changes < MaxChanges
  /\ changes' = changes + 1
  /\ pending' = changes + 2
  /\ UNCHANGED <<now, row, fails, used, known, sessions, hashing, task, tries, spent, attempts>>

Confirm(s, c) ==
  /\ Valid(s) /\ pending # 0 /\ Verify(pending, c)
  /\ row' = [row EXCEPT !.secret = pending]
  /\ pending' = 0
  /\ sessions' = Only(s)
  /\ UNCHANGED <<now, fails, used, known, hashing, task, seen>>

(* totp_disable, through check_totp: the route strips the code, as login's *)
(* does not.                                                               *)
Disable(s, typed) ==
  LET c == Stripped(typed)
      ok == Factor(row.secret, c)
  IN /\ Valid(s) /\ attempts < MaxAttempts
     /\ attempts' = attempts + 1
     /\ row.secret # 0 => ~Locked("totp")
     /\ Spends(row.secret, c)
     /\ IF ok THEN /\ row' = [row EXCEPT !.secret = 0] /\ pending' = 0 /\ sessions' = Only(s)
                   /\ fails' = [fails EXCEPT !["totp"] = IF row.secret = 0 THEN @ ELSE Clear]
                   /\ tries' = [tries EXCEPT !["totp"] = IF row.secret = 0 THEN @ ELSE <<>>]
        ELSE /\ Counted({"totp"})
             /\ tries' = [tries EXCEPT !["totp"] = Append(@, now)]
             /\ UNCHANGED <<row, pending, sessions>>
     /\ UNCHANGED <<now, known, hashing, task, changes>>

Tick == now < MaxTime /\ now' = now + 1 /\ UNCHANGED <<row, auth, hashing, task, seen>>

(* The codes worth typing: one that matches nothing, and those of the      *)
(* secrets in use around this step, with blanks that of this step.         *)
Typed ==
  {<<0, 0, Bare>>} \cup {c \in Code : /\ c[1] \in {row.secret, pending} \ {0}
                                      /\ c[2] <= now + Window /\ now <= c[2] + Window
                                      /\ c[3] = Bare \/ c[2] = now}

Next ==
  \/ \E t \in Task, p \in Prefix, pw \in 0 .. MaxChanges, c \in Typed : Login(t, p, pw, c)
  \/ \E t \in Task : ReadRow(t) \/ Enter(t) \/ Verified(t) \/ Rehashed(t) \/ Opened(t) \/ PasswordSet(t)
  \/ \E s \in DOMAIN sessions :
       \/ Logout(s) \/ Enrol(s)
       \/ \E t \in Task : ChangePassword(t, s)
       \/ \E c \in Typed : Confirm(s, c) \/ Disable(s, c)
  \/ Tick

Spec == Init /\ [][Next]_vars

-----------------------------------------------------------------------------
(* Past the threshold, attempts under one key are as far apart as the      *)
(* backoff says, however many requests run at once (AuthManager.login,     *)
(* which counts before its first await).                                   *)
AttemptsSpaced ==
  \A k \in Key : \A i \in Threshold + 1 .. Len(tries[k]) :
    tries[k][i] >= tries[k][i - 1] + Delay(i - 1)

(* What was typed is taken once, by whichever of two logins or changes     *)
(* comes first, for as long as it could still match (_consume_totp).  It   *)
(* says so of each way to write a code: the same digits with a blank more  *)
(* are another entry of _totp_used, see OncePerCode.                       *)
CodeSpentOnce == \A c \in Code : spent[c] <= 1

AttemptsLimited == AttemptsSpaced /\ CodeSpentOnce

(* What the digits of one time step would promise; no run checks it, since *)
(* the program does not keep it: login hands over the code as it came      *)
(* (APIServer.login), verify strips it and _consume_totp does not.         *)
OncePerCode ==
  \A c, d \in Code : c # d /\ Stripped(c) = Stripped(d) => spent[c] + spent[d] <= 1

=============================================================================
