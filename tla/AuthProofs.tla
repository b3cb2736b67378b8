----------------------------- MODULE AuthProofs -----------------------------
(***************************************************************************)
(* The services beside the resolver, for all values of their constants.    *)
(* Guessing is limited, for any number of requests and addresses: past the *)
(* threshold the attempts under one key are spaced by the backoff, and a   *)
(* code is taken once as it was typed.  No renewal leaves a                *)
(* certificate without its key, or a challenge.  What is installed was     *)
(* vetted.  No address has two holders.                                    *)
(***************************************************************************)
EXTENDS MCServices, FiniteSetTheorems, TLAPS

(* What _fails says of a key is what was let through under it: how often,  *)
(* and when last.                                                          *)
Tallied(f, s, time) ==
  /\ s \in Seq(Nat)
  /\ f.n = Len(s) /\ f.last \in Nat /\ f.last <= time
  /\ Len(s) > 0 => s[Len(s)] = f.last
  /\ \A i \in Threshold + 1 .. Len(s) : s[i] >= s[i - 1] + Delay(i - 1)

Tallies ==
  /\ now \in Nat
  /\ DOMAIN fails = Key /\ DOMAIN tries = Key
  /\ \A k \in Key : Tallied(fails[k], tries[k], now)

(* A login carries a code from the moment it is counted to its verify.     *)
Carries(r) == r # None /\ r.at \in {"row", "verify", "verifying"} => r.code \in Code
Carried == DOMAIN task = Task /\ \A t \in Task : Carries(task[t])

(* A code that was taken is remembered until it can no longer match.       *)
Outlived(c) == now > c[2] + Window
Recalled(c) == c \in DOMAIN used /\ used[c] + Window >= c[2]
CodesKept ==
  /\ \A c \in DOMAIN used : used[c] \in Nat
  /\ spent \in [Code -> {0, 1}]
  /\ \A c \in Code : spent[c] = 1 => Outlived(c) \/ Recalled(c)

AuthInv == Tallies /\ Carried /\ CodesKept

-----------------------------------------------------------------------------
(* A delay is a number up to LOCKOUT_MAX.                                  *)
LEMMA DelayBounded == \A n : Delay(n) \in Nat
  BY AuthAssumption DEF Delay

(* The times of a code are numbers.                                        *)
LEMMA CodeTyped == \A c \in Code : c[2] \in Nat
  BY AuthAssumption DEF Code

LEMMA TypedIsCode == Typed \subseteq Code
<1>1. 0 \in Secret /\ 0 \in 0 .. MaxTime + 1 /\ Bare \in Spelling
  BY AuthAssumption DEF Secret
<1>2. <<0, 0, Bare>> \in Code
  BY <1>1 DEF Code
<1> QED BY <1>2 DEF Typed

(* Without its blanks a code is a code, of the same secret and step.       *)
LEMMA StrippedIsCode == \A c \in Code : Stripped(c) \in Code
  BY AuthAssumption DEF Stripped, Code

(* Where the scrypt gate sends what waits at it.                           *)
LEMMA RunningIs ==
  /\ DOMAIN Running = {"verify", "rehash", "password"}
  /\ Running["verify"] = "verifying" /\ Running["rehash"] = "rehashing" /\ Running["password"] = "setting"
  BY DEF Running

(* A key that is not locked may be tried once more.                        *)
LEMMA TallyAppended ==
  ASSUME NEW f, NEW s, NEW time \in Nat, Tallied(f, s, time),
         ~(f.n >= Threshold /\ f.last + Delay(f.n) > time)
  PROVE  Tallied([n |-> f.n + 1, last |-> time], Append(s, time), time)
<1> DEFINE a == Append(s, time)
<1>1. s \in Seq(Nat) /\ f.n = Len(s) /\ f.last \in Nat /\ f.last <= time
  BY DEF Tallied
<1>2. a \in Seq(Nat) /\ Len(a) = Len(s) + 1 /\ a[Len(s) + 1] = time /\ \A i \in 1 .. Len(s) : a[i] = s[i]
  BY <1>1
<1>3. ASSUME NEW i \in Threshold + 1 .. Len(a) PROVE a[i] >= a[i - 1] + Delay(i - 1)
  <2>0. Threshold \in Nat /\ Threshold >= 1 /\ i \in Int /\ i >= Threshold + 1
    BY AuthAssumption, <1>1, <1>2
  <2>1. i \in Nat /\ i - 1 \in Nat /\ i - 1 >= 1 /\ i - 1 >= Threshold
    BY <2>0
  <2>2. CASE i <= Len(s)
    <3>1. i \in Threshold + 1 .. Len(s) /\ i \in 1 .. Len(s) /\ i - 1 \in 1 .. Len(s)
      BY <2>1, <2>2, AuthAssumption, <1>1
    <3>2. s[i] >= s[i - 1] + Delay(i - 1)
      BY <3>1 DEF Tallied
    <3> QED BY <3>1, <3>2, <1>2
  <2>3. CASE i = Len(s) + 1
    <3>1. Len(s) = i - 1 /\ i - 1 \in 1 .. Len(s)
      BY <2>1, <2>3, <1>1
    <3>2. a[i] = time /\ a[i - 1] = s[i - 1]
      BY <3>1, <2>3, <1>2
    <3>3. s[i - 1] = f.last
      BY <3>1, <2>1 DEF Tallied
    <3>4. Delay(i - 1) \in Nat
      BY DelayBounded
    <3>5. f.last + Delay(i - 1) <= time
      BY <3>1, <3>4, <2>1, <1>1, AuthAssumption
    <3> QED BY <3>2, <3>3, <3>5
  <2> QED BY <2>1, <2>2, <2>3, <1>1, <1>2
<1>4. Len(a) > 0 => a[Len(a)] = time
  BY <1>1, <1>2
<1> DEFINE g == [n |-> f.n + 1, last |-> time]
<1>5. g.n = Len(a) /\ g.last = time
  BY <1>1, <1>2
<1>6. \A i \in Threshold + 1 .. Len(a) : a[i] >= a[i - 1] + Delay(i - 1)
  BY <1>3
<1>7. a \in Seq(Nat) /\ time <= time
  BY <1>2
<1> HIDE DEF a, g
<1>8. Tallied(g, a, time)
  BY <1>4, <1>5, <1>6, <1>7 DEF Tallied
<1> QED BY <1>8 DEF a, g

LEMMA TallyCleared ==
  ASSUME NEW time \in Nat
  PROVE  Tallied(Clear, <<>>, time)
  BY AuthAssumption DEF Tallied, Clear

LEMMA TallyWaits ==
  ASSUME NEW f, NEW s, NEW time \in Nat, NEW later \in Nat, later >= time, Tallied(f, s, time)
  PROVE  Tallied(f, s, later)
  BY DEF Tallied

(* Counting what is let through, and clearing it.                          *)
LEMMA CountKeeps ==
  ASSUME NEW keys, Tallies, now' = now, \A k \in keys : ~Locked(k), Counted(keys),
         tries' = [k \in Key |-> IF k \in keys THEN Append(tries[k], now) ELSE tries[k]]
  PROVE  Tallies'
<1>1. now \in Nat
  BY DEF Tallies
<1>2. ASSUME NEW k \in Key PROVE Tallied(fails'[k], tries'[k], now)
  <2>1. Tallied(fails[k], tries[k], now)
    BY DEF Tallies
  <2>2. CASE k \in keys
    <3>1. fails'[k] = [n |-> fails[k].n + 1, last |-> now] /\ tries'[k] = Append(tries[k], now)
      BY <2>2 DEF Counted
    <3>2. ~(fails[k].n >= Threshold /\ fails[k].last + Delay(fails[k].n) > now)
      BY <2>2 DEF Locked
    <3>3. Tallied([n |-> fails[k].n + 1, last |-> now], Append(tries[k], now), now)
      BY <1>1, <2>1, <3>2, TallyAppended
    <3> QED BY <3>1, <3>3
  <2>3. CASE k \notin keys
    BY <2>1, <2>3 DEF Counted
  <2> QED BY <2>2, <2>3
<1>3. DOMAIN fails' = Key /\ DOMAIN tries' = Key
  BY DEF Counted
<1> QED BY <1>1, <1>2, <1>3 DEF Tallies

LEMMA ClearKeeps ==
  ASSUME NEW keys, Tallies, now' = now, Cleared(keys)
  PROVE  Tallies'
<1>1. now \in Nat
  BY DEF Tallies
<1>2. ASSUME NEW k \in Key PROVE Tallied(fails'[k], tries'[k], now)
  <2>1. Tallied(fails[k], tries[k], now) /\ Tallied(Clear, <<>>, now)
    BY <1>1, TallyCleared DEF Tallies
  <2>2. CASE k \in keys
    BY <2>1, <2>2 DEF Cleared
  <2>3. CASE k \notin keys
    BY <2>1, <2>3 DEF Cleared
  <2> QED BY <2>2, <2>3
<1>3. DOMAIN fails' = Key /\ DOMAIN tries' = Key
  BY DEF Cleared
<1> QED BY <1>1, <1>2, <1>3 DEF Tallies

(* A code is consumed while it matches: if it was taken before, it is      *)
(* still remembered, and is not taken again.                               *)
LEMMA ConsumeKeeps ==
  ASSUME NEW c \in Code, NEW secret, now \in Nat, now' = now, CodesKept, Verify(secret, c), Consume(c)
  PROVE  CodesKept'
<1>1. c[2] \in Nat /\ Window \in Nat /\ Memory \in Nat /\ Memory >= 2 * Window
  BY CodeTyped, AuthAssumption
<1>2. c[2] <= now + Window /\ now <= c[2] + Window
  BY DEF Verify
<1>3. DOMAIN used' = Kept \cup {c} /\ used'[c] = (IF c \in Kept THEN used[c] ELSE now)
      /\ \A x \in Kept : used'[x] = used[x]
  BY DEF Consume
<1>4. \A x \in Kept : x \in DOMAIN used /\ used[x] \in Nat
  BY DEF Kept, CodesKept
<1>5. \A x \in DOMAIN used' : used'[x] \in Nat
  BY <1>3, <1>4
<1>6. ASSUME spent[c] = 1 PROVE c \in Kept
  <2>1. ~Outlived(c)
    BY <1>1, <1>2 DEF Outlived
  <2>2. c \in DOMAIN used /\ used[c] + Window >= c[2] /\ used[c] \in Nat
    BY <1>6, <2>1 DEF CodesKept, Recalled
  <2>3. now - used[c] <= Memory
    BY <1>1, <1>2, <2>2
  <2> QED BY <2>2, <2>3 DEF Kept
<1>7. spent' \in [Code -> {0, 1}]
  <2>1. CASE c \in Kept
    BY <2>1 DEF Consume, CodesKept
  <2>2. CASE c \notin Kept
    <3>1. spent \in [Code -> {0, 1}] /\ spent[c] = 0
      BY <1>6, <2>2 DEF CodesKept
    <3> QED BY <2>2, <3>1 DEF Consume
  <2> QED BY <2>1, <2>2
<1>8. ASSUME NEW x \in Code, spent'[x] = 1 PROVE Outlived(x)' \/ Recalled(x)'
  <2>0. x[2] \in Nat
    BY CodeTyped
  <2>1. CASE x = c
    <3>1. c \in DOMAIN used'
      BY <1>3
    <3>2. used'[c] + Window >= c[2]
      <4>1. CASE c \in Kept /\ spent[c] = 1
        <5>1. Recalled(c)
          BY <4>1, <1>1, <1>2 DEF CodesKept, Outlived
        <5> QED BY <5>1, <4>1, <1>3 DEF Recalled
      <4>2. CASE c \in Kept /\ spent[c] # 1
        BY <4>2, <2>1, <1>8 DEF Consume
      <4>3. CASE c \notin Kept
        BY <4>3, <1>3, <1>1, <1>2
      <4> QED BY <4>1, <4>2, <4>3
    <3> QED BY <2>1, <3>1, <3>2 DEF Recalled
  <2>2. CASE x # c
    <3>1. spent[x] = 1
      BY <2>2, <1>8 DEF Consume, CodesKept
    <3>2. CASE Outlived(x)
      BY <3>2 DEF Outlived
    <3>3. CASE ~Outlived(x)
      <4>1. x \in DOMAIN used /\ used[x] + Window >= x[2] /\ used[x] \in Nat
        BY <3>1, <3>3 DEF CodesKept, Recalled
      <4>2. now <= x[2] + Window
        BY <3>3, <2>0, <1>1 DEF Outlived
      <4>3. now - used[x] <= Memory
        BY <4>1, <4>2, <2>0, <1>1
      <4>4. x \in Kept
        BY <4>1, <4>3 DEF Kept
      <4> QED BY <4>1, <4>4, <1>3 DEF Recalled
    <3> QED BY <3>2, <3>3
  <2> QED BY <2>1, <2>2
<1> QED BY <1>5, <1>7, <1>8 DEF CodesKept

LEMMA SpendsKeeps ==
  ASSUME NEW c \in Code, NEW secret, now \in Nat, now' = now, CodesKept, Spends(secret, c)
  PROVE  CodesKept'
<1>1. CASE secret # 0 /\ Verify(secret, c)
  BY <1>1, ConsumeKeeps DEF Spends
<1>2. CASE ~(secret # 0 /\ Verify(secret, c))
  BY <1>2 DEF Spends, CodesKept, Outlived, Recalled
<1> QED BY <1>1, <1>2

LEMMA CodesUntouched ==
  ASSUME now \in Nat, now' \in Nat, now' >= now, CodesKept, UNCHANGED <<used, spent>>
  PROVE  CodesKept'
<1>1. ASSUME NEW x \in Code, Outlived(x) PROVE Outlived(x)'
  BY <1>1, CodeTyped, AuthAssumption DEF Outlived
<1> QED BY <1>1 DEF CodesKept, Recalled

LEMMA TalliesUntouched ==
  ASSUME Tallies, UNCHANGED <<now, fails, tries>>
  PROVE  Tallies'
  BY DEF Tallies

LEMMA CarriedUntouched ==
  ASSUME Carried, UNCHANGED task
  PROVE  Carried'
  BY DEF Carried

(* One task moves on.                                                      *)
LEMMA CarriedMoves ==
  ASSUME NEW t \in Task, NEW r, Carried, task' = [task EXCEPT ![t] = r],
         Carries(r)
  PROVE  Carried'
  BY DEF Carried

(* What a task is made of as it moves on.                                  *)
LEMMA CarriesOn ==
  \A r, x : /\ Carries(r) /\ r # None /\ r.at = "row" => Carries([r EXCEPT !.row = x, !.at = "verify"])
            /\ Carries(r) /\ r # None /\ r.at = "verify" => Carries([r EXCEPT !.at = "verifying"])
            /\ x \notin {"row", "verify", "verifying"} => Carries([r EXCEPT !.at = x])
  BY DEF Carries

-----------------------------------------------------------------------------
LEMMA InitAuthInv == Init => AuthInv
<1> SUFFICES ASSUME Init PROVE AuthInv
  OBVIOUS
<1>1. Tallies
  <2>1. now = 0 /\ DOMAIN fails = Key /\ DOMAIN tries = Key /\ \A k \in Key : fails[k] = Clear /\ tries[k] = <<>>
    BY DEF Init
  <2> QED BY <2>1, TallyCleared DEF Tallies
<1>2. Carried
  BY DEF Init, Carried, Carries
<1>3. CodesKept
  BY DEF Init, CodesKept
<1> QED BY <1>1, <1>2, <1>3 DEF AuthInv

LEMMA LoginKeeps ==
  ASSUME AuthInv, NEW t \in Task, NEW p, NEW pw, NEW c \in Code, Login(t, p, pw, c)
  PROVE  AuthInv'
<1> USE DEF AuthInv
<1>1. Tallies'
  <2>1. now' = now /\ (\A k \in Keys(p) : ~Locked(k)) /\ Counted(Keys(p))
        /\ tries' = [k \in Key |-> IF k \in Keys(p) THEN Append(tries[k], now) ELSE tries[k]]
    BY DEF Login
  <2> QED BY <2>1, CountKeeps
<1>2. Carried'
  <2> DEFINE r == [at |-> "row", from |-> p, keys |-> Keys(p), pw |-> pw, code |-> c,
                   row |-> None, id |-> attempts + 1]
  <2>1. task' = [task EXCEPT ![t] = r]
    BY DEF Login
  <2>2. Carries(r)
    BY DEF Carries
  <2> HIDE DEF r
  <2> QED BY <2>1, <2>2, CarriedMoves
<1>3. CodesKept'
  <2>1. now' = now /\ now \in Nat /\ UNCHANGED <<used, spent>>
    BY DEF Login, Tallies
  <2> QED BY <2>1, CodesUntouched
<1> QED BY <1>1, <1>2, <1>3

(* A step that only moves a task, or sessions and changes.                 *)
Quiet == UNCHANGED <<now, fails, used, tries, spent>>
LEMMA QuietKeeps ==
  ASSUME AuthInv, Quiet, Carried'
  PROVE  AuthInv'
<1>1. Tallies'
  BY TalliesUntouched DEF Quiet, AuthInv
<1>2. CodesKept'
  <2>1. now \in Nat /\ now' = now
    BY DEF AuthInv, Quiet, Tallies
  <2> QED BY <2>1, CodesUntouched DEF AuthInv, Quiet
<1> QED BY <1>1, <1>2 DEF AuthInv

LEMMA ReadRowKeeps ==
  ASSUME AuthInv, NEW t \in Task, ReadRow(t)
  PROVE  AuthInv'
<1> DEFINE r == [task[t] EXCEPT !.row = row, !.at = "verify"]
<1>1. task' = [task EXCEPT ![t] = r]
  BY DEF ReadRow
<1>2. Carries(r)
  BY CarriesOn DEF ReadRow, Idle, AuthInv, Carried
<1>3. Carried'
  BY <1>1, <1>2, CarriedMoves DEF AuthInv
<1> QED BY <1>3, QuietKeeps DEF ReadRow, Quiet, auth, seen

LEMMA EnterKeeps ==
  ASSUME AuthInv, NEW t \in Task, Enter(t)
  PROVE  AuthInv'
<1> DEFINE r == [task[t] EXCEPT !.at = Running[task[t].at]]
<1>1. task' = [task EXCEPT ![t] = r]
  BY DEF Enter
<1>2. Carries(r)
  <2>1. task[t] # None /\ task[t].at \in {"verify", "rehash", "password"} /\ Carries(task[t])
    BY RunningIs DEF Enter, Idle, AuthInv, Carried
  <2> QED BY <2>1, CarriesOn, RunningIs
<1>3. Carried'
  BY <1>1, <1>2, CarriedMoves DEF AuthInv
<1> QED BY <1>3, QuietKeeps DEF Enter, Quiet, auth, seen

LEMMA VerifiedKeeps ==
  ASSUME AuthInv, NEW t \in Task, Verified(t)
  PROVE  AuthInv'
<1>1. now' = now /\ now \in Nat /\ Tallies /\ Carried /\ CodesKept
  BY DEF Verified, AuthInv, Tallies
<1>2. task[t].code \in Code
  BY <1>1, RunningIs DEF Verified, Leaves, Idle, Carried, Carries
<1>3. CodesKept'
  <2>1. Spends(task[t].row.secret, task[t].code) \/ UNCHANGED <<used, spent>>
    BY DEF Verified
  <2>2. CASE Spends(task[t].row.secret, task[t].code)
    BY <2>2, <1>1, <1>2, SpendsKeeps
  <2>3. CASE UNCHANGED <<used, spent>>
    BY <2>3, <1>1, CodesUntouched
  <2> QED BY <2>1, <2>2, <2>3
<1>4. Tallies'
  <2>1. \E keys : Cleared(keys)
    BY DEF Verified, Sweep
  <2> QED BY <2>1, <1>1, ClearKeeps
<1>5. Carried'
  <2>1. \/ \E x \in {"rehash", "session"} : task' = [task EXCEPT ![t] = [task[t] EXCEPT !.at = x]]
        \/ task' = [task EXCEPT ![t] = None]
    BY DEF Verified
  <2>2. PICK r : task' = [task EXCEPT ![t] = r] /\ Carries(r)
    <3>1. Carries(None)
      BY DEF Carries
    <3>2. \A x \in {"rehash", "session"} : Carries([task[t] EXCEPT !.at = x])
      BY CarriesOn
    <3> QED BY <2>1, <3>1, <3>2
  <2> QED BY <2>2, <1>1, CarriedMoves
<1> QED BY <1>3, <1>4, <1>5 DEF AuthInv

LEMMA RehashedKeeps ==
  ASSUME AuthInv, NEW t \in Task, Rehashed(t)
  PROVE  AuthInv'
<1> DEFINE r == [task[t] EXCEPT !.at = "session"]
<1>1. task' = [task EXCEPT ![t] = r]
  BY DEF Rehashed
<1>2. Carries(r)
  BY CarriesOn
<1>3. Carried'
  BY <1>1, <1>2, CarriedMoves DEF AuthInv
<1> QED BY <1>3, QuietKeeps DEF Rehashed, Quiet, auth, seen

(* The steps that end a request, and those of a session.                   *)
LEMMA EndingKeeps ==
  ASSUME AuthInv, NEW t \in Task, Opened(t) \/ PasswordSet(t)
  PROVE  AuthInv'
<1>1. task' = [task EXCEPT ![t] = None]
  BY DEF Opened, PasswordSet
<1>2. Carries(None)
  BY DEF Carries
<1>3. Carried'
  BY <1>1, <1>2, CarriedMoves DEF AuthInv
<1> QED BY <1>3, QuietKeeps DEF Opened, PasswordSet, Quiet, auth, seen

LEMMA ChangePasswordKeeps ==
  ASSUME AuthInv, NEW t \in Task, NEW s, ChangePassword(t, s)
  PROVE  AuthInv'
<1> DEFINE r == [at |-> "password", pw |-> changes + 1, id |-> s]
<1>1. task' = [task EXCEPT ![t] = r]
  BY DEF ChangePassword
<1>2. Carries(r)
  BY DEF Carries
<1> HIDE DEF r
<1>3. Carried'
  BY <1>1, <1>2, CarriedMoves DEF AuthInv
<1> QED BY <1>3, QuietKeeps DEF ChangePassword, Quiet, auth, seen

LEMMA SessionKeeps ==
  ASSUME AuthInv, NEW s, NEW c, Logout(s) \/ Enrol(s) \/ Confirm(s, c)
  PROVE  AuthInv'
<1>1. Carried'
  BY CarriedUntouched DEF AuthInv, Logout, Enrol, Confirm
<1> QED BY <1>1, QuietKeeps DEF Logout, Enrol, Confirm, Quiet, auth, seen

LEMMA DisableKeeps ==
  ASSUME AuthInv, NEW s, NEW c \in Code, Disable(s, c)
  PROVE  AuthInv'
<1>1. now' = now /\ now \in Nat /\ Tallies /\ Carried /\ CodesKept
  BY DEF Disable, AuthInv, Tallies
<1>0. PICK d \in Code : d = Stripped(c)
  BY StrippedIsCode
<1>2. CodesKept'
  <2>1. Spends(row.secret, d)
    BY <1>0 DEF Disable
  <2> QED BY <1>1, <2>1, SpendsKeeps
<1>3. Carried'
  BY <1>1, CarriedUntouched DEF Disable
<1>4. Tallies'
  <2>1. CASE Factor(row.secret, d) /\ row.secret = 0
    <3>1. fails' = [fails EXCEPT !["totp"] = @] /\ tries' = [tries EXCEPT !["totp"] = @]
      BY <1>0, <2>1 DEF Disable
    <3> QED BY <3>1, <1>1 DEF Tallies
  <2>2. CASE Factor(row.secret, d) /\ row.secret # 0
    <3>1. fails' = [fails EXCEPT !["totp"] = Clear] /\ tries' = [tries EXCEPT !["totp"] = <<>>]
      BY <1>0, <2>2 DEF Disable
    <3>2. Tallied(Clear, <<>>, now)
      BY <1>1, TallyCleared
    <3> QED BY <3>1, <3>2, <1>1 DEF Tallies
  <2>3. CASE ~Factor(row.secret, d)
    <3>1. row.secret # 0 /\ ~Locked("totp")
      BY <1>0, <2>3 DEF Factor, Disable
    <3>2. Counted({"totp"}) /\ tries' = [tries EXCEPT !["totp"] = Append(@, now)]
      BY <1>0, <2>3 DEF Disable
    <3>3. ASSUME NEW k \in Key PROVE Tallied(fails'[k], tries'[k], now)
      <4>1. Tallied(fails[k], tries[k], now)
        BY <1>1 DEF Tallies
      <4>2. CASE k = "totp"
        <5>1. fails'[k] = [n |-> fails[k].n + 1, last |-> now] /\ tries'[k] = Append(tries[k], now)
          BY <3>2, <4>2, <1>1 DEF Counted, Tallies
        <5>2. ~(fails[k].n >= Threshold /\ fails[k].last + Delay(fails[k].n) > now)
          BY <3>1, <4>2 DEF Locked
        <5>3. Tallied([n |-> fails[k].n + 1, last |-> now], Append(tries[k], now), now)
          BY <1>1, <4>1, <5>2, TallyAppended
        <5> QED BY <5>1, <5>3
      <4>3. CASE k # "totp"
        BY <3>2, <4>1, <4>3 DEF Counted
      <4> QED BY <4>2, <4>3
    <3>4. DOMAIN fails' = Key /\ DOMAIN tries' = Key
      BY <3>2, <1>1 DEF Tallies, Counted
    <3> QED BY <3>3, <3>4, <1>1 DEF Tallies
  <2> QED BY <2>1, <2>2, <2>3
<1> QED BY <1>2, <1>3, <1>4 DEF AuthInv

LEMMA TickKeeps ==
  ASSUME AuthInv, Tick
  PROVE  AuthInv'
<1>1. now \in Nat /\ now' = now + 1 /\ UNCHANGED <<fails, used, task, tries, spent>>
  BY DEF AuthInv, Tallies, Tick, auth, seen
<1>2. now' \in Nat /\ now' >= now
  BY <1>1
<1>3. Tallies'
  <2>1. ASSUME NEW k \in Key PROVE Tallied(fails[k], tries[k], now')
    <3>1. Tallied(fails[k], tries[k], now)
      BY DEF AuthInv, Tallies
    <3> QED BY <3>1, <1>1, <1>2, TallyWaits
  <2>2. DOMAIN fails = Key /\ DOMAIN tries = Key
    BY DEF AuthInv, Tallies
  <2> QED BY <2>1, <2>2, <1>1, <1>2 DEF Tallies
<1>4. Carried'
  BY <1>1, CarriedUntouched DEF AuthInv
<1>5. CodesKept'
  BY <1>1, <1>2, CodesUntouched DEF AuthInv
<1> QED BY <1>3, <1>4, <1>5 DEF AuthInv

LEMMA NextAuthInv == AuthInv /\ [Next]_vars => AuthInv'
<1> SUFFICES ASSUME AuthInv, [Next]_vars PROVE AuthInv'
  OBVIOUS
<1>1. ASSUME NEW t \in Task, NEW p \in Prefix, NEW pw \in 0 .. MaxChanges, NEW c \in Typed, Login(t, p, pw, c)
      PROVE  AuthInv'
  BY <1>1, LoginKeeps, TypedIsCode
<1>2. ASSUME NEW t \in Task,
             ReadRow(t) \/ Enter(t) \/ Verified(t) \/ Rehashed(t) \/ Opened(t) \/ PasswordSet(t)
      PROVE  AuthInv'
  BY <1>2, ReadRowKeeps, EnterKeeps, VerifiedKeeps, RehashedKeeps, EndingKeeps
<1>3. ASSUME NEW s \in DOMAIN sessions, Logout(s) \/ Enrol(s)
      PROVE  AuthInv'
  BY <1>3, SessionKeeps
<1>4. ASSUME NEW s \in DOMAIN sessions, NEW t \in Task, ChangePassword(t, s)
      PROVE  AuthInv'
  BY <1>4, ChangePasswordKeeps
<1>5. ASSUME NEW s \in DOMAIN sessions, NEW c \in Typed, Confirm(s, c) \/ Disable(s, c)
      PROVE  AuthInv'
  <2>1. CASE Confirm(s, c)
    BY <2>1, SessionKeeps
  <2>2. CASE Disable(s, c)
    BY <2>2, DisableKeeps, TypedIsCode
  <2> QED BY <1>5, <2>1, <2>2
<1>6. CASE Tick
  BY <1>6, TickKeeps
<1>7. CASE UNCHANGED vars
  <2>1. Quiet /\ UNCHANGED task
    BY <1>7 DEF vars, auth, seen, Quiet
  <2> QED BY <2>1, QuietKeeps, CarriedUntouched DEF AuthInv
<1> QED BY <1>1, <1>2, <1>3, <1>4, <1>5, <1>6, <1>7 DEF Next

-----------------------------------------------------------------------------
(* However many requests run at once, and whatever is cleared, swept,      *)
(* enrolled or disabled in between: attempts past the threshold keep the   *)
(* distance of the backoff, and no code is taken twice as it was typed     *)
(* (login, check_totp, _locked, _sweep, _consume_totp).  With a blank more *)
(* the same digits are another code to the memory, see OncePerCode.        *)
THEOREM GuessingLimited == Spec => []AttemptsLimited
<1>1. AuthInv => AttemptsLimited
  <2> SUFFICES ASSUME AuthInv PROVE AttemptsLimited
    OBVIOUS
  <2>1. AttemptsSpaced
    BY DEF AuthInv, Tallies, Tallied, AttemptsSpaced
  <2>2. \A c \in Code : spent[c] \in {0, 1}
    BY DEF AuthInv, CodesKept
  <2>3. CodeSpentOnce
    BY <2>2 DEF CodeSpentOnce
  <2> QED BY <2>1, <2>3 DEF AttemptsLimited
<1> QED BY <1>1, InitAuthInv, NextAuthInv, PTL DEF Spec

-----------------------------------------------------------------------------
(* A nonempty set of numbers has a least one, a finite one a greatest.     *)
LEMMA Least == \A S \in SUBSET Nat : S # {} => \E x \in S : \A y \in S : x <= y
<1> SUFFICES ASSUME NEW S \in SUBSET Nat, S # {} PROVE \E x \in S : \A y \in S : x <= y
  OBVIOUS
<1> DEFINE Less == OpToRel(<, Nat)
<1>1. Less = {ss \in Nat \X Nat : ss[1] < ss[2]}
  BY DEF OpToRel
<1>2. IsWellFoundedOn(Less, Nat)
  BY NatLessThanWellFounded
<1> HIDE DEF Less
<1>3. PICK x \in S : \A y \in S : ~(<<y, x>> \in Less)
  BY <1>2, WFMin
<1>4. ASSUME NEW y \in S PROVE x <= y
  <2>1. ~(<<y, x>> \in {ss \in Nat \X Nat : ss[1] < ss[2]})
    BY <1>1, <1>3
  <2>2. x \in Nat /\ y \in Nat
    OBVIOUS
  <2> QED BY <2>1, <2>2
<1> QED BY <1>4

LEMMA Greatest ==
  \A S \in SUBSET Nat : IsFiniteSet(S) /\ S # {} => \E x \in S : \A y \in S : y <= x
<1> DEFINE Fails(S) == IsFiniteSet(S) /\ S # {} /\ ~ \E x \in S : \A y \in S : y <= x
           Sizes == {Cardinality(S) : S \in {T \in SUBSET Nat : Fails(T)}}
<1>1. SUFFICES ASSUME Sizes # {} PROVE FALSE
  OBVIOUS
<1>2. Sizes \in SUBSET Nat
  BY FS_CardinalityType
<1>3. PICK n \in Sizes : \A m \in Sizes : n <= m
  BY <1>1, <1>2, Least
<1>4. PICK S \in SUBSET Nat : Fails(S) /\ Cardinality(S) = n
  BY <1>3
<1>5. PICK x \in S : TRUE
  BY <1>4
<1>6. PICK T : T = S \ {x}
  OBVIOUS
<1>7. IsFiniteSet(T) /\ Cardinality(T) = n - 1 /\ T \in SUBSET Nat /\ n \in Nat
  BY <1>2, <1>4, <1>5, <1>6, FS_RemoveElement
<1>8. CASE T = {}
  <2>1. \A y \in S : y <= x
    BY <1>5, <1>6, <1>8
  <2> QED BY <1>4, <1>5, <2>1
<1>9. CASE T # {}
  <2>1. ~Fails(T)
    <3>1. ASSUME Fails(T) PROVE FALSE
      <4>1. Cardinality(T) \in Sizes
        BY <1>7, <3>1
      <4> QED BY <1>3, <1>7, <4>1
    <3> QED BY <3>1
  <2>2. PICK z \in T : \A y \in T : y <= z
    BY <1>7, <1>9, <2>1
  <2>3. PICK w \in {x, z} : x <= w /\ z <= w
    BY <1>5, <1>6, <2>2
  <2>4. \A y \in S : y <= w
    <3> TAKE y \in S
    <3>1. y \in Nat /\ z \in Nat /\ w \in Nat /\ x \in Nat
      BY <1>6, <2>2, <2>3
    <3>2. CASE y = x
      BY <2>3, <3>2
    <3>3. CASE y # x
      BY <1>6, <2>2, <2>3, <3>1, <3>3
    <3> QED BY <3>2, <3>3
  <2> QED BY <1>4, <1>5, <1>6, <2>2, <2>3, <2>4
<1> QED BY <1>8, <1>9

-----------------------------------------------------------------------------
(* Certificates.  A renewal that writes has put its key in place, and a    *)
(* published challenge belongs to a renewal that remembers it.             *)
StoredInv ==
  /\ pairs \in Nat
  /\ cert # 0 => key # 0
  /\ tls \in {"signing", "key", "fill"} => cert = 0 \/ key = 0
  /\ tls # "up" => renewal = Certs!AtBoot
WritesInv ==
  /\ \A r \in Certs!Renewal :
       /\ renewal[r].at \in {"cert", "text"} => key = renewal[r].pair /\ key # 0 /\ renewal[r].published = {}
       /\ renewal[r].at = "clean" => renewal[r].pair \in Nat \ {0}
  /\ \A r, q \in Certs!Writing : r = q
  /\ tls = "up" /\ Certs!Writing = {} /\ cert # 0 => cert = key
ChallengesInv ==
  /\ DOMAIN txt = Name
  /\ \A n \in Name : txt[n] = None \/ (txt[n] \in Certs!Renewal /\ n \in renewal[txt[n]].published)
  /\ \A r \in Certs!Renewal : renewal[r].at \in {"idle", "armed"} => renewal[r].published = {}
Stages == {"idle", "armed", "order", "poll", "undo", "clean", "cert", "text"}
TaskRec == [at : Stages, name : Name \cup {None}, pair : Nat, published : SUBSET Name, left : SUBSET Name]
CertsInv == renewal \in [Certs!Renewal -> TaskRec] /\ StoredInv /\ WritesInv /\ ChallengesInv

LEMMA BootRecords == Certs!AtBoot \in [Certs!Renewal -> TaskRec] /\ Certs!Idle \in TaskRec
<1>1. Certs!Idle \in TaskRec
  BY DEF Certs!Idle, TaskRec, Stages
<1>2. [Certs!Idle EXCEPT !.at = "armed"] \in TaskRec
  BY <1>1 DEF TaskRec, Stages
<1> QED BY <1>1, <1>2 DEF Certs!AtBoot

LEMMA BootIdle ==
  \A r \in Certs!Renewal : Certs!AtBoot[r].at \in {"idle", "armed"} /\ Certs!AtBoot[r].published = {}
  BY DEF Certs!AtBoot, Certs!Idle, Certs!Renewal

LEMMA CertsInit == Certs!Init => CertsInv
<1> SUFFICES ASSUME Certs!Init PROVE CertsInv
  OBVIOUS
<1> USE DEF Certs!Init
<1>1. renewal \in [Certs!Renewal -> TaskRec]
  BY BootRecords
<1>2. \A r \in Certs!Renewal : renewal[r].at \notin {"cert", "text", "clean"}
  BY BootIdle
<1>3. StoredInv
  BY DEF StoredInv
<1>4. WritesInv
  BY <1>2 DEF WritesInv, Certs!Writing
<1>5. ChallengesInv
  BY BootIdle DEF ChallengesInv
<1> QED BY <1>1, <1>3, <1>4, <1>5 DEF CertsInv

(* One renewal moves: to a new record, the other's stays.                  *)
LEMMA TaskSet ==
  ASSUME renewal \in [Certs!Renewal -> TaskRec], NEW r \in Certs!Renewal, NEW v \in TaskRec, Certs!Set(r, v)
  PROVE  /\ renewal' \in [Certs!Renewal -> TaskRec]
         /\ renewal'[r] = v
         /\ \A q \in Certs!Renewal : q # r => renewal'[q] = renewal[q]
  BY DEF Certs!Set

LEMMA WhileStarting ==
  ASSUME CertsInv, UNCHANGED <<txt, renewal>>, tls # "up",
         pairs' \in Nat, key' = key, cert' = cert,
         tls' = "up" /\ cert # 0 => cert = key,
         tls' \in {"signing", "key", "fill"} => cert = 0 \/ key = 0
  PROVE  CertsInv'
<1>1. \A r \in Certs!Renewal : renewal[r].at \in {"idle", "armed"} /\ renewal[r].published = {}
  BY BootIdle DEF CertsInv, StoredInv
<1>2. Certs!AtBoot' = Certs!AtBoot /\ Certs!Renewal' = Certs!Renewal
  BY DEF Certs!AtBoot, Certs!Renewal
<1>3. StoredInv'
  BY <1>2 DEF CertsInv, StoredInv
<1>4. WritesInv'
  BY <1>1 DEF CertsInv, WritesInv, Certs!Writing
<1>5. ChallengesInv'
  BY DEF CertsInv, ChallengesInv
<1> QED BY <1>3, <1>4, <1>5 DEF CertsInv

(* A step of a renewal that leaves the files alone and is not writing.     *)
LEMMA WithoutFiles ==
  ASSUME CertsInv, tls = "up", UNCHANGED <<tls, key, cert>>, pairs' \in Nat,
         NEW r \in Certs!Renewal, NEW v \in TaskRec, Certs!Set(r, v),
         renewal[r].at \notin {"cert", "text"}, v.at \notin {"cert", "text"},
         v.at = "clean" => v.pair # 0,
         ChallengesInv'
  PROVE  CertsInv'
<1>1. /\ renewal' \in [Certs!Renewal -> TaskRec]
      /\ renewal'[r] = v
      /\ \A q \in Certs!Renewal : q # r => renewal'[q] = renewal[q]
  BY TaskSet DEF CertsInv
<1>2. Certs!Writing' = Certs!Writing
  BY <1>1 DEF Certs!Writing
<1>3. StoredInv'
  BY DEF CertsInv, StoredInv
<1>4. v.pair \in Nat
  BY DEF TaskRec
<1>5. WritesInv'
  <2>1. \A q \in Certs!Renewal :
          /\ renewal'[q].at \in {"cert", "text"} => key' = renewal'[q].pair /\ key' # 0 /\ renewal'[q].published = {}
          /\ renewal'[q].at = "clean" => renewal'[q].pair \in Nat \ {0}
    BY <1>1, <1>4 DEF CertsInv, WritesInv
  <2> QED BY <2>1, <1>2 DEF CertsInv, WritesInv
<1> QED BY <1>1, <1>3, <1>5 DEF CertsInv

(* The challenges after a step of one renewal.                             *)
LEMMA SameChallenges ==
  ASSUME CertsInv, NEW r \in Certs!Renewal, NEW v \in TaskRec, Certs!Set(r, v), UNCHANGED txt,
         renewal[r].published \subseteq v.published,
         v.at \in {"idle", "armed"} => v.published = {}
  PROVE  ChallengesInv'
<1>1. /\ renewal'[r] = v
      /\ \A q \in Certs!Renewal : q # r => renewal'[q] = renewal[q]
  BY TaskSet DEF CertsInv
<1> QED BY <1>1 DEF CertsInv, ChallengesInv

LEMMA CertsAround ==
  ASSUME CertsInv, Certs!Boot \/ Certs!SignCert \/ Certs!OpenKey \/ Certs!FillKey \/ Certs!Ages \/ Certs!Crash
  PROVE  CertsInv'
<1>0. pairs \in Nat /\ pairs + 1 \in Nat
  BY DEF CertsInv, StoredInv
<1>1. CASE Certs!Boot
  BY <1>0, <1>1, WhileStarting DEF CertsInv, StoredInv, Certs!Boot, Certs!FromAcme, Certs!SelfSigned, Certs!Loads, Certs!files
<1>2. CASE Certs!SignCert
  BY <1>0, <1>2, WhileStarting DEF CertsInv, StoredInv, Certs!SignCert
<1>3. CASE Certs!OpenKey
  BY <1>0, <1>3, WhileStarting DEF CertsInv, StoredInv, Certs!OpenKey
<1>4. CASE Certs!FillKey
  BY <1>0, <1>4, WhileStarting DEF CertsInv, StoredInv, Certs!FillKey
<1>5. CASE Certs!Ages
  <2>1. Certs!Writing' = Certs!Writing /\ UNCHANGED <<tls, key, cert, txt, renewal, pairs>>
    BY <1>5 DEF Certs!Ages, Certs!Writing
  <2> QED
    BY <2>1 DEF CertsInv, StoredInv, WritesInv, ChallengesInv, Certs!AtBoot
<1>6. CASE Certs!Crash
  <2> USE <1>6 DEF Certs!Crash
  <2>1. Certs!AtBoot' = Certs!AtBoot /\ UNCHANGED <<key, cert, pairs>>
    BY DEF Certs!AtBoot, Certs!files
  <2>2. \A r \in Certs!Renewal : renewal'[r].at \in {"idle", "armed"} /\ renewal'[r].published = {}
    BY BootIdle
  <2>3. renewal' \in [Certs!Renewal -> TaskRec]
    BY BootRecords
  <2>4. StoredInv'
    BY <2>1 DEF CertsInv, StoredInv
  <2>5. WritesInv'
    BY <2>2 DEF WritesInv, Certs!Writing
  <2>6. ChallengesInv'
    BY <2>2 DEF ChallengesInv
  <2> QED BY <2>3, <2>4, <2>5, <2>6 DEF CertsInv
<1> QED BY <1>1, <1>2, <1>3, <1>4, <1>5, <1>6

(* A step of the renewal that writes, or starts to: no other one does.     *)
LEMMA WithFiles ==
  ASSUME CertsInv, tls = "up", UNCHANGED <<tls, txt, pairs>>,
         NEW r \in Certs!Renewal, Certs!Runs(r), NEW v \in TaskRec, Certs!Set(r, v),
         renewal[r].published = {}, v.published = {},
         cert' # 0 => key' # 0,
         \/ v.at \in {"cert", "text"} /\ key' = v.pair /\ key' # 0
         \/ v.at = "idle" /\ cert' = key'
  PROVE  CertsInv'
<1>1. /\ renewal' \in [Certs!Renewal -> TaskRec]
      /\ renewal'[r] = v
      /\ \A q \in Certs!Renewal : q # r => renewal'[q] = renewal[q]
  BY TaskSet DEF CertsInv
<1>2. \A q \in Certs!Renewal : q # r => renewal'[q].at \notin {"cert", "text"}
  BY <1>1 DEF Certs!Runs, Certs!Writing
<1>3. StoredInv'
  BY DEF CertsInv, StoredInv
<1>4. WritesInv'
  <2>1. \A q \in Certs!Renewal :
          /\ renewal'[q].at \in {"cert", "text"} => key' = renewal'[q].pair /\ key' # 0 /\ renewal'[q].published = {}
          /\ renewal'[q].at = "clean" => renewal'[q].pair \in Nat \ {0}
    BY <1>1, <1>2 DEF CertsInv, WritesInv
  <2>2. \A q \in Certs!Writing' : q = r
    BY <1>2 DEF Certs!Writing
  <2>3. Certs!Writing' = {} => cert' = key'
    BY <1>1 DEF Certs!Writing
  <2> QED BY <2>1, <2>2, <2>3 DEF WritesInv
<1>5. ChallengesInv'
  BY SameChallenges
<1> QED BY <1>1, <1>3, <1>4, <1>5 DEF CertsInv

LEMMA CertsRenewal ==
  ASSUME CertsInv, NEW r \in Certs!Renewal, Certs!Runs(r), Certs!RenewalStep(r)
  PROVE  CertsInv'
<1> DEFINE t == renewal[r]
<1>b. tls = "up"
  BY Zenon DEF Certs!RenewalStep, Certs!Renew, Certs!Validated, Certs!Fails, Certs!Finalized, Certs!GivesUp,
         Certs!WriteKey, Certs!OpenCert, Certs!WriteCert, Certs!Authorization, Certs!Unpublish, Certs!Up
<1>0. pairs \in Nat /\ pairs + 1 \in Nat /\ pairs + 1 # 0 /\ t \in TaskRec /\ tls = "up"
  BY <1>b DEF CertsInv, StoredInv
<1>a. t.at \in {"idle", "armed"} => t.published = {}
  BY DEF CertsInv, ChallengesInv
<1>1. CASE Certs!Renew(r)
  <2>1. PICK v : v = [Certs!Idle EXCEPT !.at = "order", !.left = Name]
    OBVIOUS
  <2>2. v \in TaskRec /\ v.at = "order" /\ v.published = {}
    BY <2>1, BootRecords DEF TaskRec, Stages, Certs!Idle
  <2>3. Certs!Set(r, v) /\ t.at \in {"idle", "armed"} /\ UNCHANGED <<txt, tls, key, cert, pairs>>
    BY <1>1, <2>1 DEF Certs!Renew, Certs!Up, Certs!Same, Certs!files
  <2>4. ChallengesInv'
    BY <2>2, <2>3, <1>a, SameChallenges
  <2> QED BY <1>0, <2>2, <2>3, <2>4, WithoutFiles
<1>2. CASE Certs!Validated(r) \/ Certs!Fails(r)
  <2>1. PICK at \in {"order", "undo"} : Certs!Set(r, [t EXCEPT !.at = at])
    BY <1>2 DEF Certs!Validated, Certs!Fails, Certs!Cleanup
  <2>2. PICK v : v = [t EXCEPT !.at = at]
    OBVIOUS
  <2>3. v \in TaskRec /\ v.at = at /\ v.published = t.published
    BY <1>0, <2>2 DEF TaskRec, Stages
  <2>4. Certs!Set(r, v) /\ t.at \in {"order", "poll"} /\ UNCHANGED <<txt, tls, key, cert, pairs>>
    BY <1>2, <2>1, <2>2 DEF Certs!Validated, Certs!Fails, Certs!Up, Certs!Same, Certs!files
  <2>5. ChallengesInv'
    BY <2>3, <2>4, SameChallenges
  <2> QED BY <1>0, <2>3, <2>4, <2>5, WithoutFiles
<1>3. CASE Certs!Finalized(r)
  <2>1. PICK v : v = [t EXCEPT !.at = "clean", !.pair = pairs + 1]
    OBVIOUS
  <2>2. v \in TaskRec /\ v.at = "clean" /\ v.pair = pairs + 1 /\ v.published = t.published
    BY <1>0, <2>1 DEF TaskRec, Stages
  <2>3. Certs!Set(r, v) /\ t.at = "order" /\ UNCHANGED <<txt, tls, key, cert>> /\ pairs' = pairs + 1
    BY <1>3, <2>1 DEF Certs!Finalized, Certs!Cleanup, Certs!Up, Certs!files
  <2>4. ChallengesInv'
    BY <2>2, <2>3, SameChallenges
  <2> QED BY <1>0, <2>2, <2>3, <2>4, WithoutFiles
<1>4. CASE Certs!GivesUp(r)
  <2>1. Certs!Set(r, Certs!Idle) /\ t.at = "undo" /\ t.published = {} /\ UNCHANGED <<txt, tls, key, cert, pairs>>
    BY <1>4 DEF Certs!GivesUp, Certs!Up, Certs!Same, Certs!files
  <2>2. PICK v : v = Certs!Idle
    OBVIOUS
  <2>3. v \in TaskRec /\ v.at = "idle" /\ v.published = {}
    BY <2>2, BootRecords DEF Certs!Idle
  <2>4. ChallengesInv'
    BY <2>1, <2>2, <2>3, SameChallenges
  <2> QED BY <1>0, <2>1, <2>2, <2>3, <2>4, WithoutFiles
<1>5. ASSUME NEW n \in Name, Certs!Authorization(r, n)
      PROVE  CertsInv'
  <2>1. t.at = "order" /\ UNCHANGED <<tls, key, cert, pairs>>
    BY <1>5 DEF Certs!Authorization, Certs!Up, Certs!Same, Certs!files
  <2>2. CASE Certs!Set(r, [t EXCEPT !.left = @ \ {n}]) /\ UNCHANGED txt
    <3>1. PICK v : v = [t EXCEPT !.left = @ \ {n}]
      OBVIOUS
    <3>2. v \in TaskRec /\ v.at = "order" /\ v.published = t.published
      BY <1>0, <2>1, <3>1 DEF TaskRec
    <3>3. ChallengesInv'
      BY <2>2, <3>1, <3>2, SameChallenges
    <3> QED BY <1>0, <2>1, <2>2, <3>1, <3>2, <3>3, WithoutFiles
  <2>3. CASE /\ txt' = [txt EXCEPT ![n] = r]
             /\ Certs!Set(r, [t EXCEPT !.at = "poll", !.name = n, !.published = @ \cup {n}, !.left = @ \ {n}])
    <3>1. PICK v : v = [t EXCEPT !.at = "poll", !.name = n, !.published = @ \cup {n}, !.left = @ \ {n}]
      OBVIOUS
    <3>2. v \in TaskRec /\ v.at = "poll" /\ v.published = t.published \cup {n}
      BY <1>0, <3>1 DEF TaskRec, Stages
    <3>3. /\ renewal'[r] = v
          /\ \A q \in Certs!Renewal : q # r => renewal'[q] = renewal[q]
      BY <2>3, <3>1, <3>2, TaskSet DEF CertsInv
    <3>4. ChallengesInv'
      BY <2>3, <3>2, <3>3 DEF CertsInv, ChallengesInv
    <3> QED BY <1>0, <2>1, <2>3, <3>1, <3>2, <3>4, WithoutFiles
  <2> QED BY <1>5, <2>2, <2>3 DEF Certs!Authorization
<1>6. ASSUME NEW n \in Name, Certs!Unpublish(r, n)
      PROVE  CertsInv'
  <2>1. t.at \in {"undo", "clean"} /\ UNCHANGED <<tls, key, cert, pairs>> /\ txt' = [txt EXCEPT ![n] = None]
    BY <1>6 DEF Certs!Unpublish, Certs!Up, Certs!Same, Certs!files
  <2>2. PICK v : v = [t EXCEPT !.published = @ \ {n}]
    OBVIOUS
  <2>3. v \in TaskRec /\ v.at = t.at /\ v.pair = t.pair /\ v.published = t.published \ {n} /\ Certs!Set(r, v)
    BY <1>0, <1>6, <2>2 DEF TaskRec, Certs!Unpublish
  <2>4. /\ renewal'[r] = v
        /\ \A q \in Certs!Renewal : q # r => renewal'[q] = renewal[q]
    BY <2>3, TaskSet DEF CertsInv
  <2>5. ChallengesInv'
    BY <2>1, <2>3, <2>4 DEF CertsInv, ChallengesInv
  <2>6. v.at = "clean" => v.pair # 0
    BY <2>3 DEF CertsInv, WritesInv
  <2> QED BY <1>0, <2>1, <2>3, <2>5, <2>6, WithoutFiles
<1>7. CASE Certs!WriteKey(r)
  <2>1. PICK v : v = [t EXCEPT !.at = "cert"]
    OBVIOUS
  <2>2. v \in TaskRec /\ v.at = "cert" /\ v.pair = t.pair /\ v.published = t.published
    BY <1>0, <2>1 DEF TaskRec, Stages
  <2>3. /\ Certs!Set(r, v) /\ t.at = "clean" /\ t.published = {}
        /\ UNCHANGED <<tls, txt, pairs, cert>> /\ key' = t.pair
    BY <1>7, <2>1 DEF Certs!WriteKey, Certs!Up
  <2>4. t.pair # 0
    BY <2>3 DEF CertsInv, WritesInv
  <2> QED BY <1>0, <2>2, <2>3, <2>4, WithFiles
<1>8. CASE Certs!OpenCert(r)
  <2>1. PICK v : v = [t EXCEPT !.at = "text"]
    OBVIOUS
  <2>2. v \in TaskRec /\ v.at = "text" /\ v.pair = t.pair /\ v.published = t.published
    BY <1>0, <2>1 DEF TaskRec, Stages
  <2>3. Certs!Set(r, v) /\ t.at = "cert" /\ UNCHANGED <<tls, txt, pairs, key>>
    BY <1>8, <2>1 DEF Certs!OpenCert, Certs!Up
  <2>4. key = t.pair /\ key # 0 /\ t.published = {}
    BY <2>3 DEF CertsInv, WritesInv
  <2> QED BY <1>0, <2>2, <2>3, <2>4, WithFiles
<1>9. CASE Certs!WriteCert(r)
  <2>1. Certs!Set(r, Certs!Idle) /\ t.at = "text" /\ cert' = t.pair /\ UNCHANGED <<tls, txt, pairs, key>>
    BY <1>9 DEF Certs!WriteCert, Certs!Up
  <2>2. key = t.pair /\ key # 0 /\ t.published = {}
    BY <2>1 DEF CertsInv, WritesInv
  <2>3. PICK v : v = Certs!Idle
    OBVIOUS
  <2>4. v \in TaskRec /\ v.at = "idle" /\ v.published = {}
    BY <2>3, BootRecords DEF Certs!Idle
  <2> QED BY <1>0, <2>1, <2>2, <2>3, <2>4, WithFiles
<1> QED BY <1>1, <1>2, <1>3, <1>4, <1>5, <1>6, <1>7, <1>8, <1>9 DEF Certs!RenewalStep

(* However renewals overlap or fail, and wherever the process dies: a      *)
(* stored certificate has its key when no renewal is writing, and no       *)
(* challenge outlives the renewals (AcmeManager.renew, the finally of      *)
(* obtain).                                                                *)
THEOREM RenewalsWhole == Certs!Spec => []RenewalsAreWhole
<1>1. CertsInv /\ [Certs!Next]_(Certs!vars) => CertsInv'
  <2> SUFFICES ASSUME CertsInv, [Certs!Next]_(Certs!vars) PROVE CertsInv'
    OBVIOUS
  <2>1. CASE \E r \in Certs!Renewal : Certs!Runs(r) /\ Certs!RenewalStep(r)
    BY <2>1, CertsRenewal
  <2>2. CASE UNCHANGED Certs!vars
    BY <2>2 DEF Certs!vars, Certs!files, CertsInv, StoredInv, WritesInv, ChallengesInv, Certs!Writing, Certs!AtBoot
  <2> QED BY <2>1, <2>2, CertsAround DEF Certs!Next
<1>2. CertsInv => RenewalsAreWhole
  <2> SUFFICES ASSUME CertsInv, tls = "up" PROVE Certs!RenewalsAreWhole
    BY DEF RenewalsAreWhole, Certs!RenewalsAreWhole
  <2>1. Certs!Writing = {} /\ cert # 0 => cert = key
    BY DEF CertsInv, WritesInv
  <2>2. (\A r \in Certs!Renewal : renewal[r].at \in {"idle", "armed"}) => \A n \in Name : txt[n] = None
    BY DEF CertsInv, ChallengesInv
  <2> QED BY <2>1, <2>2 DEF Certs!RenewalsAreWhole
<1> QED BY <1>1, <1>2, CertsInit, PTL DEF Certs!Spec

-----------------------------------------------------------------------------
(* Self-update.  What a task has in hand is a release of the index, and    *)
(* past the smoke test it is a vetted one.                                 *)
Vetted == {r \in Index : r.ours /\ r.imports /\ r.holds = r.v}
JobSound(j) ==
  j # None => /\ DOMAIN j = {"stage", "rel"} /\ j.rel \in Index /\ j.rel.ours
              /\ j.stage \in {"install", "record"} => j.rel \in Vetted
UpdatesInv ==
  /\ installed \in {First, Broken} \cup {r.v : r \in Vetted}
  /\ DOMAIN job = Updates!Objects
  /\ \A u \in Updates!Objects : JobSound(job[u])

(* The newest of a set of releases is one of them.                         *)
LEMMA NewestIs ==
  ASSUME NEW S \in SUBSET Index, S # {}
  PROVE  Updates!Newest(S) \in S
<1> DEFINE V == {r.v : r \in S}
<1>1. IsFiniteSet(V) /\ V # {} /\ V \in SUBSET Nat
  <2>0. IsFiniteSet(Index)
    BY UpdatesAssumption DEF Updates!UpdateConstants, Updates!IsFiniteSet, IsFiniteSet
  <2>1. IsFiniteSet(S)
    BY <2>0, FS_Subset
  <2>2. IsFiniteSet(V)
    <3>1. [r \in S |-> r.v] \in Surjection(S, V)
      BY DEF Surjection
    <3> QED BY <2>1, <3>1, FS_Surjection
  <2> QED BY <2>2, UpdatesAssumption DEF Updates!UpdateConstants
<1>2. PICK v \in V : \A w \in V : w <= v
  BY <1>1, Greatest
<1>3. PICK r \in S : r.v = v
  OBVIOUS
<1>4. \A q \in S : q.v <= r.v
  BY <1>2, <1>3
<1> QED BY <1>4 DEF Updates!Newest

LEMMA PickIs ==
  ASSUME NEW want, Updates!PickRelease(want) # None
  PROVE  Updates!PickRelease(want) \in Index /\ Updates!PickRelease(want).ours
<1>1. Updates!Candidates(want) # {} /\ Updates!PickRelease(want) = Updates!Newest(Updates!Candidates(want))
  BY DEF Updates!PickRelease
<1>2. Updates!Candidates(want) \in SUBSET Index /\ \A r \in Updates!Candidates(want) : r.ours
  BY DEF Updates!Candidates
<1> QED BY <1>1, <1>2, NewestIs

(* Only the task of one object moves, to what is sound.                    *)
LEMMA JobMoves ==
  ASSUME UpdatesInv, NEW u \in Updates!Objects, NEW j, JobSound(j),
         job' = [job EXCEPT ![u] = j],
         installed' \in {First, Broken} \cup {r.v : r \in Vetted}
  PROVE  UpdatesInv'
<1>1. \A w \in Updates!Objects : JobSound(job'[w])
  BY DEF UpdatesInv
<1>2. Updates!Objects' = Updates!Objects
  BY DEF Updates!Objects
<1> QED BY <1>1, <1>2 DEF UpdatesInv, JobSound, Vetted

LEMMA JobKept ==
  ASSUME UpdatesInv, UNCHANGED <<installed, job>>
  PROVE  UpdatesInv'
BY DEF UpdatesInv, JobSound, Vetted, Updates!Objects

LEMMA StartIs ==
  ASSUME NEW rel \in Index, rel.ours
  PROVE  JobSound([stage |-> "download", rel |-> rel])
BY DEF JobSound

LEMMA NoJob == JobSound(None)
BY DEF JobSound

LEMMA UpdatesStep == UpdatesInv /\ [Updates!Next]_(Updates!vars) => UpdatesInv'
<1> SUFFICES ASSUME UpdatesInv, [Updates!Next]_(Updates!vars) PROVE UpdatesInv'
  OBVIOUS
<1> USE DEF Updates!old, Updates!mem, Updates!counts
<1>0. installed \in {First, Broken} \cup {r.v : r \in Vetted} /\ \A u \in Updates!Objects : JobSound(job[u])
  BY DEF UpdatesInv
<1>1. CASE Updates!Tick \/ Updates!Rebuild \/ Updates!BuildStarts \/ Updates!BuildEnds \/ UNCHANGED Updates!vars
  BY <1>1, JobKept DEF Updates!Tick, Updates!Rebuild, Updates!BuildStarts, Updates!BuildEnds, Updates!vars
<1>2. ASSUME NEW want, NEW down, Updates!Ask(want, down) PROVE UpdatesInv'
  <2>1. PICK rel : rel = Updates!PickRelease(want)
    OBVIOUS
  <2>2. rel # None /\ Updates!Started(updater, rel) /\ UNCHANGED installed
    BY <1>2, <2>1 DEF Updates!Ask
  <2>3. JobSound([stage |-> "download", rel |-> rel])
    BY <2>1, <2>2, PickIs, StartIs
  <2>4. job' = [job EXCEPT ![updater] = [stage |-> "download", rel |-> rel]]
    BY <2>2 DEF Updates!Started
  <2>5. CASE updater \in Updates!Objects
    BY <1>0, <2>2, <2>3, <2>4, <2>5, JobMoves
  <2>6. CASE updater \notin Updates!Objects
    BY <2>2, <2>4, <2>6, JobKept DEF UpdatesInv
  <2> QED BY <2>5, <2>6
<1>3. CASE Updates!Apply \/ Updates!Rollback
  BY <1>2, <1>3 DEF Updates!Apply, Updates!Rollback
<1>4. CASE Updates!Restart
  <2>1. installed' = installed /\ job' = [u \in Updates!Objects |-> None]
    BY <1>4 DEF Updates!Restart
  <2> QED BY <1>0, <2>1, NoJob DEF UpdatesInv, JobSound, Vetted, Updates!Objects
<1>5. ASSUME NEW u \in Updates!Objects, Updates!CheckEnds(u) PROVE UpdatesInv'
  <2>1. PICK rel : rel = Updates!PickRelease(None)
    OBVIOUS
  <2>2. UNCHANGED installed /\ (job' = job \/ (rel # None /\ Updates!Started(u, rel)))
    BY <1>5, <2>1 DEF Updates!CheckEnds
  <2>3. CASE rel # None /\ Updates!Started(u, rel)
    BY <1>0, <2>1, <2>2, <2>3, PickIs, StartIs, JobMoves DEF Updates!Started
  <2> QED BY <2>2, <2>3, JobKept
<1>6. ASSUME NEW u \in Updates!Objects, Updates!CheckFails(u) PROVE UpdatesInv'
  BY <1>6, JobKept DEF Updates!CheckFails
<1>7. ASSUME NEW u \in Updates!Objects,
             Updates!Download(u) \/ Updates!SmokeTest(u) \/ Updates!Install(u) \/ Updates!Record(u)
      PROVE  UpdatesInv'
  <2> DEFINE j == job[u]
             Moved(st) == [j EXCEPT !.stage = st]
  <2>1. j # None /\ DOMAIN j = {"stage", "rel"} /\ j.rel \in Index /\ j.rel.ours /\ (j.stage \in {"install", "record"} => j.rel \in Vetted)
    BY <1>0, <1>7 DEF JobSound, Updates!Download, Updates!SmokeTest, Updates!Install, Updates!Record, Updates!At
  <2>2. \A st \in {"smoke", "install", "record"} : Updates!To(u, st) => job' = [job EXCEPT ![u] = Moved(st)]
    BY DEF Updates!To, UpdatesInv
  <2>3. ASSUME NEW st \in {"smoke", "install", "record"}, st # "smoke" => j.rel \in Vetted
        PROVE  JobSound(Moved(st))
    BY <2>1, <2>3 DEF JobSound
  <2>4. CASE Updates!Failed(u) /\ installed' \in {installed, Broken}
    BY <1>0, <2>4, NoJob, JobMoves DEF Updates!Failed
  <2>5. CASE Updates!Download(u)
    BY <1>0, <2>2, <2>3, <2>4, <2>5, JobMoves DEF Updates!Download
  <2>6. CASE Updates!SmokeTest(u)
    <3>1. CASE j.rel.imports /\ j.rel.holds = j.rel.v
      BY <1>0, <2>1, <2>2, <2>3, <2>6, <3>1, JobMoves DEF Updates!SmokeTest, Vetted
    <3> QED BY <2>4, <2>6, <3>1 DEF Updates!SmokeTest
  <2>7. CASE Updates!Install(u)
    <3>1. j.rel \in Vetted
      BY <2>1, <2>7 DEF Updates!Install, Updates!At
    <3>2. CASE installed' = j.rel.holds /\ Updates!To(u, "record")
      <4>1. installed' \in {First, Broken} \cup {r.v : r \in Vetted}
        BY <3>1, <3>2 DEF Vetted
      <4> QED BY <2>2, <2>3, <3>1, <3>2, <4>1, JobMoves
    <3> QED BY <2>4, <2>7, <3>2 DEF Updates!Install
  <2>8. CASE Updates!Record(u)
    BY <2>4, <2>8 DEF Updates!Record
  <2> QED BY <1>7, <2>5, <2>6, <2>7, <2>8
<1> QED BY <1>1, <1>3, <1>4, <1>5, <1>6, <1>7 DEF Updates!Next

(* Whatever fails, is retried, pinned, rolled back or runs twice: what is  *)
(* installed is a wheel of this project that imports and is the version    *)
(* the index said, unless pip itself was cut off (Updater._download,       *)
(* _smoke_test).                                                           *)
THEOREM OnlyVetted == Updates!Spec => []InstalledIsVetted
<1>1. Updates!Init => UpdatesInv
  BY NoJob DEF Updates!Init, UpdatesInv
<1>2. UpdatesInv => InstalledIsVetted
  BY DEF UpdatesInv, Vetted, InstalledIsVetted, Updates!InstalledIsVetted
<1> QED BY <1>1, <1>2, UpdatesStep, PTL DEF Updates!Spec

-----------------------------------------------------------------------------
(* The lease table.  What is leased now is leased to one client, and what  *)
(* is reserved to nobody else; a client that uses an address has the lease *)
(* of it, for at least as long as it believes.                             *)
Live(t, m) == m \in DOMAIN t /\ t[m].expire > clock
Reserved == {Reservation[m] : m \in DOMAIN Reservation}
LeaseRec == [ip : Ip, offered : BOOLEAN, expire : Nat]
TableTyped(t) ==
  /\ DOMAIN t \subseteq Mac
  /\ \A m \in DOMAIN t : t[m] \in LeaseRec /\ t[m].expire <= clock + LeaseTime
OwnAddress(m, ip) == IF m \in DOMAIN Reservation THEN ip = Reservation[m] ELSE ip \notin Reserved
TableSound(t) ==
  /\ TableTyped(t)
  /\ \A m \in DOMAIN t : Live(t, m) => OwnAddress(m, t[m].ip)
  /\ \A m, n \in DOMAIN t : m # n /\ Live(t, m) /\ Live(t, n) => t[m].ip # t[n].ip
ClientsSound ==
  /\ DOMAIN held = Mac /\ DOMAIN out = Mac
  /\ \A m \in Mac : Leases!Holds(m) =>
       /\ Live(leases, m) /\ held[m].ip = leases[m].ip
       /\ held[m].until \in Nat /\ held[m].until <= leases[m].expire
  /\ \A m \in Mac : out[m] # None =>
       /\ out[m].sent \in Nat /\ out[m].sent <= clock
       /\ out[m].kind = "release" => ~Leases!Holds(m)
Backs(t, m, n, ip) ==
  m \in DOMAIN t /\ t[m].ip = ip /\ ~t[m].offered /\ Host[m] = n /\ t[m].expire >= seenD[ip] + LeaseTime
NamesTyped ==
  /\ DOMAIN byIp = Ip /\ DOMAIN seenD = Ip
  /\ \A i \in Ip : seenD[i] \in Nat /\ seenD[i] <= clock
  /\ None \notin DOMAIN byName
  /\ \A n \in DOMAIN byName : byName[n] \in Ip /\ byIp[byName[n]] = n
NamesBacked ==
  \A n \in DOMAIN byName : clock < seenD[byName[n]] + LeaseTime => \E m \in Mac : Backs(leases, m, n, byName[n])
LeasesInv == clock \in Nat /\ TableSound(leases) /\ ClientsSound /\ NamesTyped /\ NamesBacked

LEMMA DhcpConstants ==
  /\ Ip \in SUBSET Nat /\ None \notin Ip
  /\ \A m \in DOMAIN Reservation : Reservation[m] \in Ip
  /\ \A m, n \in DOMAIN Reservation : Reservation[m] = Reservation[n] => m = n
  /\ DOMAIN Reservation \subseteq Mac
  /\ LeaseTime \in Nat /\ LeaseTime # 0 /\ OfferHold \in Nat
BY LeasesAssumption DEF Leases!DhcpConstants

(* Reaping keeps what is live.                                             *)
LEMMA ReapIs ==
  ASSUME TableSound(leases)
  PROVE  /\ TableSound(Leases!Reap)
         /\ \A m \in DOMAIN Leases!Reap : m \in DOMAIN leases /\ Leases!Reap[m] = leases[m]
         /\ \A m \in DOMAIN leases : Live(leases, m) => m \in DOMAIN Leases!Reap
<1>1. PICK t : t = Leases!Reap
  OBVIOUS
<1>2. /\ \A m \in DOMAIN t : m \in DOMAIN leases /\ t[m] = leases[m]
      /\ \A m \in DOMAIN leases : Live(leases, m) => m \in DOMAIN t
  <2>1. CASE Leases!Cardinality(DOMAIN leases) <= MaxLeases
    BY <1>1, <2>1 DEF Leases!Reap
  <2>2. CASE ~(Leases!Cardinality(DOMAIN leases) <= MaxLeases)
    BY <1>1, <2>2 DEF Leases!Reap, Live
  <2> QED BY <2>1, <2>2
<1>3. TableSound(t)
  BY <1>2 DEF TableSound, TableTyped, Live
<1> QED BY <1>1, <1>2, <1>3

LEMMA GrantIs ==
  ASSUME clock \in Nat, NEW ip \in Ip, NEW offer \in BOOLEAN, NEW g, g = Leases!Grant(ip, offer)
  PROVE  /\ g \in LeaseRec /\ g.ip = ip /\ g.offered = offer
         /\ g.expire <= clock + LeaseTime
         /\ ~offer => g.expire = clock + LeaseTime
<1>1. clock + LeaseTime \in Nat /\ clock + OfferHold \in Nat /\ (OfferHold < LeaseTime => clock + OfferHold <= clock + LeaseTime)
  BY DhcpConstants
<1> QED BY <1>1, DhcpConstants DEF Leases!Grant, LeaseRec

LEMMA FirstIs ==
  ASSUME NEW S \in SUBSET Ip, S # {}
  PROVE  Leases!Lowest(S) \in S
<1>1. PICK x \in S : \A y \in S : x <= y
  BY DhcpConstants, Least
<1> QED BY <1>1 DEF Leases!Lowest

(* The lease a client gets: its own again, the reserved one, or one nobody *)
(* uses.                                                                   *)
LEMMA AllocateIs ==
  ASSUME clock \in Nat, NEW t, TableSound(t), NEW m \in Mac, NEW r, NEW offer \in BOOLEAN,
         NEW lease, lease = Leases!Allocate(t, m, r, offer), lease # None
  PROVE  \/ offer /\ Live(t, m) /\ lease = t[m]
         \/ /\ lease \in LeaseRec /\ lease.offered = offer /\ lease.expire <= clock + LeaseTime
            /\ ~offer => lease.expire = clock + LeaseTime
            /\ OwnAddress(m, lease.ip)
            /\ Live(t, m) => ~offer /\ lease.ip = t[m].ip
            /\ \A k \in DOMAIN t : k # m /\ Live(t, k) => t[k].ip # lease.ip
<1> DEFINE free == Ip \ Leases!InUse(t)
<1>0. Live(t, m) <=> (m \in DOMAIN t /\ t[m].expire > clock)
  BY DEF Live
<1>1. CASE offer /\ Live(t, m)
  BY <1>0, <1>1 DEF Leases!Allocate
<1>2. CASE ~(offer /\ Live(t, m)) /\ m \in DOMAIN Reservation
  <2>1. lease = Leases!Grant(Reservation[m], offer)
    BY <1>0, <1>2 DEF Leases!Allocate
  <2>2. lease \in LeaseRec /\ lease.ip = Reservation[m] /\ lease.offered = offer
        /\ lease.expire <= clock + LeaseTime /\ (~offer => lease.expire = clock + LeaseTime)
    BY <1>2, <2>1, DhcpConstants, GrantIs
  <2>3. ASSUME NEW k \in DOMAIN t, k # m, Live(t, k) PROVE t[k].ip # Reservation[m]
    BY <1>2, <2>3, DhcpConstants DEF TableSound, OwnAddress, Reserved
  <2>4. Live(t, m) => t[m].ip = Reservation[m]
    BY <1>0, <1>2 DEF TableSound, OwnAddress
  <2> QED BY <1>2, <2>2, <2>3, <2>4 DEF OwnAddress
<1>3. CASE ~offer /\ Live(t, m) /\ m \notin DOMAIN Reservation
  <2>1. lease = Leases!Grant(t[m].ip, offer) /\ m \in DOMAIN t
    BY <1>0, <1>3 DEF Leases!Allocate
  <2>2. t[m].ip \in Ip
    BY <2>1 DEF TableSound, TableTyped, LeaseRec
  <2>3. lease \in LeaseRec /\ lease.ip = t[m].ip /\ lease.offered = offer
        /\ lease.expire <= clock + LeaseTime /\ (~offer => lease.expire = clock + LeaseTime)
    BY <2>1, <2>2, GrantIs
  <2> QED BY <1>3, <2>1, <2>3 DEF TableSound
<1>4. CASE ~Live(t, m) /\ m \notin DOMAIN Reservation
  <2>1. PICK ip \in free : lease = Leases!Grant(ip, offer)
    <3>1. free # {} => Leases!Lowest(free) \in free
      BY FirstIs
    <3> QED BY <1>0, <1>4, <3>1 DEF Leases!Allocate
  <2>2. lease \in LeaseRec /\ lease.ip = ip /\ lease.offered = offer
        /\ lease.expire <= clock + LeaseTime /\ (~offer => lease.expire = clock + LeaseTime)
    BY <2>1, GrantIs
  <2>3. ip \notin Reserved /\ \A k \in DOMAIN t : Live(t, k) => t[k].ip # ip
    BY DEF Leases!InUse, Reserved, Live
  <2> QED BY <1>4, <2>2, <2>3 DEF OwnAddress
<1> QED BY <1>1, <1>2, <1>3, <1>4

LEMMA GrantedIs ==
  ASSUME clock \in Nat, NEW t, TableSound(t), NEW m \in Mac, NEW r, NEW offer \in BOOLEAN,
         NEW lease, lease = Leases!Allocate(t, m, r, offer), NEW new, new = Leases!Granted(t, m, lease)
  PROVE  /\ TableSound(new)
         /\ \A k \in DOMAIN t : k # m => k \in DOMAIN new /\ new[k] = t[k]
         /\ Live(t, m) => /\ Live(new, m) /\ new[m].ip = t[m].ip /\ new[m].expire >= t[m].expire
                          /\ new[m].offered => t[m].offered
         /\ lease # None => m \in DOMAIN new /\ new[m] = lease
<1>1. CASE lease = None
  <2>1. new = t
    BY <1>1 DEF Leases!Granted
  <2>2. m \in DOMAIN t => t[m].expire \in Nat
    BY DEF TableSound, TableTyped, LeaseRec
  <2> QED BY <1>1, <2>1, <2>2 DEF Live
<1>2. CASE lease # None
  <2>1. /\ DOMAIN new = DOMAIN t \cup {m} /\ new[m] = lease
        /\ \A k \in DOMAIN t : k # m => new[k] = t[k]
    BY <1>2 DEF Leases!Granted, Leases!With
  <2>2. CASE offer /\ Live(t, m) /\ lease = t[m]
    <3>1. new[m] = t[m] /\ DOMAIN new = DOMAIN t /\ \A k \in DOMAIN t : new[k] = t[k]
      BY <2>1, <2>2 DEF Live
    <3>2. TableSound(new)
      BY <3>1 DEF TableSound, TableTyped, Live
    <3>3. t[m].expire \in Nat /\ t[m].offered \in BOOLEAN
      BY <2>2 DEF TableSound, TableTyped, LeaseRec, Live
    <3>4. Live(new, m) /\ new[m].ip = t[m].ip /\ new[m].expire >= t[m].expire /\ (new[m].offered => t[m].offered)
      <4>1. m \in DOMAIN t /\ t[m].expire > clock /\ new[m] = t[m] /\ DOMAIN new = DOMAIN t
        BY <2>2, <3>1 DEF Live
      <4>2. Live(new, m)
        BY <4>1 DEF Live
      <4>3. new[m].expire >= t[m].expire
        BY <3>3, <4>1
      <4> QED BY <4>1, <4>2, <4>3
    <3>5. \A k \in DOMAIN t : k # m => k \in DOMAIN new /\ new[k] = t[k]
      BY <3>1
    <3> QED BY <2>1, <3>2, <3>4, <3>5
  <2>3. CASE /\ lease \in LeaseRec /\ lease.offered = offer /\ lease.expire <= clock + LeaseTime
             /\ ~offer => lease.expire = clock + LeaseTime
             /\ OwnAddress(m, lease.ip)
             /\ Live(t, m) => ~offer /\ lease.ip = t[m].ip
             /\ \A k \in DOMAIN t : k # m /\ Live(t, k) => t[k].ip # lease.ip
    <3>1. TableTyped(new)
      BY <2>1, <2>3 DEF TableSound, TableTyped
    <3>2. \A k \in DOMAIN new : k # m => k \in DOMAIN t /\ new[k] = t[k] /\ (Live(new, k) <=> Live(t, k))
      BY <2>1 DEF Live
    <3>3. \A k \in DOMAIN new : Live(new, k) => OwnAddress(k, new[k].ip)
      BY <2>1, <2>3, <3>2 DEF TableSound
    <3>4. ASSUME NEW k \in DOMAIN new, NEW n \in DOMAIN new, k # n, Live(new, k), Live(new, n)
          PROVE  new[k].ip # new[n].ip
      <4>1. CASE k = m
        BY <2>1, <2>3, <3>2, <3>4, <4>1
      <4>2. CASE n = m
        BY <2>1, <2>3, <3>2, <3>4, <4>2
      <4>3. CASE k # m /\ n # m
        BY <3>2, <3>4, <4>3 DEF TableSound
      <4> QED BY <4>1, <4>2, <4>3
    <3>5. TableSound(new)
      BY <3>1, <3>3, <3>4 DEF TableSound
    <3>6. ASSUME Live(t, m)
          PROVE  /\ Live(new, m) /\ new[m].ip = t[m].ip /\ new[m].expire >= t[m].expire /\ ~new[m].offered
      <4>1. new[m].expire = clock + LeaseTime /\ ~new[m].offered /\ new[m].ip = t[m].ip /\ m \in DOMAIN t
        BY <2>1, <2>3, <3>6 DEF Live
      <4>2. t[m].expire \in Nat /\ t[m].expire <= clock + LeaseTime
        BY <4>1 DEF TableSound, TableTyped, LeaseRec
      <4> QED BY <2>1, <4>1, <4>2, DhcpConstants DEF Live
    <3> QED BY <1>2, <2>1, <3>5, <3>6
  <2> QED BY <1>2, <2>2, <2>3, AllocateIs
<1> QED BY <1>1, <1>2

(* What a step of the table leaves to whoever has a lease.                 *)
Keeps ==
  \A k \in DOMAIN leases : Live(leases, k) =>
    /\ Live(leases, k)' /\ leases'[k].ip = leases[k].ip /\ leases'[k].expire >= leases[k].expire
    /\ leases'[k].offered => leases[k].offered

LEMMA TableStep ==
  ASSUME LeasesInv, clock' = clock, NEW m \in Mac, NEW r, NEW offer \in BOOLEAN,
         NEW lease, lease = Leases!Allocate(Leases!Reap, m, r, offer),
         leases' = Leases!Granted(Leases!Reap, m, lease)
  PROVE  /\ TableSound(leases)' /\ Keeps
         /\ lease # None => m \in DOMAIN leases' /\ leases'[m] = lease
<1>1. PICK t : t = Leases!Reap
  OBVIOUS
<1>2. /\ clock \in Nat /\ TableSound(t)
      /\ \A k \in DOMAIN t : k \in DOMAIN leases /\ t[k] = leases[k]
      /\ \A k \in DOMAIN leases : Live(leases, k) => k \in DOMAIN t
  BY <1>1, ReapIs DEF LeasesInv
<1>3. PICK new : new = leases'
  OBVIOUS
<1>4. /\ TableSound(new)
      /\ \A k \in DOMAIN t : k # m => k \in DOMAIN new /\ new[k] = t[k]
      /\ Live(t, m) => /\ Live(new, m) /\ new[m].ip = t[m].ip /\ new[m].expire >= t[m].expire
                       /\ new[m].offered => t[m].offered
      /\ lease # None => m \in DOMAIN new /\ new[m] = lease
  BY <1>1, <1>2, <1>3, GrantedIs
<1>5. TableSound(leases)'
  BY <1>3, <1>4 DEF TableSound, TableTyped, Live
<1>6. ASSUME NEW k \in DOMAIN leases, Live(leases, k)
      PROVE  /\ Live(leases, k)' /\ leases'[k].ip = leases[k].ip /\ leases'[k].expire >= leases[k].expire
             /\ leases'[k].offered => leases[k].offered
  <2>1. k \in DOMAIN t /\ t[k] = leases[k] /\ Live(t, k) /\ t[k].expire \in Nat
    BY <1>2, <1>6 DEF Live, TableSound, TableTyped, LeaseRec
  <2>2. Live(leases, k)' <=> Live(new, k)
    BY <1>3 DEF Live
  <2>3. CASE k = m
    BY <1>3, <1>4, <2>1, <2>2, <2>3
  <2>4. CASE k # m
    BY <1>3, <1>4, <2>1, <2>2, <2>4 DEF Live
  <2> QED BY <2>3, <2>4
<1> QED BY <1>3, <1>4, <1>5, <1>6 DEF Keeps

(* A name that still resolves keeps the lease behind it.                   *)
LEMMA BackingKept ==
  ASSUME Keeps, TableSound(leases)', NEW m \in Mac, NEW n, NEW ip, Backs(leases, m, n, ip),
         clock \in Nat, leases[m].expire \in Nat, seenD[ip] \in Nat, seenD'[ip] = seenD[ip],
         clock < seenD[ip] + LeaseTime
  PROVE  Backs(leases, m, n, ip)'
<1>1. m \in DOMAIN leases /\ leases[m].expire >= seenD[ip] + LeaseTime
  BY DEF Backs
<1>2. Live(leases, m)
  BY <1>1, DhcpConstants DEF Live
<1>3. /\ m \in DOMAIN leases' /\ leases'[m].ip = leases[m].ip /\ leases'[m].expire >= leases[m].expire
      /\ ~leases'[m].offered
  BY <1>1, <1>2 DEF Keeps, Live, Backs
<1>4. leases'[m].expire \in Nat
  BY <1>3 DEF TableSound, TableTyped, LeaseRec
<1>5. leases'[m].expire >= seenD'[ip] + LeaseTime
  BY <1>1, <1>3, <1>4, DhcpConstants
<1> QED BY <1>3, <1>5 DEF Backs

LEMMA NamesKept ==
  ASSUME LeasesInv, clock' = clock, Keeps, TableSound(leases)', UNCHANGED <<byIp, byName, seenD>>
  PROVE  NamesTyped' /\ NamesBacked'
<1>1. NamesTyped'
  BY DEF LeasesInv, NamesTyped
<1>2. ASSUME NEW n \in DOMAIN byName, clock < seenD[byName[n]] + LeaseTime
      PROVE  \E m \in Mac : Backs(leases, m, n, byName[n])'
  <2>1. PICK m \in Mac : Backs(leases, m, n, byName[n])
    BY <1>2 DEF LeasesInv, NamesBacked
  <2>2. m \in DOMAIN leases /\ leases[m].expire \in Nat /\ seenD[byName[n]] \in Nat /\ clock \in Nat
    BY <2>1 DEF Backs, LeasesInv, TableSound, TableTyped, LeaseRec, NamesTyped
  <2> QED BY <1>2, <2>1, <2>2, BackingKept
<1> QED BY <1>1, <1>2 DEF NamesBacked

(* What register leaves of the names: the new one, and those of others.    *)
Renamed(ip, label, nm, ips, at) ==
  /\ DOMAIN ips = Ip /\ DOMAIN at = Ip /\ \A i \in Ip : at[i] \in Nat /\ at[i] <= clock
  /\ label # None /\ nm[label] = ip /\ ips[ip] = label /\ at[ip] = clock
  /\ \A n \in DOMAIN nm : n # label =>
       /\ n \in DOMAIN byName /\ nm[n] = byName[n] /\ n # None
       /\ ips[nm[n]] = n /\ at[nm[n]] = seenD[nm[n]]

(* Evicting an address takes its name along.                               *)
LEMMA EvictedIs ==
  ASSUME LeasesInv, clock' = clock, Keeps, TableSound(leases)', NEW ip \in Ip, NEW m \in Mac,
         m \in DOMAIN leases', leases'[m].ip = ip, ~leases'[m].offered, leases'[m].expire = clock + LeaseTime,
         NEW nm, NEW ips, NEW at, Renamed(ip, Host[m], nm, ips, at),
         DOMAIN byIp' = Ip, DOMAIN seenD' = Ip, \A i \in Ip : seenD'[i] \in Nat /\ seenD'[i] <= clock,
         \A n \in DOMAIN byName' :
           n \in DOMAIN nm /\ byName'[n] = nm[n] /\ byIp'[nm[n]] = ips[nm[n]] /\ seenD'[nm[n]] = at[nm[n]]
  PROVE  NamesTyped' /\ NamesBacked'
<1> DEFINE label == Host[m]
<1>1. \A n \in DOMAIN byName' : n # None /\ byName'[n] \in Ip /\ byIp'[byName'[n]] = n
  <2> TAKE n \in DOMAIN byName'
  <2>1. CASE n = label
    BY <2>1 DEF Renamed
  <2>2. CASE n # label
    <3>1. n \in DOMAIN byName /\ nm[n] = byName[n] /\ n # None /\ ips[nm[n]] = n
      BY <2>2 DEF Renamed
    <3> QED BY <3>1 DEF LeasesInv, NamesTyped
  <2> QED BY <2>1, <2>2
<1>2. NamesTyped'
  BY <1>1 DEF NamesTyped
<1>3. ASSUME NEW n \in DOMAIN byName', clock < seenD'[byName'[n]] + LeaseTime
      PROVE  \E k \in Mac : Backs(leases, k, n, byName[n])'
  <2>1. CASE n = label
    <3>1. byName'[n] = ip /\ seenD'[ip] = clock
      BY <2>1 DEF Renamed
    <3>2. clock + LeaseTime >= clock + LeaseTime
      BY DhcpConstants DEF LeasesInv
    <3>3. Backs(leases, m, n, byName[n])'
      BY <2>1, <3>1, <3>2 DEF Backs
    <3> QED BY <3>3
  <2>2. CASE n # label
    <3>1. PICK j : j = byName[n]
      OBVIOUS
    <3>2. n \in DOMAIN byName /\ byName'[n] = j /\ seenD'[j] = seenD[j]
      BY <2>2, <3>1 DEF Renamed
    <3>3. j \in Ip /\ seenD[j] \in Nat /\ clock \in Nat
      BY <3>1, <3>2 DEF LeasesInv, NamesTyped
    <3>4. PICK k \in Mac : Backs(leases, k, n, j)
      BY <1>3, <3>1, <3>2 DEF LeasesInv, NamesBacked
    <3>5. leases[k].expire \in Nat
      BY <3>4 DEF Backs, LeasesInv, TableSound, TableTyped, LeaseRec
    <3>6. Backs(leases, k, n, j)'
      BY <1>3, <3>2, <3>3, <3>4, <3>5, BackingKept
    <3> QED BY <3>2, <3>6 DEF Backs
  <2> QED BY <2>1, <2>2
<1> QED BY <1>2, <1>3 DEF NamesBacked

LEMMA RegisterKeeps ==
  ASSUME LeasesInv, clock' = clock, Keeps, TableSound(leases)', NEW ip \in Ip, NEW m \in Mac,
         m \in DOMAIN leases', leases'[m].ip = ip, ~leases'[m].offered, leases'[m].expire = clock + LeaseTime,
         Leases!Register(ip, Host[m])
  PROVE  NamesTyped' /\ NamesBacked'
<1>1. PICK label : label = Host[m]
  OBVIOUS
<1>2. PICK taken : taken = IF label \in DOMAIN byName THEN byName[label] ELSE None
  OBVIOUS
<1>3. PICK stale : stale = IF taken \notin {None, ip} /\ Leases!Expired(taken) THEN {taken} ELSE {}
  OBVIOUS
<1>4. PICK f : f = Leases!Forgotten(stale)
  OBVIOUS
<1>5. PICK nm : nm = Leases!With(IF f.ip[ip] = None THEN f.name ELSE Leases!Without(f.name, f.ip[ip]), label, ip)
  OBVIOUS
<1>6. PICK ips : ips = [f.ip EXCEPT ![ip] = label]
  OBVIOUS
<1>7. PICK at : at = [i \in Ip |-> IF i = ip THEN clock ELSE IF i \in stale THEN 0 ELSE seenD[i]]
  OBVIOUS
<1>8. CASE UNCHANGED <<byIp, byName, seenD>>
  BY <1>8, NamesKept
<1>t. NamesTyped /\ clock \in Nat
  BY DEF LeasesInv
<1>a. stale \subseteq Ip /\ ip \notin stale
  BY <1>2, <1>3, <1>t DEF NamesTyped
<1>b. /\ f.ip = [i \in Ip |-> IF i \in stale THEN None ELSE byIp[i]]
      /\ \A n \in DOMAIN f.name : /\ n \in DOMAIN byName /\ f.name[n] = byName[n]
                                  /\ byName[n] \notin stale \/ byIp[byName[n]] # n
  BY <1>4 DEF Leases!Forgotten
<1>c. \A n \in DOMAIN f.name : /\ n \in DOMAIN byName /\ n # None /\ f.name[n] = byName[n]
                              /\ byName[n] \in Ip \ stale /\ f.ip[byName[n]] = n
  BY <1>b, <1>t DEF NamesTyped
<1>d. PICK kept : kept = IF f.ip[ip] = None THEN f.name ELSE Leases!Without(f.name, f.ip[ip])
  OBVIOUS
<1>e. \A n \in DOMAIN kept : n \in DOMAIN f.name /\ kept[n] = f.name[n] /\ byName[n] # ip
  <2>1. CASE f.ip[ip] = None
    BY <1>c, <1>d, <2>1
  <2>2. CASE f.ip[ip] # None
    BY <1>c, <1>d, <2>2 DEF Leases!Without
  <2> QED BY <2>1, <2>2
<1>f. DOMAIN nm = DOMAIN kept \cup {label} /\ nm[label] = ip /\ \A n \in DOMAIN kept : n # label => nm[n] = kept[n]
  BY <1>5, <1>d DEF Leases!With
<1>g. /\ DOMAIN ips = Ip /\ ips[ip] = label /\ \A i \in Ip : i # ip => ips[i] = f.ip[i]
  BY <1>6, <1>b
<1>h. /\ DOMAIN at = Ip /\ at[ip] = clock /\ \A i \in Ip : at[i] \in Nat /\ at[i] <= clock
      /\ \A i \in Ip \ stale : i # ip => at[i] = seenD[i]
  BY <1>7, <1>t DEF NamesTyped
<1>i. ASSUME NEW n \in DOMAIN nm, n # label
      PROVE  /\ n \in DOMAIN byName /\ nm[n] = byName[n] /\ n # None
             /\ ips[nm[n]] = n /\ at[nm[n]] = seenD[nm[n]]
  BY <1>c, <1>e, <1>f, <1>g, <1>h, <1>i
<1>j. label # None => Renamed(ip, label, nm, ips, at)
  BY <1>f, <1>g, <1>h, <1>i DEF Renamed
<1>9. CASE label # None /\ byIp' = ips /\ byName' = nm /\ seenD' = at
  <2>1. \A n \in DOMAIN byName' :
          n \in DOMAIN nm /\ byName'[n] = nm[n] /\ byIp'[nm[n]] = ips[nm[n]] /\ seenD'[nm[n]] = at[nm[n]]
    BY <1>9
  <2>2. DOMAIN byIp' = Ip /\ DOMAIN seenD' = Ip /\ \A i \in Ip : seenD'[i] \in Nat /\ seenD'[i] <= clock
    BY <1>9, <1>g, <1>h
  <2>3. Renamed(ip, Host[m], nm, ips, at)
    BY <1>1, <1>9, <1>j
  <2> QED BY <2>1, <2>2, <2>3, EvictedIs
<1>10. CASE label # None /\ \E old \in Ip : /\ ips[old] # None /\ byIp' = [ips EXCEPT ![old] = None]
                            /\ byName' = Leases!Without(nm, ips[old]) /\ seenD' = [at EXCEPT ![old] = 0]
  <2>1. PICK old \in Ip : /\ ips[old] # None /\ byIp' = [ips EXCEPT ![old] = None]
                          /\ byName' = Leases!Without(nm, ips[old]) /\ seenD' = [at EXCEPT ![old] = 0]
    BY <1>10
  <2>2. ASSUME NEW n \in DOMAIN byName'
        PROVE  n \in DOMAIN nm /\ byName'[n] = nm[n] /\ byIp'[nm[n]] = ips[nm[n]] /\ seenD'[nm[n]] = at[nm[n]]
    <3>1. n \in DOMAIN nm /\ n # ips[old] /\ byName'[n] = nm[n]
      BY <2>1, <2>2 DEF Leases!Without
    <3>2. ips[nm[n]] = n
      BY <1>f, <1>g, <1>i, <3>1
    <3>3. nm[n] # old
      BY <3>1, <3>2
    <3>4. byIp'[nm[n]] = ips[nm[n]] /\ seenD'[nm[n]] = at[nm[n]]
      <4>1. nm[n] \in DOMAIN ips /\ nm[n] \in DOMAIN at
        BY <1>c, <1>e, <1>f, <1>g, <1>h, <3>1
      <4>2. ips = [i \in Ip |-> IF i = ip THEN label ELSE f.ip[i]]
        BY <1>6, <1>b
      <4>3. [ips EXCEPT ![old] = None][nm[n]] = ips[nm[n]]
        BY <1>g, <3>3, <4>1, <4>2
      <4>4. [at EXCEPT ![old] = 0][nm[n]] = at[nm[n]]
        BY <1>7, <1>h, <3>3, <4>1
      <4> QED BY <2>1, <4>3, <4>4
    <3> QED BY <3>1, <3>4
  <2>3. DOMAIN byIp' = Ip /\ DOMAIN seenD' = Ip /\ \A i \in Ip : seenD'[i] \in Nat /\ seenD'[i] <= clock
    BY <1>g, <1>h, <1>t, <2>1
  <2>4. Renamed(ip, Host[m], nm, ips, at)
    BY <1>1, <1>10, <1>j
  <2> QED BY <2>2, <2>3, <2>4, EvictedIs
<1>11. \/ UNCHANGED <<byIp, byName, seenD>>
       \/ label # None /\ byIp' = ips /\ byName' = nm /\ seenD' = at
       \/ label # None /\ \E old \in Ip : /\ ips[old] # None /\ byIp' = [ips EXCEPT ![old] = None]
                            /\ byName' = Leases!Without(nm, ips[old]) /\ seenD' = [at EXCEPT ![old] = 0]
  <2> DEFINE Taken == IF label \in DOMAIN byName THEN byName[label] ELSE None
             Overdue == IF Taken \notin {None, ip} /\ Leases!Expired(Taken) THEN {Taken} ELSE {}
             F == Leases!Forgotten(Overdue)
             Nm == Leases!With(IF F.ip[ip] = None THEN F.name ELSE Leases!Without(F.name, F.ip[ip]), label, ip)
             Ips == [F.ip EXCEPT ![ip] = label]
             At == [i \in Ip |-> IF i = ip THEN clock ELSE IF i \in Overdue THEN 0 ELSE seenD[i]]
  <2>0. Leases!Register(ip, label)
    BY ONLY <1>1, Leases!Register(ip, Host[m])
  <2>1. \/ UNCHANGED <<byIp, byName, seenD>>
        \/ label # None /\ byIp' = Ips /\ byName' = Nm /\ seenD' = At
        \/ label # None /\ \E old \in Ip : /\ Ips[old] # None /\ byIp' = [Ips EXCEPT ![old] = None]
                             /\ byName' = Leases!Without(Nm, Ips[old]) /\ seenD' = [At EXCEPT ![old] = 0]
    BY ONLY <2>0 DEF Leases!Register, Leases!names
  <2>2. Taken = taken /\ Overdue = stale
    BY ONLY <1>2, <1>3
  <2>3. F = f /\ At = at
    BY ONLY <1>4, <1>7, <2>2
  <2>4. Ips = ips /\ Nm = nm
    BY ONLY <1>5, <1>6, <2>3
  <2> HIDE DEF Taken, Overdue, F, Nm, Ips, At
  <2> QED BY ONLY <2>1, <2>2, <2>3, <2>4
<1> QED BY <1>8, <1>9, <1>10, <1>11

(* What a step owes to the clients, when it leaves them as they were.      *)
LEMMA ClientsKept ==
  ASSUME LeasesInv, clock' = clock, Keeps, TableSound(leases)', NEW m \in Mac, out' = [out EXCEPT ![m] = None],
         DOMAIN held' = Mac, \A k \in Mac : k # m => held'[k] = held[k],
         \/ held'[m] = None
         \/ held'[m] = held[m]
         \/ /\ Live(leases, m)' /\ held'[m].ip = leases'[m].ip
            /\ held'[m].until \in Nat /\ held'[m].until <= leases'[m].expire
  PROVE  ClientsSound'
<1> USE DEF Leases!Holds
<1>1. ASSUME NEW k \in Mac, held'[k] = held[k], held[k] # None
      PROVE  /\ Live(leases, k)' /\ held'[k].ip = leases'[k].ip
             /\ held'[k].until \in Nat /\ held'[k].until <= leases'[k].expire
  <2>1. Live(leases, k) /\ held[k].ip = leases[k].ip /\ held[k].until \in Nat /\ held[k].until <= leases[k].expire
    BY <1>1 DEF LeasesInv, ClientsSound
  <2>2. k \in DOMAIN leases /\ leases[k].expire \in Nat
    BY <2>1 DEF Live, LeasesInv, TableSound, TableTyped, LeaseRec
  <2>3. Live(leases, k)' /\ leases'[k].ip = leases[k].ip /\ leases'[k].expire >= leases[k].expire
    BY <2>1, <2>2 DEF Keeps
  <2>5. leases'[k].expire \in Nat
    BY <2>3 DEF Live, TableSound, TableTyped, LeaseRec
  <2>4. leases'[k].expire >= held[k].until
    BY <2>1, <2>2, <2>3, <2>5
  <2> QED BY <1>1, <2>1, <2>3, <2>4
<1>2. \A k \in Mac : held'[k] # None =>
        /\ Live(leases, k)' /\ held'[k].ip = leases'[k].ip
        /\ held'[k].until \in Nat /\ held'[k].until <= leases'[k].expire
  BY <1>1
<1>3. \A k \in Mac : out'[k] # None => k # m /\ out'[k] = out[k] /\ held'[k] = held[k]
  BY DEF LeasesInv, ClientsSound
<1>4. DOMAIN out' = Mac
  BY DEF LeasesInv, ClientsSound
<1> QED BY <1>2, <1>3, <1>4 DEF LeasesInv, ClientsSound

LEMMA DiscoverKeeps ==
  ASSUME LeasesInv, NEW m \in Mac, NEW heard \in BOOLEAN, out[m] # None, Leases!OnDiscover(m, heard),
         out' = [out EXCEPT ![m] = None], clock' = clock
  PROVE  LeasesInv'
<1>1. PICK lease : lease = Leases!Allocate(Leases!Reap, m, None, TRUE)
  OBVIOUS
<1>2. /\ leases' = Leases!Granted(Leases!Reap, m, lease) /\ UNCHANGED <<byIp, byName, seenD>>
      /\ IF lease = None THEN UNCHANGED <<held, offered>> ELSE Leases!Answer(m, "offer", lease.ip, heard)
  BY <1>1 DEF Leases!OnDiscover, Leases!names
<1>3. TableSound(leases)' /\ Keeps
  BY <1>1, <1>2, TableStep
<1>4. NamesTyped' /\ NamesBacked'
  BY <1>2, <1>3, NamesKept
<1>5. DOMAIN held' = Mac /\ \A k \in Mac : held'[k] = held[k]
  BY <1>2 DEF Leases!Answer, LeasesInv, ClientsSound
<1>6. ClientsSound'
  BY <1>3, <1>5, ClientsKept
<1> QED BY <1>3, <1>4, <1>6 DEF LeasesInv

LEMMA RequestKeeps ==
  ASSUME LeasesInv, NEW m \in Mac, NEW heard \in BOOLEAN, out[m] # None, Leases!OnRequest(m, heard),
         out' = [out EXCEPT ![m] = None], clock' = clock
  PROVE  LeasesInv'
<1>1. PICK lease : lease = Leases!Allocate(Leases!Reap, m, out[m].ip, FALSE)
  OBVIOUS
<1>a. DOMAIN held = Mac
  BY DEF LeasesInv, ClientsSound
<1>2. CASE UNCHANGED <<leases, byIp, byName, seenD, held, offered>>
  <2>1. TableSound(leases)' /\ Keeps
    BY <1>2 DEF LeasesInv, TableSound, TableTyped, Live, Keeps, LeaseRec
  <2>2. NamesTyped' /\ NamesBacked'
    BY <1>2, <2>1, NamesKept
  <2>3. ClientsSound'
    BY <1>2, <1>a, <2>1, ClientsKept
  <2> QED BY <2>1, <2>2, <2>3 DEF LeasesInv
<1>3. CASE leases' = Leases!Granted(Leases!Reap, m, lease)
  <2>1. /\ TableSound(leases)' /\ Keeps
        /\ lease # None => m \in DOMAIN leases' /\ leases'[m] = lease
    BY <1>1, <1>3, TableStep
  <2>2. CASE Leases!Answer(m, "nak", None, heard) /\ UNCHANGED <<byIp, byName, seenD>>
    <3>1. DOMAIN held' = Mac /\ (\A k \in Mac : k # m => held'[k] = held[k]) /\ held'[m] \in {None, held[m]}
      BY <1>a, <2>2 DEF Leases!Answer
    <3> QED BY <2>1, <2>2, <3>1, NamesKept, ClientsKept DEF LeasesInv
  <2>3. CASE lease # None /\ Leases!Answer(m, "ack", lease.ip, heard) /\ Leases!Register(lease.ip, Host[m])
    <3>1. /\ lease.ip \in Ip /\ lease = leases'[m] /\ m \in DOMAIN leases'
          /\ ~lease.offered /\ lease.expire = clock + LeaseTime
      <4>1. TableSound(Leases!Reap) /\ clock \in Nat
        BY ReapIs DEF LeasesInv
      <4>3. PICK t : t = Leases!Reap
        OBVIOUS
      <4>4. lease = Leases!Allocate(t, m, out[m].ip, FALSE) /\ TableSound(t)
        BY <1>1, <4>1, <4>3
      <4>5. PICK offer \in BOOLEAN : offer = FALSE
        OBVIOUS
      <4>7. PICK r : r = out[m].ip
        OBVIOUS
      <4>6. lease = Leases!Allocate(t, m, r, offer)
        BY <4>4, <4>5, <4>7
      <4>2. lease.offered = FALSE /\ lease.expire = clock + LeaseTime /\ lease \in LeaseRec
        <5>1. lease # None
          BY <2>3
        <5>2. \/ offer /\ Live(t, m) /\ lease = t[m]
              \/ /\ lease \in LeaseRec /\ lease.offered = offer
                 /\ ~offer => lease.expire = clock + LeaseTime
          <6>1. clock \in Nat /\ TableSound(t)
            BY <4>1, <4>4
          <6> QED BY ONLY <6>1, <4>6, <5>1, AllocateIs
        <5>3. lease \in LeaseRec /\ lease.offered = offer /\ (~offer => lease.expire = clock + LeaseTime)
          BY <4>5, <5>2
        <5> QED BY <4>5, <5>3
      <4> QED BY <2>1, <2>3, <4>2 DEF LeaseRec
    <3>2. NamesTyped' /\ NamesBacked'
      BY <2>1, <2>3, <3>1, RegisterKeeps
    <3>3. out[m].sent \in Nat /\ out[m].sent <= clock /\ clock \in Nat
      BY DEF LeasesInv, ClientsSound
    <3>4. DOMAIN held' = Mac /\ (\A k \in Mac : k # m => held'[k] = held[k])
      BY <1>a, <2>3 DEF Leases!Answer
    <3>5. \/ held'[m] = held[m]
          \/ held'[m].ip = lease.ip /\ held'[m].until = out[m].sent + LeaseTime
      BY <1>a, <2>3 DEF Leases!Answer
    <3>6. Live(leases, m)'
      BY <3>1, <3>3, DhcpConstants DEF Live
    <3>7. out[m].sent + LeaseTime \in Nat /\ out[m].sent + LeaseTime <= clock + LeaseTime
      BY <3>3, DhcpConstants
    <3>8. \/ held'[m] = held[m]
          \/ /\ Live(leases, m)' /\ held'[m].ip = leases'[m].ip
             /\ held'[m].until \in Nat /\ held'[m].until <= leases'[m].expire
      BY <3>1, <3>5, <3>6, <3>7
    <3>9. ClientsSound'
      BY <2>1, <3>4, <3>8, ClientsKept
    <3> QED BY <2>1, <3>2, <3>9 DEF LeasesInv
  <2> QED BY <1>1, <1>3, <2>2, <2>3, <1>2 DEF Leases!OnRequest, Leases!names
<1> QED BY <1>1, <1>2, <1>3 DEF Leases!OnRequest, Leases!names

LEMMA ReleaseKeeps ==
  ASSUME LeasesInv, NEW m \in Mac, out[m] # None, Leases!OnRelease(m),
         out' = [out EXCEPT ![m] = None], clock' = clock
  PROVE  LeasesInv'
<1>1. out[m].kind = "release" /\ held' = held /\ held[m] = None /\ DOMAIN held = Mac
  BY DEF Leases!OnRelease, LeasesInv, ClientsSound, Leases!Holds
<1>2. CASE UNCHANGED <<leases, byIp, byName, seenD>>
  <2>1. TableSound(leases)' /\ Keeps
    BY <1>2 DEF LeasesInv, TableSound, TableTyped, Live, Keeps, LeaseRec
  <2>2. NamesTyped' /\ NamesBacked'
    BY <1>2, <2>1, NamesKept
  <2>3. ClientsSound'
    BY <1>1, <2>1, ClientsKept
  <2> QED BY <2>1, <2>2, <2>3 DEF LeasesInv
<1>3. CASE /\ m \in DOMAIN leases /\ leases[m].ip = out[m].ip
           /\ leases' = Leases!Without(leases, m) /\ Leases!LeaseEnds(out[m].ip)
  <2>1. PICK ip \in Ip : ip = leases[m].ip
    BY <1>3 DEF LeasesInv, TableSound, TableTyped, LeaseRec
  <2>2. DOMAIN leases' = DOMAIN leases \ {m} /\ \A k \in DOMAIN leases' : leases'[k] = leases[k]
    BY <1>3 DEF Leases!Without
  <2>3. TableSound(leases)' /\ \A k \in DOMAIN leases' : Live(leases, k)' <=> Live(leases, k)
    BY <2>2 DEF LeasesInv, TableSound, TableTyped, Live
  <2>4. /\ byIp' = [i \in Ip |-> IF i \in {ip} THEN None ELSE byIp[i]] /\ seenD' = [seenD EXCEPT ![ip] = 0]
        /\ \A n \in DOMAIN byName' : n \in DOMAIN byName /\ byName'[n] = byName[n]
                                     /\ (byName[n] # ip \/ byIp[byName[n]] # n)
    BY <1>3, <2>1 DEF Leases!LeaseEnds, Leases!Forgotten
  <2>5. \A n \in DOMAIN byName' : n \in DOMAIN byName /\ byName'[n] = byName[n] /\ byName[n] \in Ip /\ byName[n] # ip
    BY <2>4 DEF LeasesInv, NamesTyped
  <2>6. DOMAIN seenD' = Ip /\ seenD'[ip] = 0 /\ \A i \in Ip : i # ip => seenD'[i] = seenD[i] /\ byIp'[i] = byIp[i]
    BY <2>4 DEF LeasesInv, NamesTyped
  <2>7. NamesTyped'
    BY <2>4, <2>5, <2>6 DEF LeasesInv, NamesTyped
  <2>8. ASSUME NEW n \in DOMAIN byName', clock < seenD'[byName'[n]] + LeaseTime
        PROVE  \E k \in Mac : Backs(leases, k, n, byName[n])'
    <3>1. PICK j \in Ip : j = byName[n] /\ j = byName'[n] /\ j # ip /\ n \in DOMAIN byName /\ seenD'[j] = seenD[j]
      BY <2>5, <2>6
    <3>2. PICK k \in Mac : Backs(leases, k, n, j)
      BY <2>8, <3>1 DEF LeasesInv, NamesBacked
    <3>3. k \in DOMAIN leases'
      BY <2>1, <2>2, <3>1, <3>2 DEF Backs
    <3>4. Backs(leases, k, n, j)'
      BY <2>2, <3>1, <3>2, <3>3 DEF Backs
    <3> QED BY <3>1, <3>4 DEF Backs
  <2>9. ClientsSound'
    <3>1. ASSUME NEW k \in Mac, held[k] # None
          PROVE  /\ Live(leases, k)' /\ held'[k].ip = leases'[k].ip
                 /\ held'[k].until \in Nat /\ held'[k].until <= leases'[k].expire
      <4>1. /\ Live(leases, k) /\ held[k].ip = leases[k].ip
            /\ held[k].until \in Nat /\ held[k].until <= leases[k].expire
        BY <3>1 DEF LeasesInv, ClientsSound, Leases!Holds
      <4>2. k # m /\ k \in DOMAIN leases'
        BY <1>1, <2>2, <3>1, <4>1 DEF Live
      <4> QED BY <1>1, <2>2, <2>3, <4>1, <4>2
    <3>2. \A k \in Mac : out'[k] # None => out'[k] = out[k]
      BY DEF LeasesInv, ClientsSound
    <3>3. DOMAIN out' = Mac
      BY DEF LeasesInv, ClientsSound
    <3> QED BY <1>1, <3>1, <3>2, <3>3 DEF LeasesInv, ClientsSound, Leases!Holds
  <2> QED BY <2>3, <2>7, <2>8, <2>9 DEF LeasesInv, NamesBacked
<1> QED BY <1>2, <1>3 DEF Leases!OnRelease, Leases!names

(* Time passes, and a client that holds on had the lease for longer.       *)
LEMMA TimeKeeps ==
  ASSUME LeasesInv, Leases!Tick
  PROVE  LeasesInv'
<1>1. /\ clock \in Nat /\ clock' = clock + 1 /\ clock' \in Nat /\ UNCHANGED <<leases, byIp, byName, seenD, out>>
      /\ held' = [m \in Mac |-> IF held[m] # None /\ held[m].until <= clock' THEN None ELSE held[m]]
  BY DEF Leases!Tick, LeasesInv, Leases!names
<1>2. \A m \in DOMAIN leases : leases[m].expire \in Nat
  BY DEF LeasesInv, TableSound, TableTyped, LeaseRec
<1>3. \A m \in DOMAIN leases : Live(leases, m)' => Live(leases, m)
  BY <1>1, <1>2 DEF Live
<1>4. TableTyped(leases)'
  BY <1>1, <1>2, DhcpConstants DEF LeasesInv, TableSound, TableTyped, LeaseRec
<1>5. TableSound(leases)'
  BY <1>1, <1>3, <1>4 DEF LeasesInv, TableSound
<1>6. NamesTyped'
  BY <1>1 DEF LeasesInv, NamesTyped
<1>7. NamesBacked'
  <2> SUFFICES ASSUME NEW n \in DOMAIN byName, clock' < seenD[byName[n]] + LeaseTime
               PROVE  \E m \in Mac : Backs(leases, m, n, byName[n])
    BY <1>1 DEF NamesBacked, Backs
  <2>1. seenD[byName[n]] \in Nat
    BY DEF LeasesInv, NamesTyped
  <2>2. clock < seenD[byName[n]] + LeaseTime
    BY <1>1, <2>1, DhcpConstants
  <2> QED BY <2>2 DEF LeasesInv, NamesBacked
<1>8. ASSUME NEW m \in Mac, held'[m] # None
      PROVE  /\ Live(leases, m)' /\ held'[m] = held[m] /\ held[m] # None
  <2>1. held'[m] = held[m] /\ held[m] # None /\ ~(held[m].until <= clock')
    BY <1>1, <1>8
  <2>2. m \in DOMAIN leases /\ held[m].until \in Nat /\ held[m].until <= leases[m].expire
    BY <2>1 DEF LeasesInv, ClientsSound, Leases!Holds, Live
  <2> QED BY <1>1, <1>2, <2>1, <2>2 DEF Live
<1>9. ClientsSound'
  <2>1. \A m \in Mac : out'[m] # None => out'[m].sent \in Nat /\ out'[m].sent <= clock'
    BY <1>1 DEF LeasesInv, ClientsSound
  <2>2. \A m \in Mac : held[m] = None => held'[m] = None
    BY <1>1
  <2> QED BY <1>1, <1>8, <2>1, <2>2 DEF LeasesInv, ClientsSound, Leases!Holds
<1> QED BY <1>1, <1>5, <1>6, <1>7, <1>9 DEF LeasesInv

(* A client sends, or the network loses what it sent.                      *)
LEMMA ClientKeeps ==
  ASSUME LeasesInv, NEW m \in Mac, UNCHANGED <<clock, leases, byIp, byName, seenD>>,
         NEW msg, out' = [out EXCEPT ![m] = msg], DOMAIN held' = Mac,
         \A k \in Mac : held'[k] = held[k] \/ held'[k] = None,
         msg # None => /\ msg.sent = clock
                       /\ msg.kind = "release" => held'[m] = None
  PROVE  LeasesInv'
<1>1. TableSound(leases)' /\ NamesTyped' /\ NamesBacked'
  BY DEF LeasesInv, TableSound, TableTyped, Live, NamesTyped, NamesBacked, Backs
<1>2. DOMAIN out' = Mac /\ out'[m] = msg /\ \A k \in Mac : k # m => out'[k] = out[k]
  BY DEF LeasesInv, ClientsSound
<1>3. clock \in Nat /\ \A k \in DOMAIN leases : Live(leases, k)' <=> Live(leases, k)
  BY DEF LeasesInv, Live
<1>4. ASSUME NEW k \in Mac, held'[k] # None
      PROVE  /\ Live(leases, k)' /\ held'[k].ip = leases'[k].ip
             /\ held'[k].until \in Nat /\ held'[k].until <= leases'[k].expire
  BY <1>4 DEF LeasesInv, ClientsSound, Leases!Holds, Live
<1>5. ASSUME NEW k \in Mac, out'[k] # None
      PROVE  /\ out'[k].sent \in Nat /\ out'[k].sent <= clock'
             /\ out'[k].kind = "release" => held'[k] = None
  <2>1. CASE k = m
    BY <1>2, <1>3, <1>5, <2>1
  <2>2. CASE k # m
    BY <1>2, <1>5, <2>2 DEF LeasesInv, ClientsSound, Leases!Holds
  <2> QED BY <2>1, <2>2
<1>6. ClientsSound'
  BY <1>2, <1>4, <1>5 DEF ClientsSound, Leases!Holds
<1> QED BY <1>1, <1>3, <1>6 DEF LeasesInv

LEMMA LeasesInit == Leases!Init => LeasesInv
<1> SUFFICES ASSUME Leases!Init PROVE LeasesInv
  OBVIOUS
<1>1. /\ clock = 1 /\ leases = [m \in {} |-> None] /\ byName = [n \in {} |-> None]
      /\ byIp = [i \in Ip |-> None] /\ seenD = [i \in Ip |-> 0]
      /\ held = [m \in Mac |-> None] /\ out = [m \in Mac |-> None]
  BY DEF Leases!Init
<1>2. DOMAIN leases = {} /\ DOMAIN byName = {}
  BY <1>1
<1>3. TableSound(leases) /\ NamesBacked
  BY <1>2 DEF TableSound, TableTyped, NamesBacked
<1>4. ClientsSound
  BY <1>1 DEF ClientsSound, Leases!Holds
<1>5. NamesTyped
  BY <1>1, <1>2 DEF NamesTyped
<1> QED BY <1>1, <1>3, <1>4, <1>5 DEF LeasesInv

LEMMA ServeKeeps ==
  ASSUME LeasesInv, NEW m \in Mac, Leases!Serve(m)
  PROVE  LeasesInv'
<1>1. out[m] # None /\ out' = [out EXCEPT ![m] = None] /\ clock' = clock
  BY DEF Leases!Serve
<1>2. \/ \E heard \in BOOLEAN : Leases!OnDiscover(m, heard) \/ Leases!OnRequest(m, heard)
      \/ Leases!OnRelease(m)
  BY DEF Leases!Serve
<1>3. ASSUME NEW heard \in BOOLEAN, Leases!OnDiscover(m, heard) PROVE LeasesInv'
  BY <1>1, <1>3, DiscoverKeeps
<1>4. ASSUME NEW heard \in BOOLEAN, Leases!OnRequest(m, heard) PROVE LeasesInv'
  BY <1>1, <1>4, RequestKeeps
<1>5. CASE Leases!OnRelease(m)
  BY <1>1, <1>5, ReleaseKeeps
<1> QED BY <1>2, <1>3, <1>4, <1>5

(* A client with nothing on its way sends something.                       *)
LEMMA SendKeeps ==
  ASSUME LeasesInv, NEW m \in Mac, NEW kind, NEW ip, NEW server, Leases!Send(m, Leases!Msg(kind, ip, server)),
         DOMAIN held' = Mac, \A k \in Mac : held'[k] = held[k] \/ held'[k] = None,
         kind = "release" => held'[m] = None
  PROVE  LeasesInv'
<1>1. PICK msg : msg = [kind |-> kind, ip |-> ip, server |-> server, sent |-> clock]
  OBVIOUS
<1>2. out' = [out EXCEPT ![m] = msg] /\ UNCHANGED <<clock, leases, byIp, byName, seenD>>
  BY <1>1 DEF Leases!Send, Leases!Msg, Leases!names
<1>3. msg.sent = clock /\ (msg.kind = "release" => held'[m] = None)
  BY <1>1
<1> QED BY <1>2, <1>3, ClientKeeps

LEMMA ClientsKeep ==
  ASSUME LeasesInv, NEW m \in Mac,
         \/ Leases!Discover(m) \/ Leases!Select(m) \/ Leases!Reboot(m) \/ Leases!Renew(m) \/ Leases!GiveBack(m)
         \/ Leases!Lose(m)
  PROVE  LeasesInv'
<1>0. DOMAIN held = Mac
  BY DEF LeasesInv, ClientsSound
<1>1. CASE Leases!Discover(m)
  <2>1. held' = held /\ Leases!Send(m, Leases!Msg("discover", None, None)) /\ "discover" # "release"
    BY <1>1 DEF Leases!Discover
  <2> QED BY <1>0, <2>1, SendKeeps
<1>2. CASE Leases!Select(m)
  <2>1. PICK s : Leases!Send(m, Leases!Msg("request", offered[m], s))
    BY <1>2 DEF Leases!Select
  <2>2. PICK ip : ip = offered[m]
    OBVIOUS
  <2>3. held' = held /\ Leases!Send(m, Leases!Msg("request", ip, s)) /\ "request" # "release"
    BY <1>2, <2>1, <2>2 DEF Leases!Select
  <2> QED BY <1>0, <2>3, SendKeeps
<1>3. CASE Leases!Reboot(m)
  <2>1. PICK ip \in Ip : Leases!Send(m, Leases!Msg("request", ip, None))
    BY <1>3 DEF Leases!Reboot
  <2>2. held' = held /\ "request" # "release"
    BY <1>3 DEF Leases!Reboot
  <2> QED BY <1>0, <2>1, <2>2, SendKeeps
<1>4. CASE Leases!Renew(m)
  <2>1. held' = held /\ Leases!Send(m, Leases!Msg("request", None, None)) /\ "request" # "release"
    BY <1>4 DEF Leases!Renew
  <2> QED BY <1>0, <2>1, SendKeeps
<1>5. CASE Leases!GiveBack(m)
  <2>1. PICK ip : ip = held[m].ip
    OBVIOUS
  <2>2. held' = [held EXCEPT ![m] = None] /\ Leases!Send(m, Leases!Msg("release", ip, None))
    BY <1>5, <2>1 DEF Leases!GiveBack
  <2>3. DOMAIN held' = Mac /\ held'[m] = None /\ \A k \in Mac : held'[k] = held[k] \/ held'[k] = None
    BY <1>0, <2>2
  <2> QED BY <2>2, <2>3, SendKeeps
<1>6. CASE Leases!Lose(m)
  <2>1. PICK msg : msg = None
    OBVIOUS
  <2>2. held' = held /\ out' = [out EXCEPT ![m] = msg] /\ UNCHANGED <<clock, leases, byIp, byName, seenD>>
    BY <1>6, <2>1 DEF Leases!Lose, Leases!names
  <2> QED BY <1>0, <2>1, <2>2, ClientKeeps
<1> QED BY <1>1, <1>2, <1>3, <1>4, <1>5, <1>6

LEMMA LeasesStep == LeasesInv /\ [Leases!Next]_(Leases!vars) => LeasesInv'
<1> SUFFICES ASSUME LeasesInv, [Leases!Next]_(Leases!vars) PROVE LeasesInv'
  OBVIOUS
<1>1. CASE UNCHANGED Leases!vars
  BY <1>1 DEF Leases!vars, Leases!names, Leases!clients, LeasesInv, TableSound, TableTyped, Live,
              ClientsSound, NamesTyped, NamesBacked, Backs, Leases!Holds
<1> QED BY <1>1, ServeKeeps, ClientsKeep, TimeKeeps DEF Leases!Next

(* Whatever is lost, late or asked of a restarted client: no two clients   *)
(* use one address, and a name that resolves is that of the client the     *)
(* address is leased to (Scope.allocate, HostNames).                       *)
THEOREM AddressesExclusive == Leases!Spec => []LeasesExclusive
<1>1. LeasesInv => LeasesExclusive
  <2> SUFFICES ASSUME LeasesInv PROVE Leases!OneHolder /\ Leases!NamesFollowLeases
    BY DEF LeasesExclusive
  <2>1. Leases!OneHolder
    BY DEF LeasesInv, ClientsSound, TableSound, Live, Leases!OneHolder
  <2>2. ASSUME NEW n \in DOMAIN byName, clock < seenD[byName[n]] + LeaseTime
        PROVE  \E m \in DOMAIN leases : /\ leases[m].ip = byName[n] /\ leases[m].expire > clock
                                        /\ ~leases[m].offered /\ Host[m] = n
    <3>1. PICK m \in Mac : Backs(leases, m, n, byName[n])
      BY <2>2 DEF LeasesInv, NamesBacked
    <3>2. leases[m].expire \in Nat /\ seenD[byName[n]] \in Nat /\ clock \in Nat /\ LeaseTime \in Nat
      BY <2>2, <3>1, DhcpConstants DEF Backs, LeasesInv, TableSound, TableTyped, LeaseRec, NamesTyped
    <3>3. leases[m].expire > clock
      BY <2>2, <3>1, <3>2 DEF Backs
    <3> QED BY <3>1, <3>3 DEF Backs
  <2> QED BY <2>1, <2>2 DEF Leases!NamesFollowLeases
<1> QED BY <1>1, LeasesInit, LeasesStep, PTL DEF Leases!Spec

=============================================================================
