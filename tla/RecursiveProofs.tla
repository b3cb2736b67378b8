-------------------------- MODULE RecursiveProofs --------------------------
(***************************************************************************)
(* Bailiwick, for any namespace, any answers of the faulty servers and any *)
(* limits: nothing they say is kept or handed out about a name outside     *)
(* their own zone.  And the chain of trust, for any namespace, any changes *)
(* of the zones and any lifetimes: AD is set on what the root vouches for. *)
(***************************************************************************)
EXTENDS MCResolution, SequenceTheorems, WellFoundedInduction, TLAPS

(* A nameserver that speaks for a zone outside.                            *)
Trusted(n) == Outside(n) /\ Host[n] \notin FaultyAddr
Truthful(r) == Outside(r.owner) => r.type = "DS" \/ r \in Owned(r.owner)

(* What a message may say once it is cut down to the zone that was asked.  *)
NamesOf(m, z) == {r.name : r \in {x \in m.ns : x.owner = z}}
AnswersSound(m, z) ==
  \A r \in m.ans : r.owner \in Name /\ Within(r.owner, z) /\ (r.type = "CNAME" => r.data \in Name) /\ Truthful(r)
DelegationsSound(m, z, qname) ==
  \A r \in m.ns :
    /\ r.owner \in Name /\ r.name \in Name /\ Within(r.owner, z)
    /\ Outside(r.owner) => /\ r.owner \in Cuts /\ Within(qname, r.owner)
                           /\ NamesOf(m, r.owner) = NsOf[r.owner]
GlueSound(m, z) == Outside(z) => \A g \in m.glue : g.addr = Host[g.owner]
MessageSound(m, z, qname) == AnswersSound(m, z) /\ DelegationsSound(m, z, qname) /\ GlueSound(m, z)

(* A call is at a zone that encloses its name, and asks no address of the  *)
(* faulty zone about any other.                                            *)
Reliable(z, S) == Outside(z) => S \cap FaultyAddr = {}
FrameSound(f) ==
  /\ f.name \in Name /\ f.zone \in Name /\ Within(f.name, f.zone)
  /\ Len(f.probe) \in Nat
  /\ Reliable(f.zone, f.servers)
  /\ f.order # None => \E S : f.order \in Seq(S) /\ Reliable(f.zone, S)
  /\ f.msg # None => MessageSound(f.msg, f.zone, Question(f).name)
  /\ f.ns \subseteq Name /\ (Outside(f.zone) => \A n \in f.ns : Trusted(n))
  /\ f.type = "DS" /\ f.name # <<>> /\ Outside(f.name) => f.zone # f.name

CutSound(z, c) ==
  Outside(z) => /\ z \in Cuts /\ c.names = NsOf[z]
                /\ \A g \in c.addrs : g.owner \in NsOf[z] /\ g.addr = Host[g.owner]
CutsSound == DOMAIN cuts = Name /\ \A z \in Name : cuts[z] # None => CutSound(z, cuts[z])
AddrsSound == DOMAIN addrs = Name /\ \A n \in Name : Outside(n) => addrs[n] \subseteq {Host[n]}

(* A side resolution is for a nameserver its caller may believe.           *)
StackSound ==
  /\ \E S : stack \in Seq(S)
  /\ \A i \in 1 .. Len(stack) : FrameSound(stack[i])
  /\ \A i \in 1 .. Len(stack) - 1 : Outside(stack[i].zone) => Trusted(stack[i + 1].name)
ChainSound == stack # <<>> => \A r \in chain.ans : Truthful(r)
OutSound == \A r \in Believed : Truthful(r)

RecursiveInv == CutsSound /\ AddrsSound /\ StackSound /\ ChainSound /\ OutSound

-----------------------------------------------------------------------------
(* A nonempty set of numbers has a least one.                              *)
LEMMA Least == \A S \in SUBSET Nat : S # {} => \E x \in S : \A y \in S : x <= y
<1> SUFFICES ASSUME NEW S \in SUBSET Nat, S # {} PROVE \E x \in S : \A y \in S : x <= y
  OBVIOUS
<1> DEFINE R == OpToRel(<, Nat)
<1>1. R = {ss \in Nat \X Nat : ss[1] < ss[2]}
  BY DEF OpToRel
<1>2. IsWellFoundedOn(R, Nat)
  BY NatLessThanWellFounded
<1> HIDE DEF R
<1>3. PICK x \in S : \A y \in S : ~(<<y, x>> \in R)
  BY <1>2, WFMin
<1>4. ASSUME NEW y \in S PROVE x <= y
  <2>1. ~(<<y, x>> \in {ss \in Nat \X Nat : ss[1] < ss[2]})
    BY <1>1, <1>3
  <2>2. x \in Nat /\ y \in Nat
    OBVIOUS
  <2> QED BY <2>1, <2>2
<1> QED BY <1>4

(* Of names, the shortest; and of the ancestors of one name, the longest.  *)
LEMMA Shortest ==
  \A S : S # {} /\ (\A n \in S : Len(n) \in Nat) => \E c \in S : \A d \in S : Len(c) <= Len(d)
<1> SUFFICES ASSUME NEW S, S # {}, \A n \in S : Len(n) \in Nat
             PROVE  \E c \in S : \A d \in S : Len(c) <= Len(d)
  OBVIOUS
<1> DEFINE L == {Len(n) : n \in S}
<1>1. L \in SUBSET Nat /\ L # {}
  OBVIOUS
<1>2. PICK x \in L : \A y \in L : x <= y
  BY <1>1, Least
<1> QED BY <1>2

LEMMA Longest ==
  \A S, b : /\ S # {} /\ b \in Nat /\ \A n \in S : Len(n) \in Nat /\ Len(n) <= b
            => \E c \in S : \A d \in S : Len(d) <= Len(c)
<1> SUFFICES ASSUME NEW S, NEW b \in Nat, S # {}, \A n \in S : Len(n) \in Nat /\ Len(n) <= b
             PROVE  \E c \in S : \A d \in S : Len(d) <= Len(c)
  OBVIOUS
<1> DEFINE L == {b - Len(n) : n \in S}
<1>1. L \in SUBSET Nat /\ L # {}
  OBVIOUS
<1>2. PICK x \in L : \A y \in L : x <= y
  BY <1>1, Least
<1>3. PICK c \in S : x = b - Len(c)
  BY <1>2
<1>4. ASSUME NEW d \in S PROVE Len(d) <= Len(c)
  <2>1. x <= b - Len(d)
    BY <1>2
  <2> QED BY <2>1, <1>3
<1> QED BY <1>4

-----------------------------------------------------------------------------
(* Names.                                                                  *)
LEMMA NameTyped == \A n \in Name : n \in Seq(Labels) /\ Len(n) \in Nat
  BY RecursiveAssumption

LEMMA WithinIs ==
  \A n, z \in Seq(Labels) : Within(n, z) <=> Len(z) <= Len(n) /\ \A i \in 1 .. Len(z) : z[i] = n[i]
<1> SUFFICES ASSUME NEW n \in Seq(Labels), NEW z \in Seq(Labels)
             PROVE  Within(n, z) <=> Len(z) <= Len(n) /\ \A i \in 1 .. Len(z) : z[i] = n[i]
  OBVIOUS
<1>1. ASSUME Len(z) <= Len(n)
      PROVE  SubSeq(z, 1, Len(z)) = SubSeq(n, 1, Len(z)) <=> \A i \in 1 .. Len(z) : z[i] = n[i]
  <2>1. SubSeq(z, 1, Len(z)) = [i \in 1 .. Len(z) |-> z[i]]
    OBVIOUS
  <2>2. SubSeq(n, 1, Len(z)) = [i \in 1 .. Len(z) |-> n[i]]
    BY <1>1
  <2> QED BY <2>1, <2>2
<1> QED BY <1>1 DEF Within, IsPrefix

LEMMA WithinItself == \A n \in Name : Within(n, n) /\ Within(n, <<>>)
<1> SUFFICES ASSUME NEW n \in Name PROVE Within(n, n) /\ Within(n, <<>>)
  OBVIOUS
<1>1. n \in Seq(Labels) /\ Len(n) \in Nat
  BY NameTyped
<1>2. <<>> \in Seq(Labels) /\ Len(<<>>) = 0
  OBVIOUS
<1>3. Within(n, n)
  BY <1>1, WithinIs
<1>4. Within(n, <<>>)
  <2>1. PICK e \in Seq(Labels) : e = <<>> /\ Len(e) = 0
    BY <1>2
  <2>2. Len(e) <= Len(n) /\ \A i \in 1 .. Len(e) : e[i] = n[i]
    BY <2>1, <1>1
  <2>3. Within(n, e)
    BY <2>2, <1>1, WithinIs
  <2> QED BY <2>1, <2>3
<1> QED BY <1>3, <1>4

LEMMA WithinTransitive ==
  \A n, a, b \in Name : Within(n, a) /\ Within(a, b) => Within(n, b)
  BY NameTyped, WithinIs

LEMMA WithinShorter == \A n, z \in Name : Within(n, z) => Len(z) <= Len(n)
  BY NameTyped, WithinIs

LEMMA RootOutside == Outside(<<>>)
<1> SUFFICES ASSUME Within(<<>>, Faulty) PROVE FALSE
  BY DEF Outside
<1>1. Faulty \in Seq(Labels) /\ <<>> \in Name /\ Faulty \in Name /\ Faulty # <<>>
  BY RecursiveAssumption
<1>2. Len(Faulty) <= 0
  BY <1>1, WithinShorter
<1> QED BY <1>1, <1>2

(* What is below the faulty zone is not outside; what encloses an outside  *)
(* name is outside.                                                        *)
LEMMA OutsideUp == \A n, z \in Name : Within(n, z) /\ Outside(n) => Outside(z)
  BY WithinTransitive, RecursiveAssumption DEF Outside

LEMMA Ancestors ==
  \A n \in Name : \A k \in 0 .. Len(n) :
    SubSeq(n, 1, k) \in Name /\ Within(n, SubSeq(n, 1, k)) /\ Len(SubSeq(n, 1, k)) = k
<1> SUFFICES ASSUME NEW n \in Name, NEW k \in 0 .. Len(n)
             PROVE  SubSeq(n, 1, k) \in Name /\ Within(n, SubSeq(n, 1, k)) /\ Len(SubSeq(n, 1, k)) = k
  OBVIOUS
<1> DEFINE s == SubSeq(n, 1, k)
<1>1. s \in Name /\ n \in Seq(Labels) /\ s \in Seq(Labels)
  BY RecursiveAssumption
<1>2. Len(s) = k /\ \A i \in 1 .. k : s[i] = n[i]
  BY <1>1
<1> HIDE DEF s
<1>3. Within(n, s)
  BY <1>1, <1>2, WithinIs
<1> QED BY <1>1, <1>2, <1>3 DEF s

-----------------------------------------------------------------------------
(* Questions and messages.                                                 *)
LEMMA QuestionSound ==
  ASSUME NEW f, f.name \in Name, Len(f.probe) \in Nat
  PROVE  /\ Question(f).name \in Name /\ Within(f.name, Question(f).name)
         /\ Question(f).type # f.type => Len(Question(f).name) < Len(f.name)
<1> DEFINE k == Len(f.probe) + 1
<1>1. CASE f.qmin /\ Len(f.name) > k
  <2>1. Question(f).name = SubSeq(f.name, 1, k)
    BY <1>1 DEF Question
  <2>2. k \in 0 .. Len(f.name)
    BY <1>1, NameTyped
  <2>3. k < Len(f.name)
    BY <1>1, NameTyped
  <2> HIDE DEF k
  <2> QED BY <2>1, <2>2, <2>3, Ancestors
<1>2. CASE ~(f.qmin /\ Len(f.name) > k)
  <2>1. Question(f).name = f.name /\ Question(f).type = f.type
    BY <1>2 DEF Question
  <2> QED BY <2>1, WithinItself
<1> QED BY <1>1, <1>2

(* What the servers of the other zones say, before it is cut down.         *)
TrueMessage(m, n) ==
  /\ \A r \in m.ans : /\ r.owner \in Name /\ (r.type = "CNAME" => r.data \in Name)
                      /\ r.type = "DS" \/ r \in Owned(r.owner)
  /\ \A r \in m.ns : /\ r.owner \in Cuts /\ r.name \in NsOf[r.owner] /\ Within(n, r.owner)
                     /\ NamesOf(m, r.owner) = NsOf[r.owner]
  /\ \A g \in m.glue : g.addr = Host[g.owner]

LEMMA OwnedSound ==
  \A n \in Name : \A r \in Owned(n) : r.owner = n /\ r.type = Data[n].type /\ r.data = Data[n].data /\ Data[n] # None
  BY DEF Owned

LEMMA TruthIsTrue ==
  ASSUME NEW z, NEW n \in Name, NEW t
  PROVE  TrueMessage(Truth(z, n, t), n)
<1> DEFINE below == {c \in Cuts : c # z /\ Within(c, z) /\ Within(n, c) /\ ~(t = "DS" /\ c = n)}
           top == CHOOSE c \in below : \A d \in below : Len(c) <= Len(d)
           m == Truth(z, n, t)
<1>1. CASE below # {}
  <2>1. top \in below
    <3>1. \A c \in below : Len(c) \in Nat
      BY NameTyped, RecursiveAssumption
    <3> HIDE DEF below
    <3>2. \E c \in below : \A d \in below : Len(c) <= Len(d)
      BY <3>1, <1>1, Shortest
    <3> QED BY <3>2
  <2>2. top \in Cuts /\ Within(n, top)
    BY <2>1
  <2>3. m.ans = {} /\ m.ns = {[owner |-> top, name |-> x] : x \in NsOf[top]}
        /\ m.glue = {[owner |-> x, addr |-> Host[x]] : x \in {y \in NsOf[top] : Within(y, z)}}
    BY <1>1 DEF Truth
  <2> HIDE DEF top, m
  <2>4. NamesOf(m, top) = NsOf[top]
    <3>1. \A r \in m.ns : r.owner = top /\ r.name \in NsOf[top]
      BY <2>3
    <3>2. ASSUME NEW x \in NsOf[top] PROVE \E r \in m.ns : r.owner = top /\ r.name = x
      <4>1. [owner |-> top, name |-> x] \in m.ns
        BY <2>3
      <4>2. [owner |-> top, name |-> x].owner = top /\ [owner |-> top, name |-> x].name = x
        OBVIOUS
      <4> QED BY <4>1, <4>2
    <3> QED BY <3>1, <3>2 DEF NamesOf
  <2>5. \A r \in m.ns : r.owner = top /\ r.name \in NsOf[top]
    BY <2>3
  <2>6. \A g \in m.glue : g.addr = Host[g.owner]
    BY <2>3
  <2>7. TrueMessage(m, n)
    BY <2>2, <2>3, <2>4, <2>5, <2>6 DEF TrueMessage
  <2> QED BY <2>7 DEF m
<1>2. CASE below = {}
  <2>0. m = IF t = "DS" THEN Says("noerror", {[owner |-> n, type |-> "DS", data |-> "ds"]})
            ELSE IF Exists(n) THEN Says("noerror", {r \in Owned(n) : r.type \in {t, "CNAME"}})
            ELSE Says("nxdomain", {})
    BY <1>2 DEF Truth
  <2>1. \/ m = Says("noerror", {[owner |-> n, type |-> "DS", data |-> "ds"]})
        \/ m = Says("noerror", {r \in Owned(n) : r.type \in {t, "CNAME"}})
        \/ m = Says("nxdomain", {})
    BY <2>0, Zenon
  <2>2. m.ns = {} /\ m.glue = {} /\ (m.ans = {[owner |-> n, type |-> "DS", data |-> "ds"]} \/ m.ans \subseteq Owned(n))
    BY <2>1 DEF Says
  <2> HIDE DEF m
  <2>3. ASSUME NEW r \in m.ans
        PROVE  r.owner \in Name /\ (r.type = "CNAME" => r.data \in Name) /\ (r.type = "DS" \/ r \in Owned(r.owner))
    <3>1. CASE m.ans = {[owner |-> n, type |-> "DS", data |-> "ds"]}
      BY <3>1
    <3>2. CASE m.ans \subseteq Owned(n)
      <4>1. r \in Owned(n) /\ r.owner = n /\ r.type = Data[n].type /\ r.data = Data[n].data /\ Data[n] # None
        BY <3>2, OwnedSound
      <4>2. r.type = "CNAME" => r.data \in Name
        BY <4>1, RecursiveAssumption
      <4> QED BY <4>1, <4>2
    <3> QED BY <2>2, <3>1, <3>2
  <2>4. TrueMessage(m, n)
    BY <2>2, <2>3 DEF TrueMessage
  <2> QED BY <2>4 DEF m
<1> QED BY <1>1, <1>2

LEMMA RepliesSound ==
  ASSUME NEW a, NEW n \in Name, NEW t, NEW m \in Replies(a, n, t)
  PROVE  \/ a \in FaultyAddr /\ m \in FaultySays
         \/ a \notin FaultyAddr /\ TrueMessage(m, n)
<1>1. CASE a \in FaultyAddr
  <2>1. Replies(a, n, t) = FaultySays
    BY <1>1, Zenon DEF Replies
  <2> QED BY <1>1, <2>1
<1>2. CASE a \notin FaultyAddr
  <2>1. TrueMessage(Fail, n)
    BY DEF TrueMessage, Fail
  <2>2. m = Fail \/ \E z : m = Truth(z, n, t)
    <3> DEFINE mine == {z \in Serves[a] : Within(n, z) /\ ~(t = "DS" /\ z = n)}
    <3>1. m \in IF mine = {} THEN {Fail} ELSE {Truth(CHOOSE z \in mine : \A y \in mine : Len(y) <= Len(z), n, t)}
      BY <1>2 DEF Replies
    <3> HIDE DEF mine
    <3> QED BY <3>1
  <2> QED BY <1>2, <2>1, <2>2, TruthIsTrue
<1> QED BY <1>1, <1>2

LEMMA ScrubIs ==
  ASSUME NEW m, NEW z, NEW n
  PROVE  /\ Scrub(m, z, n).ans \subseteq {r \in m.ans : Within(r.owner, z)}
         /\ Scrub(m, z, n).ns = {r \in m.ns : Within(r.owner, z)}
         /\ Scrub(m, z, n).glue = {r \in m.glue : Within(r.owner, z)}
  BY DEF Scrub

(* Cut down to the zone that was asked, a message says nothing untrue      *)
(* about what is outside.                                                  *)
LEMMA ScrubSound ==
  ASSUME NEW z \in Name, NEW n \in Name, NEW m,
         \/ ~Outside(z) /\ m \in FaultySays
         \/ TrueMessage(m, n)
  PROVE  MessageSound(Scrub(m, z, n), z, n)
<1> DEFINE s == Scrub(m, z, n)
<1>0. /\ s.ans \subseteq {r \in m.ans : Within(r.owner, z)}
      /\ s.ns = {r \in m.ns : Within(r.owner, z)}
      /\ s.glue = {r \in m.glue : Within(r.owner, z)}
  BY ScrubIs
<1> HIDE DEF s
<1>1. CASE ~Outside(z) /\ m \in FaultySays
  <2>1. \A r \in m.ans : r.owner \in Name /\ (r.type = "CNAME" => r.data \in Name)
    BY <1>1, RecursiveAssumption DEF Records
  <2>2. \A r \in m.ns : r.owner \in Name /\ r.name \in Name
    BY <1>1, RecursiveAssumption
  <2>3. \A x \in Name : Within(x, z) => ~Outside(x)
    BY <1>1, OutsideUp
  <2>4. AnswersSound(s, z)
    BY <1>0, <2>1, <2>3 DEF AnswersSound, Truthful
  <2>5. DelegationsSound(s, z, n)
    BY <1>0, <2>2, <2>3 DEF DelegationsSound
  <2>6. GlueSound(s, z)
    BY <1>1 DEF GlueSound
  <2> QED BY <2>4, <2>5, <2>6 DEF MessageSound, s
<1>2. CASE TrueMessage(m, n)
  <2>1. AnswersSound(s, z)
    BY <1>0, <1>2 DEF AnswersSound, Truthful, TrueMessage
  <2>2. ASSUME NEW r \in s.ns
        PROVE  /\ r.owner \in Name /\ r.name \in Name /\ Within(r.owner, z)
               /\ r.owner \in Cuts /\ Within(n, r.owner) /\ NamesOf(s, r.owner) = NsOf[r.owner]
    <3>1. r \in m.ns /\ Within(r.owner, z)
      BY <1>0
    <3>2. r.owner \in Cuts /\ r.name \in NsOf[r.owner] /\ Within(n, r.owner) /\ NamesOf(m, r.owner) = NsOf[r.owner]
      BY <3>1, <1>2 DEF TrueMessage
    <3>3. r.owner \in Name /\ r.name \in Name
      BY <3>2, RecursiveAssumption
    <3>4. {x \in s.ns : x.owner = r.owner} = {x \in m.ns : x.owner = r.owner}
      BY <1>0, <3>1
    <3>5. NamesOf(s, r.owner) = NamesOf(m, r.owner)
      BY <3>4 DEF NamesOf
    <3> QED BY <3>1, <3>2, <3>3, <3>5
  <2>3. DelegationsSound(s, z, n)
    BY <2>2 DEF DelegationsSound
  <2>4. GlueSound(s, z)
    BY <1>0, <1>2 DEF GlueSound, TrueMessage
  <2> QED BY <2>1, <2>3, <2>4 DEF MessageSound, s
<1> QED BY <1>1, <1>2

(* What a sound message delegates.                                         *)
LEMMA ReferralSound ==
  ASSUME NEW m, NEW z \in Name, NEW n \in Name, NEW t, NEW qname,
         MessageSound(m, z, qname), Referral(m, z, n, t) # None
  PROVE  LET dz == Referral(m, z, n, t) IN
         /\ dz \in Name /\ Within(n, dz) /\ Within(dz, z)
         /\ t = "DS" => dz # n
         /\ NamesOf(m, dz) \subseteq Name
         /\ Outside(dz) => /\ Outside(z) /\ dz \in Cuts /\ Within(qname, dz)
                           /\ NamesOf(m, dz) = NsOf[dz]
<1> DEFINE offered == {r.owner : r \in m.ns} \cap DownAndToward(z, n)
           pick == CHOOSE c \in offered : \A d \in offered : Len(d) <= Len(c)
           dz == Referral(m, z, n, t)
<1>1. dz = pick /\ offered # {} /\ ~(t = "DS" /\ pick = n)
  BY DEF Referral
<1>2. pick \in offered
  <2>1. \A c \in offered : Len(c) \in Nat /\ Len(c) <= Len(n)
    BY NameTyped, WithinShorter DEF DownAndToward
  <2>2. Len(n) \in Nat
    BY NameTyped
  <2> HIDE DEF offered
  <2>3. \E c \in offered : \A d \in offered : Len(d) <= Len(c)
    BY <2>1, <2>2, <1>1, Longest
  <2> QED BY <2>3
<1> HIDE DEF pick
<1>3. dz \in Name /\ Within(n, dz) /\ Within(dz, z)
  BY <1>1, <1>2 DEF DownAndToward
<1>4. PICK r \in m.ns : r.owner = dz
  BY <1>1, <1>2
<1> HIDE DEF offered, dz
<1>5. NamesOf(m, dz) \subseteq Name
  BY DEF NamesOf, MessageSound, DelegationsSound
<1>6. ASSUME Outside(dz)
      PROVE  Outside(z) /\ dz \in Cuts /\ Within(qname, dz) /\ NamesOf(m, dz) = NsOf[dz]
  <2>1. Outside(z)
    BY <1>3, <1>6, OutsideUp
  <2>2. dz \in Cuts /\ Within(qname, dz) /\ NamesOf(m, dz) = NsOf[dz]
    BY <1>4, <1>6 DEF MessageSound, DelegationsSound
  <2> QED BY <2>1, <2>2
<1>7. t = "DS" => dz # n
  BY <1>1
<1> QED BY <1>3, <1>5, <1>6, <1>7 DEF dz

-----------------------------------------------------------------------------
(* The stack of calls: the innermost call goes on, makes a call, or        *)
(* returns to the one before it.                                           *)
LEMMA Joined ==
  ASSUME NEW S, NEW s \in Seq(S), NEW n \in 0 .. Len(s), NEW e \in Seq(S)
  PROVE  /\ SubSeq(s, 1, n) \o e \in Seq(S)
         /\ Len(SubSeq(s, 1, n) \o e) = n + Len(e)
         /\ \A i \in 1 .. n : (SubSeq(s, 1, n) \o e)[i] = s[i]
         /\ \A i \in 1 .. Len(e) : (SubSeq(s, 1, n) \o e)[n + i] = e[i]
<1> DEFINE a == SubSeq(s, 1, n)
<1>0. n \in Nat /\ Len(e) \in Nat
  OBVIOUS
<1>1. a \in Seq(S) /\ Len(a) = n /\ \A i \in 1 .. n : a[i] = s[i]
  OBVIOUS
<1> HIDE DEF a
<1>2. /\ a \o e \in Seq(S) /\ Len(a \o e) = Len(a) + Len(e)
      /\ \A i \in 1 .. Len(a) + Len(e) : (a \o e)[i] = IF i <= Len(a) THEN a[i] ELSE e[i - Len(a)]
  BY <1>1, ConcatProperties
<1>3. ASSUME NEW i \in 1 .. n PROVE (a \o e)[i] = s[i]
  BY <1>0, <1>1, <1>2
<1>4. ASSUME NEW i \in 1 .. Len(e) PROVE (a \o e)[n + i] = e[i]
  <2>1. n + i \in 1 .. n + Len(e) /\ ~(n + i <= n) /\ n + i - n = i
    BY <1>0
  <2> QED BY <2>1, <1>1, <1>2
<1> QED BY <1>1, <1>2, <1>3, <1>4 DEF a

LEMMA GoesOn ==
  ASSUME NEW S, NEW s \in Seq(S), s # <<>>, NEW f \in S
  PROVE  /\ Front(s) \o <<f>> \in Seq(S)
         /\ Len(Front(s) \o <<f>>) = Len(s)
         /\ \A i \in 1 .. Len(s) : (Front(s) \o <<f>>)[i] = IF i = Len(s) THEN f ELSE s[i]
<1>1. <<f>> \in Seq(S) /\ Len(<<f>>) = 1 /\ <<f>>[1] = f
  OBVIOUS
<1>2. Len(s) \in Nat /\ Len(s) > 0 /\ Len(s) - 1 \in 0 .. Len(s) /\ Front(s) = SubSeq(s, 1, Len(s) - 1)
  BY DEF Front
<1>3. PICK e \in Seq(S) : e = <<f>> /\ Len(e) = 1 /\ e[1] = f
  BY <1>1
<1>4. /\ Front(s) \o e \in Seq(S) /\ Len(Front(s) \o e) = Len(s) - 1 + 1
      /\ \A i \in 1 .. Len(s) - 1 : (Front(s) \o e)[i] = s[i]
      /\ \A i \in 1 .. Len(e) : (Front(s) \o e)[Len(s) - 1 + i] = e[i]
  <2>1. PICK n \in 0 .. Len(s) : n = Len(s) - 1
    BY <1>2
  <2>2. /\ SubSeq(s, 1, n) \o e \in Seq(S) /\ Len(SubSeq(s, 1, n) \o e) = n + Len(e)
        /\ \A i \in 1 .. n : (SubSeq(s, 1, n) \o e)[i] = s[i]
        /\ \A i \in 1 .. Len(e) : (SubSeq(s, 1, n) \o e)[n + i] = e[i]
    BY Joined
  <2> QED BY <1>2, <1>3, <2>1, <2>2
<1>5. (Front(s) \o e)[Len(s)] = f
  BY <1>2, <1>3, <1>4
<1> QED BY <1>2, <1>3, <1>4, <1>5

LEMMA Calls ==
  ASSUME NEW S, NEW s \in Seq(S), s # <<>>, NEW f \in S, NEW g \in S
  PROVE  /\ Front(s) \o <<f, g>> \in Seq(S)
         /\ Len(Front(s) \o <<f, g>>) = Len(s) + 1
         /\ \A i \in 1 .. Len(s) + 1 :
              (Front(s) \o <<f, g>>)[i] = IF i = Len(s) + 1 THEN g ELSE IF i = Len(s) THEN f ELSE s[i]
<1>2. Len(s) \in Nat /\ Len(s) > 0 /\ Len(s) - 1 \in 0 .. Len(s) /\ Front(s) = SubSeq(s, 1, Len(s) - 1)
  BY DEF Front
<1>3. PICK e \in Seq(S) : e = <<f, g>> /\ Len(e) = 2 /\ e[1] = f /\ e[2] = g
  <2>1. <<f, g>> \in Seq(S) /\ Len(<<f, g>>) = 2 /\ <<f, g>>[1] = f /\ <<f, g>>[2] = g
    OBVIOUS
  <2> QED BY <2>1
<1>4. /\ Front(s) \o e \in Seq(S) /\ Len(Front(s) \o e) = Len(s) - 1 + 2
      /\ \A i \in 1 .. Len(s) - 1 : (Front(s) \o e)[i] = s[i]
      /\ \A i \in 1 .. Len(e) : (Front(s) \o e)[Len(s) - 1 + i] = e[i]
  <2>1. PICK n \in 0 .. Len(s) : n = Len(s) - 1
    BY <1>2
  <2>2. /\ SubSeq(s, 1, n) \o e \in Seq(S) /\ Len(SubSeq(s, 1, n) \o e) = n + Len(e)
        /\ \A i \in 1 .. n : (SubSeq(s, 1, n) \o e)[i] = s[i]
        /\ \A i \in 1 .. Len(e) : (SubSeq(s, 1, n) \o e)[n + i] = e[i]
    BY Joined
  <2> QED BY <1>2, <1>3, <2>1, <2>2
<1>5. (Front(s) \o e)[Len(s)] = f /\ (Front(s) \o e)[Len(s) + 1] = g
  <2>1. (Front(s) \o e)[Len(s) - 1 + 1] = f /\ (Front(s) \o e)[Len(s) - 1 + 2] = g
    BY <1>3, <1>4
  <2>2. Len(s) - 1 + 1 = Len(s) /\ Len(s) - 1 + 2 = Len(s) + 1
    BY <1>2
  <2> QED BY <2>1, <2>2
<1> QED BY <1>2, <1>3, <1>4, <1>5

LEMMA Returns ==
  ASSUME NEW S, NEW s \in Seq(S), Len(s) > 1, NEW f \in S
  PROVE  /\ SubSeq(s, 1, Len(s) - 2) \o <<f>> \in Seq(S)
         /\ Len(SubSeq(s, 1, Len(s) - 2) \o <<f>>) = Len(s) - 1
         /\ \A i \in 1 .. Len(s) - 1 :
              (SubSeq(s, 1, Len(s) - 2) \o <<f>>)[i] = IF i = Len(s) - 1 THEN f ELSE s[i]
<1>1. PICK n \in 0 .. Len(s) : n = Len(s) - 2
  OBVIOUS
<1>2. PICK e \in Seq(S) : e = <<f>> /\ Len(e) = 1 /\ e[1] = f
  <2>1. <<f>> \in Seq(S) /\ Len(<<f>>) = 1 /\ <<f>>[1] = f
    OBVIOUS
  <2> QED BY <2>1
<1>3. /\ SubSeq(s, 1, n) \o e \in Seq(S) /\ Len(SubSeq(s, 1, n) \o e) = n + Len(e)
      /\ \A i \in 1 .. n : (SubSeq(s, 1, n) \o e)[i] = s[i]
      /\ \A i \in 1 .. Len(e) : (SubSeq(s, 1, n) \o e)[n + i] = e[i]
  BY Joined
<1> DEFINE a == SubSeq(s, 1, n) \o e
<1>4. /\ a \in Seq(S) /\ Len(a) = n + Len(e)
      /\ \A i \in 1 .. n : a[i] = s[i]
      /\ \A i \in 1 .. Len(e) : a[n + i] = e[i]
  BY <1>3
<1>5. a = SubSeq(s, 1, Len(s) - 2) \o <<f>>
  BY <1>1, <1>2
<1> HIDE DEF a
<1>6. Len(s) \in Nat /\ n \in Nat /\ n + 1 = Len(s) - 1 /\ 1 \in 1 .. Len(e)
  BY <1>1, <1>2
<1>7. a[n + 1] = f
  BY <1>2, <1>4, <1>6
<1>8. ASSUME NEW i \in 1 .. Len(s) - 1 PROVE a[i] = IF i = Len(s) - 1 THEN f ELSE s[i]
  <2>1. CASE i = Len(s) - 1
    BY <2>1, <1>6, <1>7
  <2>2. CASE i # Len(s) - 1
    <3>1. i \in 1 .. n
      BY <2>2, <1>6
    <3> QED BY <3>1, <2>2, <1>4
  <2> QED BY <2>1, <2>2
<1>9. Len(a) = Len(s) - 1
  BY <1>2, <1>4, <1>6
<1> QED BY <1>4, <1>5, <1>8, <1>9

LEMMA Widened ==
  ASSUME NEW S, NEW s \in Seq(S), NEW f
  PROVE  \E T : s \in Seq(T) /\ f \in T
<1> WITNESS S \cup {f}
<1> QED OBVIOUS

LEMMA TopIs ==
  ASSUME StackSound, stack # <<>>
  PROVE  /\ Len(stack) \in Nat \ {0} /\ Top = stack[Len(stack)]
         /\ FrameSound(Top)
<1>1. PICK S : stack \in Seq(S)
  BY DEF StackSound
<1>2. Len(stack) \in Nat \ {0}
  BY <1>1
<1>3. Top = stack[Len(stack)]
  BY DEF Top, Last
<1> QED BY <1>2, <1>3 DEF StackSound

LEMMA StackGoesOn ==
  ASSUME StackSound, stack # <<>>, NEW f, Goes(f), FrameSound(f), f.name = Top.name
  PROVE  StackSound'
<1>1. PICK S : stack \in Seq(S) /\ f \in S
  BY Widened DEF StackSound
<1>2. /\ stack' \in Seq(S) /\ Len(stack') = Len(stack)
      /\ \A i \in 1 .. Len(stack) : stack'[i] = IF i = Len(stack) THEN f ELSE stack[i]
  <2>1. /\ Front(stack) \o <<f>> \in Seq(S)
        /\ Len(Front(stack) \o <<f>>) = Len(stack)
        /\ \A i \in 1 .. Len(stack) : (Front(stack) \o <<f>>)[i] = IF i = Len(stack) THEN f ELSE stack[i]
    BY <1>1, GoesOn
  <2>2. stack' = Front(stack) \o <<f>>
    BY DEF Goes
  <2> QED BY <2>1, <2>2
<1>3. Len(stack) \in Nat \ {0} /\ Top = stack[Len(stack)]
  BY TopIs
<1>4. ASSUME NEW i \in 1 .. Len(stack') PROVE FrameSound(stack'[i])
  BY <1>2 DEF StackSound
<1>5. ASSUME NEW i \in 1 .. Len(stack') - 1, Outside(stack'[i].zone) PROVE Trusted(stack'[i + 1].name)
  <2>1. i \in 1 .. Len(stack) - 1 /\ i \in 1 .. Len(stack) /\ i # Len(stack) /\ i + 1 \in 1 .. Len(stack)
    BY <1>2, <1>3
  <2>2. stack'[i] = stack[i] /\ stack'[i + 1].name = stack[i + 1].name
    BY <2>1, <1>2, <1>3
  <2> QED BY <2>1, <2>2, <1>5 DEF StackSound
<1> QED BY <1>2, <1>4, <1>5 DEF StackSound

LEMMA StackCalls ==
  ASSUME StackSound, stack # <<>>, NEW f, NEW g, stack' = Front(stack) \o <<f, g>>,
         FrameSound(f), f.name = Top.name, FrameSound(g), Outside(f.zone) => Trusted(g.name)
  PROVE  StackSound'
<1>1. PICK S : stack \in Seq(S) /\ f \in S /\ g \in S
  <2>1. PICK R : stack \in Seq(R)
    BY DEF StackSound
  <2>2. stack \in Seq(R \cup {f, g}) /\ f \in R \cup {f, g} /\ g \in R \cup {f, g}
    BY <2>1
  <2> QED BY <2>2
<1>2. /\ stack' \in Seq(S) /\ Len(stack') = Len(stack) + 1
      /\ \A i \in 1 .. Len(stack) + 1 :
           stack'[i] = IF i = Len(stack) + 1 THEN g ELSE IF i = Len(stack) THEN f ELSE stack[i]
  <2>1. /\ Front(stack) \o <<f, g>> \in Seq(S)
        /\ Len(Front(stack) \o <<f, g>>) = Len(stack) + 1
        /\ \A i \in 1 .. Len(stack) + 1 : (Front(stack) \o <<f, g>>)[i]
              = IF i = Len(stack) + 1 THEN g ELSE IF i = Len(stack) THEN f ELSE stack[i]
    BY <1>1, Calls
  <2> DEFINE w == Front(stack) \o <<f, g>>
  <2>2. stack' = w
    OBVIOUS
  <2> HIDE DEF w
  <2>3. w \in Seq(S) /\ Len(w) = Len(stack) + 1
        /\ \A i \in 1 .. Len(stack) + 1 : w[i] = IF i = Len(stack) + 1 THEN g ELSE IF i = Len(stack) THEN f ELSE stack[i]
    BY <2>1, Zenon DEF w
  <2> QED BY <2>2, <2>3, Zenon
<1>3. Len(stack) \in Nat \ {0} /\ Top = stack[Len(stack)]
  BY TopIs
<1>4. ASSUME NEW i \in 1 .. Len(stack') PROVE FrameSound(stack'[i])
  BY <1>2, <1>3 DEF StackSound
<1>5. ASSUME NEW i \in 1 .. Len(stack') - 1, Outside(stack'[i].zone) PROVE Trusted(stack'[i + 1].name)
  <2>1. CASE i = Len(stack)
    <3>1. i \in 1 .. Len(stack) + 1 /\ i + 1 \in 1 .. Len(stack) + 1 /\ i # Len(stack) + 1 /\ i + 1 = Len(stack) + 1
      BY <2>1, <1>3
    <3>2. stack'[i] = f /\ stack'[i + 1] = g
      BY <3>1, <2>1, <1>2
    <3> QED BY <3>2, <1>5
  <2>2. CASE i # Len(stack)
    <3>1. i \in 1 .. Len(stack) - 1 /\ i \in 1 .. Len(stack) + 1 /\ i + 1 \in 1 .. Len(stack) + 1
          /\ i # Len(stack) + 1 /\ i + 1 # Len(stack) + 1
      BY <2>2, <1>2, <1>3
    <3>2. stack'[i] = stack[i] /\ stack'[i + 1].name = stack[i + 1].name
      BY <3>1, <2>2, <1>2, <1>3
    <3> QED BY <3>1, <3>2, <1>5 DEF StackSound
  <2> QED BY <2>1, <2>2
<1> QED BY <1>2, <1>4, <1>5 DEF StackSound

LEMMA StackReturns ==
  ASSUME StackSound, Len(stack) > 1, NEW c, stack' = SubSeq(stack, 1, Len(stack) - 2) \o <<c>>,
         FrameSound(c), c.name = stack[Len(stack) - 1].name
  PROVE  StackSound'
<1>1. PICK S : stack \in Seq(S) /\ c \in S
  BY Widened DEF StackSound
<1>2. /\ stack' \in Seq(S) /\ Len(stack') = Len(stack) - 1
      /\ \A i \in 1 .. Len(stack) - 1 : stack'[i] = IF i = Len(stack) - 1 THEN c ELSE stack[i]
  BY <1>1, Returns
<1>3. Len(stack) \in Nat
  BY <1>1
<1>4. ASSUME NEW i \in 1 .. Len(stack') PROVE FrameSound(stack'[i])
  <2>1. i \in 1 .. Len(stack) - 1 /\ i \in 1 .. Len(stack)
    BY <1>2, <1>3
  <2>2. stack'[i] = c \/ stack'[i] = stack[i]
    BY <2>1, <1>2
  <2>3. FrameSound(stack[i])
    BY <2>1 DEF StackSound
  <2> QED BY <2>2, <2>3
<1>5. ASSUME NEW i \in 1 .. Len(stack') - 1, Outside(stack'[i].zone) PROVE Trusted(stack'[i + 1].name)
  <2>1. i \in 1 .. Len(stack) - 1 /\ i # Len(stack) - 1 /\ i + 1 \in 1 .. Len(stack) - 1
    BY <1>2, <1>3
  <2>2. stack'[i] = stack[i] /\ stack'[i + 1].name = stack[i + 1].name
    BY <2>1, <1>2, <1>3
  <2> QED BY <2>1, <2>2, <1>5 DEF StackSound
<1> QED BY <1>2, <1>4, <1>5 DEF StackSound

LEMMA StackBegins ==
  ASSUME NEW f, FrameSound(f), stack' = <<f>>
  PROVE  StackSound'
<1>1. stack' \in Seq({f}) /\ Len(stack') = 1 /\ stack'[1] = f
  OBVIOUS
<1>2. (\E S : stack \in Seq(S))'
  BY <1>1
<1>3. (\A i \in 1 .. Len(stack) : FrameSound(stack[i]))'
  BY <1>1
<1>4. 1 .. Len(stack') - 1 = {}
  BY <1>1
<1>5. (\A i \in 1 .. Len(stack) - 1 : Outside(stack[i].zone) => Trusted(stack[i + 1].name))'
  BY <1>4
<1> QED BY <1>2, <1>3, <1>5, Zenon DEF StackSound

LEMMA StackEnds ==
  ASSUME stack' = <<>>
  PROVE  StackSound'
<1>1. (\E S : stack' \in Seq(S)) /\ Len(stack') = 0
  <2>1. stack' \in Seq({}) /\ Len(stack') = 0
    OBVIOUS
  <2> QED BY <2>1
<1>2. (1 .. Len(stack') = {}) /\ (1 .. Len(stack') - 1 = {})
  BY <1>1
<1>3. (\A i \in 1 .. Len(stack) : FrameSound(stack[i]))'
  BY <1>2
<1>4. (\A i \in 1 .. Len(stack) - 1 : Outside(stack[i].zone) => Trusted(stack[i + 1].name))'
  BY <1>2
<1> QED BY <1>1, <1>3, <1>4, Zenon DEF StackSound

LEMMA StackRests ==
  ASSUME StackSound, UNCHANGED stack
  PROVE  StackSound'
  BY DEF StackSound

-----------------------------------------------------------------------------
(* A call starts at a cut that encloses its name, or at the root; for a DS *)
(* at the parent.                                                          *)
LEMMA FrameStarts ==
  ASSUME CutsSound, NEW n \in Name, NEW t, NEW d
  PROVE  FrameSound(Frame(n, t, d)) /\ Frame(n, t, d).name = n
<1> DEFINE start == IF t = "DS" /\ n # <<>> THEN Front(n) ELSE n
           known == {z \in Name : Within(start, z) /\ cuts[z] # None /\ cuts[z].addrs # {}}
           z == IF known = {} THEN <<>>
                ELSE CHOOSE x \in known : \A y \in known : Len(y) <= Len(x)
           s == IF known = {} THEN RootHints ELSE {g.addr : g \in cuts[z].addrs}
           f == [name |-> n, type |-> t, depth |-> d, zone |-> z, servers |-> s, probe |-> z,
                 qmin |-> QMin, widened |-> FALSE, steps |-> MaxSteps, order |-> None, msg |-> None, ns |-> {}]
<1>1. Frame(n, t, d) = f
  BY DEF Frame
<1>2. n \in Seq(Labels) /\ Len(n) \in Nat
  BY NameTyped
<1>3. start \in Name /\ Within(n, start) /\ Len(start) \in Nat
      /\ (t = "DS" /\ n # <<>> => Len(start) < Len(n))
  <2>1. CASE t = "DS" /\ n # <<>>
    <3>1. Len(n) - 1 \in 0 .. Len(n) /\ start = SubSeq(n, 1, Len(n) - 1)
      BY <2>1, <1>2 DEF Front
    <3> HIDE DEF start
    <3>2. PICK k \in 0 .. Len(n) : k = Len(n) - 1
      BY <3>1
    <3>3. start \in Name /\ Within(n, start) /\ Len(start) = k
      BY <3>1, <3>2, Ancestors
    <3> QED BY <3>2, <3>3, <1>2
  <2>2. CASE ~(t = "DS" /\ n # <<>>)
    BY <2>2, <1>2, WithinItself
  <2> QED BY <2>1, <2>2
<1> HIDE DEF start
<1>4. ASSUME known # {} PROVE z \in known
  <2>1. \A x \in known : Len(x) \in Nat /\ Len(x) <= Len(start)
    BY <1>3, NameTyped, WithinShorter
  <2> HIDE DEF known
  <2>2. \E x \in known : \A y \in known : Len(y) <= Len(x)
    BY <2>1, <1>3, <1>4, Longest
  <2> QED BY <1>4, <2>2
<1>5. z \in Name /\ Within(start, z)
  BY <1>3, <1>4, WithinItself, RecursiveAssumption
<1>6. Within(n, z)
  BY <1>3, <1>5, WithinTransitive
<1>7. Reliable(z, s)
  <2>1. CASE known = {}
    BY <2>1, RecursiveAssumption DEF Reliable
  <2>2. CASE known # {}
    <3>1. z \in known /\ s = {g.addr : g \in cuts[z].addrs}
      BY <2>2, <1>4
    <3> HIDE DEF z, s
    <3>2. CutSound(z, cuts[z])
      BY <3>1 DEF CutsSound
    <3>3. ASSUME Outside(z), NEW g \in cuts[z].addrs PROVE g.addr \notin FaultyAddr
      BY <3>2, <3>3, RecursiveAssumption DEF CutSound
    <3> QED BY <3>1, <3>3 DEF Reliable
  <2> QED BY <2>1, <2>2
<1>8. ASSUME t = "DS", n # <<>> PROVE z # n
  <2>1. Len(z) <= Len(start) /\ Len(start) < Len(n) /\ Len(z) \in Nat
    BY <1>3, <1>5, <1>8, WithinShorter, NameTyped
  <2>2. Len(z) < Len(n)
    BY <2>1, <1>2, <1>3
  <2> HIDE DEF z
  <2> QED BY <2>2, <1>2
<1>9. Len(z) \in Nat
  BY <1>5, NameTyped
<1> HIDE DEF z, s
<1>10. f.name = n /\ f.zone = z /\ f.probe = z /\ f.servers = s /\ f.order = None /\ f.msg = None /\ f.ns = {} /\ f.type = t
  OBVIOUS
<1> HIDE DEF f
<1> QED BY <1>1, <1>5, <1>6, <1>7, <1>8, <1>9, <1>10 DEF FrameSound

(* A call that goes on about the same name and zone.                       *)
LEMMA FrameGoesOn ==
  ASSUME NEW f, NEW g, FrameSound(f), g.name = f.name, g.type = f.type, g.zone = f.zone,
         g.ns \subseteq f.ns, Reliable(g.zone, g.servers), Len(g.probe) \in Nat,
         g.order # None => \E S : g.order \in Seq(S) /\ Reliable(g.zone, S),
         g.msg # None => MessageSound(g.msg, g.zone, Question(g).name)
  PROVE  FrameSound(g)
<1>1. g.name \in Name /\ g.zone \in Name /\ Within(g.name, g.zone)
  BY DEF FrameSound
<1>2. g.ns \subseteq Name /\ (Outside(g.zone) => \A n \in g.ns : Trusted(n))
  BY DEF FrameSound
<1>3. g.type = "DS" /\ g.name # <<>> /\ Outside(g.name) => g.zone # g.name
  BY DEF FrameSound
<1> QED BY <1>1, <1>2, <1>3 DEF FrameSound

LEMMA CachesRest == CutsSound /\ AddrsSound /\ UNCHANGED infra => CutsSound' /\ AddrsSound'
  BY DEF CutsSound, AddrsSound, infra

LEMMA OutRests == OutSound /\ UNCHANGED out => OutSound'
  BY DEF OutSound, Believed

LEMMA ChainRests == ChainSound /\ (stack # <<>> \/ stack' = <<>>) /\ UNCHANGED chain => ChainSound'
  BY DEF ChainSound

(* The innermost call goes on and nothing else happens.                    *)
LEMMA OnlyGoesOn ==
  ASSUME RecursiveInv, stack # <<>>, NEW f, Goes(f), FrameSound(f), f.name = Top.name,
         UNCHANGED <<infra, chain, out>>
  PROVE  RecursiveInv'
<1>1. StackSound'
  BY StackGoesOn DEF RecursiveInv
<1>2. CutsSound' /\ AddrsSound'
  BY CachesRest DEF RecursiveInv
<1>3. ChainSound'
  BY ChainRests DEF RecursiveInv
<1>4. OutSound'
  BY OutRests DEF RecursiveInv
<1> QED BY <1>1, <1>2, <1>3, <1>4 DEF RecursiveInv

LEMMA FailSound == \A z : AnswersSound(Fail, z)
  BY DEF AnswersSound, Fail

(* The outermost call is back: the chain ends, or goes on at the target.   *)
LEMMA HopKeeps ==
  ASSUME RecursiveInv, stack # <<>>, NEW m, NEW target, AnswersSound(m, Top.zone),
         target # None => target \in Name, Hop(m, target), UNCHANGED infra
  PROVE  RecursiveInv'
<1>1. CutsSound' /\ AddrsSound' /\ CutsSound
  BY CachesRest DEF RecursiveInv
<1>2. (\A r \in m.ans : Truthful(r)) /\ \A r \in chain.ans : Truthful(r)
  BY DEF AnswersSound, RecursiveInv, ChainSound
<1>3. ASSUME NEW o, Ends(o), \A r \in o.ans : Truthful(r) PROVE RecursiveInv'
  <2>1. StackSound' /\ ChainSound'
    BY <1>3, StackEnds DEF Ends, ChainSound
  <2>2. OutSound'
    BY <1>3 DEF Ends, OutSound, Believed
  <2> QED BY <1>1, <2>1, <2>2 DEF RecursiveInv
<1>4. \A r \in Servfail.ans : Truthful(r)
  BY DEF Servfail
<1>5. CASE target = None
  <2>1. Ends(IF m.rcode \in {"noerror", "nxdomain"}
             THEN [rcode |-> m.rcode, ans |-> chain.ans \cup m.ans] ELSE Servfail)
    BY <1>5 DEF Hop
  <2>2. CASE m.rcode \in {"noerror", "nxdomain"}
    <3>1. Ends([rcode |-> m.rcode, ans |-> chain.ans \cup m.ans])
      BY <2>1, <2>2
    <3>2. [rcode |-> m.rcode, ans |-> chain.ans \cup m.ans].ans = chain.ans \cup m.ans
      OBVIOUS
    <3>3. \A r \in [rcode |-> m.rcode, ans |-> chain.ans \cup m.ans].ans : Truthful(r)
      BY <3>2, <1>2
    <3> QED BY <3>1, <3>3, <1>3
  <2>3. CASE ~(m.rcode \in {"noerror", "nxdomain"})
    BY <2>1, <2>3, <1>3, <1>4
  <2> QED BY <2>2, <2>3
<1>6. CASE target # None /\ (target \in chain.seen \/ chain.left = 1)
  <2>1. Ends(Servfail)
    BY <1>6 DEF Hop
  <2> QED BY <2>1, <1>3, <1>4
<1>7. CASE target # None /\ ~(target \in chain.seen \/ chain.left = 1)
  <2> DEFINE more == {r \in m.ans : r.owner = Top.name /\ r.type = "CNAME"}
  <2>1. /\ chain' = [chain EXCEPT !.seen = @ \cup {target}, !.left = @ - 1, !.ans = @ \cup more]
        /\ stack' = <<Frame(target, chain.type, 0)>> /\ UNCHANGED out
    BY <1>7 DEF Hop
  <2>2. FrameSound(Frame(target, chain.type, 0))
    BY <1>7, <1>1, FrameStarts
  <2>3. StackSound'
    BY <2>1, <2>2, StackBegins
  <2>4. chain'.ans = chain.ans \cup more
    BY <2>1
  <2>5. ChainSound'
    BY <2>4, <1>2 DEF ChainSound
  <2>6. OutSound'
    BY <2>1, OutRests DEF RecursiveInv
  <2> QED BY <1>1, <2>3, <2>5, <2>6 DEF RecursiveInv
<1> QED BY <1>5, <1>6, <1>7

(* A side resolution is back: what it found is the nameserver's address.   *)
LEMMA ResolvedKeeps ==
  ASSUME RecursiveInv, Len(stack) > 1, stack # <<>>, NEW m, AnswersSound(m, Top.zone), Resolved(m),
         UNCHANGED <<cuts, chain, out>>
  PROVE  RecursiveInv'
<1> DEFINE caller == stack[Len(stack) - 1]
           got == {r.data : r \in {x \in m.ans : x.owner = Top.name /\ x.type = "A"}}
           c == IF got = {} THEN caller ELSE [caller EXCEPT !.servers = got, !.ns = {}]
<1>1. /\ addrs' = [addrs EXCEPT ![Top.name] = IF got = {} THEN @ ELSE got]
      /\ stack' = SubSeq(stack, 1, Len(stack) - 2) \o <<c>>
  BY DEF Resolved
<1>2. StackSound /\ Len(stack) \in Nat \ {0} /\ Top = stack[Len(stack)] /\ FrameSound(Top)
  BY TopIs DEF RecursiveInv
<1>3. Top.name \in Name
  BY <1>2 DEF FrameSound
<1>4. ASSUME Outside(Top.name) PROVE got \subseteq {Host[Top.name]}
  <2>1. ASSUME NEW r \in m.ans, r.owner = Top.name, r.type = "A" PROVE r.data = Host[Top.name]
    <3>1. r \in Owned(Top.name)
      BY <1>4, <2>1 DEF AnswersSound, Truthful
    <3>2. r.type = Data[Top.name].type /\ r.data = Data[Top.name].data /\ Data[Top.name] # None
      BY <3>1, <1>3, OwnedSound
    <3> QED BY <3>2, <2>1, <1>3, <1>4, RecursiveAssumption
  <2> QED BY <2>1
<1>5. FrameSound(caller) /\ (Outside(caller.zone) => Trusted(Top.name))
  <2>1. Len(stack) - 1 \in 1 .. Len(stack) - 1 /\ Len(stack) - 1 \in 1 .. Len(stack) /\ Len(stack) - 1 + 1 = Len(stack)
    BY <1>2
  <2> QED BY <1>2, <2>1 DEF StackSound
<1> HIDE DEF caller, got
<1>6. FrameSound(c) /\ c.name = caller.name
  <2>1. CASE got = {}
    BY <2>1, <1>5
  <2>2. CASE got # {}
    <3>1. c = [caller EXCEPT !.servers = got, !.ns = {}]
      BY <2>2
    <3> HIDE DEF c
    <3>2. /\ c.name = caller.name /\ c.type = caller.type /\ c.zone = caller.zone /\ c.ns = {} /\ c.servers = got
          /\ c.probe = caller.probe /\ c.order = caller.order /\ c.msg = caller.msg /\ c.qmin = caller.qmin
      BY <3>1
    <3>3. Reliable(c.zone, c.servers)
      BY <3>2, <1>4, <1>5 DEF Reliable, Trusted
    <3>4. Question(c) = Question(caller)
      BY <3>2 DEF Question
    <3>5. /\ Len(c.probe) \in Nat /\ (c.order # None => \E S : c.order \in Seq(S) /\ Reliable(c.zone, S))
          /\ (c.msg # None => MessageSound(c.msg, c.zone, Question(c).name))
      BY <3>2, <3>4, <1>5 DEF FrameSound
    <3> QED BY <3>2, <3>3, <3>5, <1>5, FrameGoesOn
  <2> QED BY <2>1, <2>2
<1> HIDE DEF c
<1>7. StackSound'
  BY <1>1, <1>2, <1>6, StackReturns DEF caller
<1>8. AddrsSound'
  <2>1. DOMAIN addrs = Name /\ \A n \in Name : Outside(n) => addrs[n] \subseteq {Host[n]}
    BY DEF RecursiveInv, AddrsSound
  <2>2. DOMAIN addrs' = Name
    BY <1>1, <2>1
  <2>3. ASSUME NEW n \in Name, Outside(n) PROVE addrs'[n] \subseteq {Host[n]}
    <3>1. CASE n = Top.name
      BY <3>1, <1>1, <1>4, <2>1, <2>3
    <3>2. CASE n # Top.name
      BY <3>2, <1>1, <2>1, <2>3
    <3> QED BY <3>1, <3>2
  <2> QED BY <2>2, <2>3 DEF AddrsSound
<1>9. CutsSound' /\ ChainSound' /\ OutSound'
  BY ChainRests, OutRests DEF RecursiveInv, CutsSound
<1> QED BY <1>7, <1>8, <1>9 DEF RecursiveInv

LEMMA ReturnKeeps ==
  ASSUME RecursiveInv, stack # <<>>, NEW m, NEW target, AnswersSound(m, Top.zone),
         target # None => target \in Name, Return(m, target)
  PROVE  RecursiveInv'
<1>1. CASE Len(stack) = 1 /\ Hop(m, target) /\ UNCHANGED <<job, addrs>>
  BY <1>1, HopKeeps DEF Return, infra
<1>2. CASE Len(stack) > 1 /\ Resolved(m) /\ UNCHANGED <<chain, out>>
  BY <1>2, ResolvedKeeps DEF Return
<1> QED BY <1>1, <1>2 DEF Return

-----------------------------------------------------------------------------
LEMMA InitRecursiveInv == Init => RecursiveInv
<1> SUFFICES ASSUME Init PROVE RecursiveInv
  OBVIOUS
<1>1. CutsSound
  BY DEF Init, CutsSound
<1>2. AddrsSound
  BY DEF Init, AddrsSound
<1>3. StackSound
  <2>1. stack = <<>>
    BY DEF Init
  <2>2. stack \in Seq({}) /\ Len(stack) = 0
    BY <2>1
  <2>3. 1 .. Len(stack) = {} /\ 1 .. Len(stack) - 1 = {}
    BY <2>2
  <2>4. \E S : stack \in Seq(S)
    BY <2>2
  <2> QED BY <2>3, <2>4, Zenon DEF StackSound
<1>4. ChainSound /\ OutSound
  BY DEF Init, ChainSound, OutSound, Believed
<1> QED BY <1>1, <1>2, <1>3, <1>4 DEF RecursiveInv

LEMMA StartAskKeeps ==
  ASSUME RecursiveInv, NEW q \in Asked, StartAsk(q)
  PROVE  RecursiveInv'
<1>1. q.name \in Name
  BY RecursiveAssumption
<1>2. CutsSound' /\ AddrsSound' /\ CutsSound
  BY CachesRest DEF RecursiveInv, StartAsk
<1>3. FrameSound(Frame(q.name, q.type, 0))
  BY <1>1, <1>2, FrameStarts
<1>4. StackSound'
  BY <1>3, StackBegins DEF StartAsk
<1>5. chain'.ans = {} /\ out' = None
  BY DEF StartAsk
<1>6. ChainSound' /\ OutSound'
  BY <1>5 DEF ChainSound, OutSound, Believed
<1> QED BY <1>2, <1>4, <1>6 DEF RecursiveInv

LEMMA StepKeeps ==
  ASSUME RecursiveInv, Step
  PROVE  RecursiveInv'
<1>1. stack # <<>> /\ FrameSound(Top)
  BY TopIs DEF Step, Idle, RecursiveInv
<1>2. ASSUME NEW s \in Orders(Top.servers), Goes([Top EXCEPT !.steps = @ - 1, !.order = s]),
             UNCHANGED <<infra, job, chain, out, asks>>
      PROVE  RecursiveInv'
  <2> DEFINE f == [Top EXCEPT !.steps = @ - 1, !.order = s]
  <2>1. /\ f.name = Top.name /\ f.type = Top.type /\ f.zone = Top.zone /\ f.ns = Top.ns /\ f.servers = Top.servers
        /\ f.probe = Top.probe /\ f.order = s /\ f.msg = Top.msg /\ f.qmin = Top.qmin
    OBVIOUS
  <2> HIDE DEF f
  <2>2. s \in Seq(Top.servers)
    BY DEF Orders
  <2>3. Question(f) = Question(Top)
    BY <2>1 DEF Question
  <2>4. FrameSound(f)
    <3>1. Reliable(f.zone, f.servers) /\ Len(f.probe) \in Nat
          /\ (f.msg # None => MessageSound(f.msg, f.zone, Question(f).name))
      BY <1>1, <2>1, <2>3 DEF FrameSound
    <3>2. \E S : f.order \in Seq(S) /\ Reliable(f.zone, S)
      BY <2>1, <2>2, <3>1
    <3> QED BY <1>1, <2>1, <3>1, <3>2, FrameGoesOn
  <2> QED BY <1>1, <1>2, <2>1, <2>4, OnlyGoesOn DEF f
<1>3. CASE Return(Fail, None)
  BY <1>1, <1>3, FailSound, ReturnKeeps
<1> QED BY <1>2, <1>3 DEF Step

LEMMA GiveUpKeeps ==
  ASSUME RecursiveInv, GiveUp
  PROVE  RecursiveInv'
  BY FailSound, ReturnKeeps DEF GiveUp, Idle

(* The next server of the order is asked, and says something or nothing.   *)
LEMMA AskedKeeps ==
  ASSUME RecursiveInv, Sends, NEW m, Asked1(Top, m),
         m # None => MessageSound(m, Top.zone, Question(Top).name)
  PROVE  RecursiveInv'
<1> DEFINE f == [Top EXCEPT !.order = Tail(@), !.msg = m]
<1>1. stack # <<>> /\ FrameSound(Top) /\ Top.order # None /\ Top.order # <<>>
  BY TopIs DEF Sends, Idle, RecursiveInv, Asking
<1>2. /\ f.name = Top.name /\ f.type = Top.type /\ f.zone = Top.zone /\ f.ns = Top.ns /\ f.servers = Top.servers
      /\ f.probe = Top.probe /\ f.order = Tail(Top.order) /\ f.msg = m /\ f.qmin = Top.qmin
  OBVIOUS
<1>3. Goes(f)
  BY DEF Asked1
<1> HIDE DEF f
<1>4. Question(f) = Question(Top)
  BY <1>2 DEF Question
<1>5. \E S : f.order \in Seq(S) /\ Reliable(f.zone, S)
  <2>1. PICK S : Top.order \in Seq(S) /\ Reliable(Top.zone, S)
    BY <1>1 DEF FrameSound
  <2>2. Tail(Top.order) \in Seq(S)
    BY <2>1, <1>1
  <2> QED BY <1>2, <2>1, <2>2
<1>6. Reliable(f.zone, f.servers) /\ Len(f.probe) \in Nat
  BY <1>1, <1>2 DEF FrameSound
<1>7. FrameSound(f)
  BY <1>1, <1>2, <1>4, <1>5, <1>6, FrameGoesOn
<1> QED BY <1>1, <1>2, <1>3, <1>7, OnlyGoesOn DEF Sends

LEMMA AnswerKeeps ==
  ASSUME RecursiveInv, Answer
  PROVE  RecursiveInv'
<1>1. stack # <<>> /\ FrameSound(Top) /\ Top.order # None /\ Top.order # <<>> /\ Sends
  BY TopIs DEF Answer, Sends, Idle, RecursiveInv, Asking
<1> DEFINE q == Question(Top)
<1>2. PICK m \in Replies(Head(Top.order), q.name, q.type) :
        \/ Asked1(Top, Scrub(m, Top.zone, q.name))
        \/ Asked1(Top, None)
  BY DEF Answer
<1>3. q.name \in Name /\ Top.zone \in Name
  BY <1>1, QuestionSound DEF FrameSound
<1> HIDE DEF q
<1>4. Outside(Top.zone) => Head(Top.order) \notin FaultyAddr
  <2>1. PICK S : Top.order \in Seq(S) /\ Reliable(Top.zone, S)
    BY <1>1 DEF FrameSound
  <2>2. Head(Top.order) \in S
    BY <2>1, <1>1
  <2> QED BY <2>1, <2>2 DEF Reliable
<1>5. (~Outside(Top.zone) /\ m \in FaultySays) \/ TrueMessage(m, q.name)
  BY <1>3, <1>4, RepliesSound
<1>6. MessageSound(Scrub(m, Top.zone, q.name), Top.zone, q.name)
  BY <1>3, <1>5, ScrubSound
<1> QED BY <1>1, <1>2, <1>6, AskedKeeps DEF q

LEMMA PutCutKeeps ==
  ASSUME CutsSound, NEW z \in Name, NEW c, CutSound(z, c), PutCut(z, c)
  PROVE  CutsSound'
<1>1. PICK kept : cuts' = [y \in Name |-> IF y = z THEN c ELSE IF y \in kept THEN cuts[y] ELSE None]
  BY DEF PutCut
<1>2. ASSUME NEW y \in Name, cuts'[y] # None PROVE CutSound(y, cuts'[y])
  BY <1>1, <1>2 DEF CutsSound
<1> QED BY <1>1, <1>2 DEF CutsSound

LEMMA DescendKeeps ==
  ASSUME RecursiveInv, Descend
  PROVE  RecursiveInv'
<1> DEFINE q == Question(Top)
           dz == Referral(Top.msg, Top.zone, Top.name, q.type)
           names == NamesOf(Top.msg, dz)
           glue == {g \in Top.msg.glue : g.owner \in names}
           hosts == IF glue # {} THEN {g.addr : g \in glue} ELSE UNION {addrs[n] : n \in names}
           put == [names |-> names, addrs |-> glue]
<1>1. /\ stack # <<>> /\ Top.msg # None /\ dz # None /\ PutCut(dz, put)
      /\ UNCHANGED <<addrs, job, chain, out, asks>>
  BY DEF Descend, NamesOf, Idle
<1>2. PICK some \in SUBSET names :
        Goes([Top EXCEPT !.zone = dz, !.probe = dz, !.order = None, !.msg = None, !.servers = hosts, !.ns = some])
  BY DEF Descend, NamesOf
<1>3. FrameSound(Top)
  BY <1>1, TopIs DEF RecursiveInv
<1>4. Top.name \in Name /\ Top.zone \in Name /\ MessageSound(Top.msg, Top.zone, q.name)
      /\ (Top.type = "DS" /\ Top.name # <<>> /\ Outside(Top.name) => Top.zone # Top.name)
  BY <1>1, <1>3 DEF FrameSound
<1>5. q.name \in Name /\ (q.type # Top.type => Len(q.name) < Len(Top.name))
  BY <1>3, QuestionSound DEF FrameSound
<1> HIDE DEF q
<1>6. /\ dz \in Name /\ Within(Top.name, dz) /\ Within(dz, Top.zone)
      /\ q.type = "DS" => dz # Top.name
      /\ NamesOf(Top.msg, dz) \subseteq Name
      /\ Outside(dz) => /\ Outside(Top.zone) /\ dz \in Cuts /\ Within(q.name, dz)
                        /\ NamesOf(Top.msg, dz) = NsOf[dz]
  <2>1. MessageSound(Top.msg, Top.zone, q.name) /\ Referral(Top.msg, Top.zone, Top.name, q.type) # None
    BY <1>1, <1>4
  <2> HIDE DEF dz, names
  <2>2. /\ Referral(Top.msg, Top.zone, Top.name, q.type) \in Name
        /\ Within(Top.name, Referral(Top.msg, Top.zone, Top.name, q.type))
        /\ Within(Referral(Top.msg, Top.zone, Top.name, q.type), Top.zone)
        /\ q.type = "DS" => Referral(Top.msg, Top.zone, Top.name, q.type) # Top.name
        /\ NamesOf(Top.msg, Referral(Top.msg, Top.zone, Top.name, q.type)) \subseteq Name
        /\ Outside(Referral(Top.msg, Top.zone, Top.name, q.type)) =>
             /\ Outside(Top.zone) /\ Referral(Top.msg, Top.zone, Top.name, q.type) \in Cuts
             /\ Within(q.name, Referral(Top.msg, Top.zone, Top.name, q.type))
             /\ NamesOf(Top.msg, Referral(Top.msg, Top.zone, Top.name, q.type))
                  = NsOf[Referral(Top.msg, Top.zone, Top.name, q.type)]
    <3>1. PICK m, z, n, t, qname :
            m = Top.msg /\ z = Top.zone /\ n = Top.name /\ t = q.type /\ qname = q.name
      OBVIOUS
    <3>2. z \in Name /\ n \in Name /\ MessageSound(m, z, qname) /\ Referral(m, z, n, t) # None
      BY <3>1, <2>1, <1>4
    <3>3. LET rz == Referral(m, z, n, t) IN
          /\ rz \in Name /\ Within(n, rz) /\ Within(rz, z)
          /\ t = "DS" => rz # n
          /\ NamesOf(m, rz) \subseteq Name
          /\ Outside(rz) => /\ Outside(z) /\ rz \in Cuts /\ Within(qname, rz)
                            /\ NamesOf(m, rz) = NsOf[rz]
      BY <3>2, ReferralSound
    <3> QED BY <3>1, <3>3
  <2> QED BY <2>2 DEF dz
<1> HIDE DEF dz
<1>7. \A g \in glue : g.owner \in names /\ (Outside(dz) => g.addr = Host[g.owner])
  BY <1>4, <1>6 DEF MessageSound, GlueSound
<1>8. Outside(dz) => names = NsOf[dz] /\ \A n \in names : Trusted(n)
  BY <1>6, RecursiveAssumption DEF Trusted
<1> HIDE DEF names, glue
<1>9. CutSound(dz, put)
  BY <1>6, <1>7, <1>8 DEF CutSound
<1>10. Reliable(dz, hosts)
  <2> SUFFICES ASSUME Outside(dz), NEW a \in hosts PROVE a \notin FaultyAddr
    BY DEF Reliable
  <2>1. CASE glue # {}
    <3>1. PICK g \in glue : a = g.addr
      BY <2>1
    <3> QED BY <3>1, <1>7, <1>8 DEF Trusted
  <2>2. CASE glue = {}
    <3>1. PICK n \in names : a \in addrs[n]
      BY <2>2
    <3>2. n \in Name /\ Trusted(n)
      BY <1>6, <1>8 DEF names
    <3>3. addrs[n] \subseteq {Host[n]}
      BY <3>2 DEF RecursiveInv, AddrsSound, Trusted
    <3> QED BY <3>1, <3>2, <3>3 DEF Trusted
  <2> QED BY <2>1, <2>2
<1> DEFINE f == [Top EXCEPT !.zone = dz, !.probe = dz, !.order = None, !.msg = None, !.servers = hosts, !.ns = some]
<1>11. /\ f.name = Top.name /\ f.type = Top.type /\ f.zone = dz /\ f.ns = some /\ f.servers = hosts
       /\ f.probe = dz /\ f.order = None /\ f.msg = None
  OBVIOUS
<1> HIDE DEF hosts
<1>12. Goes(f)
  BY <1>2
<1> HIDE DEF f
<1>13. ASSUME Top.type = "DS", Outside(Top.name) PROVE dz # Top.name
  <2>1. CASE q.type = "DS"
    BY <2>1, <1>6
  <2>2. CASE q.type # "DS"
    <3> SUFFICES ASSUME dz = Top.name PROVE FALSE
      OBVIOUS
    <3>1. Len(q.name) < Len(Top.name)
      BY <2>2, <1>5, <1>13
    <3>2. Len(Top.name) <= Len(q.name)
      BY <1>4, <1>5, <1>6, <1>13, WithinShorter
    <3> QED BY <3>1, <3>2, <1>4, <1>5, NameTyped
  <2> QED BY <2>1, <2>2
<1>14. FrameSound(f)
  <2>1. f.name \in Name /\ f.zone \in Name /\ Within(f.name, f.zone) /\ Len(f.probe) \in Nat
    BY <1>4, <1>6, <1>11, NameTyped
  <2>2. f.ns \subseteq Name /\ (Outside(f.zone) => \A n \in f.ns : Trusted(n))
    BY <1>6, <1>8, <1>11 DEF names
  <2>3. Reliable(f.zone, f.servers)
    BY <1>10, <1>11
  <2>4. f.type = "DS" /\ f.name # <<>> /\ Outside(f.name) => f.zone # f.name
    BY <1>11, <1>13
  <2> QED BY <1>11, <2>1, <2>2, <2>3, <2>4 DEF FrameSound
<1>15. StackSound'
  BY <1>1, <1>11, <1>12, <1>14, StackGoesOn DEF RecursiveInv
<1>16. CutsSound'
  BY <1>1, <1>6, <1>9, PutCutKeeps DEF RecursiveInv
<1>17. AddrsSound' /\ ChainSound' /\ OutSound'
  BY <1>1, ChainRests, OutRests DEF RecursiveInv, AddrsSound
<1> QED BY <1>15, <1>16, <1>17 DEF RecursiveInv

LEMMA ChaseKeeps ==
  ASSUME RecursiveInv, Chase
  PROVE  RecursiveInv'
<1>1. stack # <<>> /\ FrameSound(Top) /\ UNCHANGED <<infra, chain, out>>
  BY TopIs DEF Chase, Idle, RecursiveInv
<1>2. PICK n \in Top.ns :
        \/ Goes([Top EXCEPT !.ns = @ \ {n}])
        \/ stack' = Front(stack) \o <<[Top EXCEPT !.ns = @ \ {n}], Frame(n, "A", [Top EXCEPT !.ns = @ \ {n}].depth + 1)>>
  BY DEF Chase
<1> DEFINE f == [Top EXCEPT !.ns = @ \ {n}]
           g == Frame(n, "A", f.depth + 1)
<1>3. /\ f.name = Top.name /\ f.type = Top.type /\ f.zone = Top.zone /\ f.ns \subseteq Top.ns /\ f.servers = Top.servers
      /\ f.probe = Top.probe /\ f.order = Top.order /\ f.msg = Top.msg /\ f.qmin = Top.qmin
  OBVIOUS
<1>4. Goes(f) \/ stack' = Front(stack) \o <<f, g>>
  BY <1>2
<1> HIDE DEF f
<1>5. n \in Name /\ (Outside(f.zone) => Trusted(n))
  BY <1>1, <1>3 DEF FrameSound
<1>6. FrameSound(g) /\ g.name = n
  BY <1>5, FrameStarts DEF RecursiveInv
<1> HIDE DEF g
<1>7. FrameSound(f)
  <2>1. Question(f) = Question(Top)
    BY <1>3 DEF Question
  <2>2. /\ Reliable(f.zone, f.servers) /\ Len(f.probe) \in Nat
        /\ (f.order # None => \E S : f.order \in Seq(S) /\ Reliable(f.zone, S))
        /\ (f.msg # None => MessageSound(f.msg, f.zone, Question(f).name))
    BY <1>1, <1>3, <2>1 DEF FrameSound
  <2> QED BY <1>1, <1>3, <2>2, FrameGoesOn
<1>8. CASE Goes(f)
  BY <1>1, <1>3, <1>7, <1>8, OnlyGoesOn
<1>9. CASE stack' = Front(stack) \o <<f, g>>
  <2>1. StackSound'
    BY <1>1, <1>3, <1>5, <1>6, <1>7, <1>9, StackCalls DEF RecursiveInv
  <2>2. CutsSound' /\ AddrsSound' /\ ChainSound' /\ OutSound'
    BY <1>1, CachesRest, ChainRests, OutRests DEF RecursiveInv
  <2> QED BY <2>1, <2>2 DEF RecursiveInv
<1> QED BY <1>4, <1>8, <1>9

LEMMA ProbedKeeps ==
  ASSUME RecursiveInv, Probed
  PROVE  RecursiveInv'
<1>1. stack # <<>> /\ FrameSound(Top) /\ UNCHANGED <<infra, chain, out>>
  BY TopIs DEF Probed, Idle, RecursiveInv
<1> DEFINE down == [Top EXCEPT !.probe = Question(Top).name, !.order = None, !.msg = None]
           wide == [Top EXCEPT !.widened = TRUE, !.qmin = FALSE, !.order = None, !.msg = None]
<1>2. PICK f : Goes(f) /\ (f = down \/ f = wide)
  BY DEF Probed
<1>3. Question(Top).name \in Name
  BY <1>1, QuestionSound DEF FrameSound
<1>4. /\ f.name = Top.name /\ f.type = Top.type /\ f.zone = Top.zone /\ f.ns = Top.ns /\ f.servers = Top.servers
      /\ (f.probe = Top.probe \/ f.probe = Question(Top).name) /\ f.order = None /\ f.msg = None
  <2>1. CASE f = down
    BY <2>1
  <2>2. CASE f = wide
    BY <2>2
  <2> QED BY <1>2, <2>1, <2>2
<1>5. FrameSound(f)
  <2>1. Reliable(f.zone, f.servers) /\ Len(f.probe) \in Nat
    BY <1>1, <1>3, <1>4, NameTyped DEF FrameSound
  <2> QED BY <1>1, <1>4, <2>1, FrameGoesOn
<1> QED BY <1>1, <1>2, <1>4, <1>5, OnlyGoesOn

LEMMA ConcludeKeeps ==
  ASSUME RecursiveInv, Conclude
  PROVE  RecursiveInv'
<1>1. stack # <<>> /\ FrameSound(Top) /\ Top.msg # None
  BY TopIs DEF Conclude, Said, Idle, RecursiveInv
<1>2. AnswersSound(Top.msg, Top.zone)
  BY <1>1 DEF FrameSound, MessageSound
<1>3. \/ Return(Top.msg, None)
      \/ \E r \in Top.msg.ans : r.type = "CNAME" /\ Return(Top.msg, r.data)
  BY DEF Conclude
<1>4. \A r \in Top.msg.ans : r.type = "CNAME" => r.data \in Name
  BY <1>2 DEF AnswersSound
<1>5. CASE Return(Top.msg, None)
  BY <1>1, <1>2, <1>5, ReturnKeeps
<1>6. ASSUME NEW r \in Top.msg.ans, r.type = "CNAME", Return(Top.msg, r.data) PROVE RecursiveInv'
  BY <1>1, <1>2, <1>4, <1>6, ReturnKeeps
<1> QED BY <1>3, <1>5, <1>6

LEMMA ExpireKeeps ==
  ASSUME RecursiveInv, Expire
  PROVE  RecursiveInv'
<1>1. UNCHANGED <<job, chain, stack, out, asks>>
  BY DEF Expire
<1>2. StackSound' /\ ChainSound' /\ OutSound'
  BY <1>1, StackRests, OutRests DEF RecursiveInv, ChainSound
<1>3. CutsSound' /\ AddrsSound'
  <2>1. PICK n \in Name : \/ cuts' = [cuts EXCEPT ![n] = None] /\ UNCHANGED addrs
                          \/ addrs' = [addrs EXCEPT ![n] = {}] /\ UNCHANGED cuts
    BY DEF Expire
  <2>2. CASE cuts' = [cuts EXCEPT ![n] = None] /\ UNCHANGED addrs
    BY <2>2 DEF RecursiveInv, CutsSound, AddrsSound
  <2>3. CASE addrs' = [addrs EXCEPT ![n] = {}] /\ UNCHANGED cuts
    BY <2>3 DEF RecursiveInv, CutsSound, AddrsSound
  <2> QED BY <2>1, <2>2, <2>3
<1> QED BY <1>2, <1>3 DEF RecursiveInv

LEMMA RecursiveRests ==
  ASSUME RecursiveInv, UNCHANGED <<infra, chain, stack, out>>
  PROVE  RecursiveInv'
  BY CachesRest, StackRests, OutRests DEF RecursiveInv, ChainSound

LEMMA NextRecursiveInv == RecursiveInv /\ [Next]_vars => RecursiveInv'
<1> SUFFICES ASSUME RecursiveInv, [Next]_vars PROVE RecursiveInv'
  OBVIOUS
<1>1. ASSUME NEW q \in Asked, StartAsk(q) PROVE RecursiveInv'
  BY <1>1, StartAskKeeps
<1>2. CASE Step
  BY <1>2, StepKeeps
<1>3. CASE GiveUp
  BY <1>3, GiveUpKeeps
<1>4. CASE NoRoute \/ Silent
  BY <1>4, AskedKeeps DEF NoRoute, Silent
<1>5. CASE Answer
  BY <1>5, AnswerKeeps
<1>6. CASE Descend
  BY <1>6, DescendKeeps
<1>7. CASE Chase
  BY <1>7, ChaseKeeps
<1>8. CASE Probed
  BY <1>8, ProbedKeeps
<1>9. CASE Conclude
  BY <1>9, ConcludeKeeps
<1>10. CASE Deadline
  BY <1>10, RecursiveRests DEF Deadline
<1>11. CASE Expire
  BY <1>11, ExpireKeeps
<1>12. CASE UNCHANGED vars
  BY <1>12, RecursiveRests DEF vars
<1> QED BY <1>1, <1>2, <1>3, <1>4, <1>5, <1>6, <1>7, <1>8, <1>9, <1>10, <1>11, <1>12 DEF Next, Resolving

-----------------------------------------------------------------------------
(* Whatever the servers of one zone answer, through the delegation cache,  *)
(* side resolutions, aliases and minimised probes: what is remembered and  *)
(* handed out about a name outside that zone is what its own zone says,    *)
(* and a DS is never asked of the child (_scrub, _referral, _glue,         *)
(* put_cut, _addresses, _resolve_chain).                                   *)
THEOREM NothingPlanted == Spec => []InBailiwick
<1>1. RecursiveInv => InBailiwick
  <2> SUFFICES ASSUME RecursiveInv PROVE InBailiwick
    OBVIOUS
  <2>1. ASSUME NEW z \in Name, cuts[z] # None, Outside(z) PROVE z \in Cuts /\ Genuine(z)
    BY <2>1 DEF RecursiveInv, CutsSound, CutSound, Genuine
  <2>2. \A n \in Name : Outside(n) => addrs[n] \subseteq {Host[n]}
    BY DEF RecursiveInv, AddrsSound
  <2>3. \A r \in Believed : Outside(r.owner) => r.type = "DS" \/ r \in Owned(r.owner)
    BY DEF RecursiveInv, OutSound, Truthful
  <2>4. DsFromParent
    <3>1. PICK S : stack \in Seq(S)
      BY DEF RecursiveInv, StackSound
    <3>2. DOMAIN stack = 1 .. Len(stack)
      BY <3>1
    <3> QED BY <3>2 DEF RecursiveInv, StackSound, FrameSound, DsFromParent
  <2> QED BY <2>1, <2>2, <2>3, <2>4 DEF InBailiwick
<1> QED BY <1>1, InitRecursiveInv, NextRecursiveInv, PTL DEF Spec

-----------------------------------------------------------------------------
(* The chain of trust.  Names: a prefix of a name is an ancestor.          *)
TrustLabels == UNION {Trust!Range(n) : n \in TrustName}

LEMMA TrustConstants ==
  /\ \A n \in TrustName : n \in Seq(TrustLabels) /\ Len(n) \in Nat
  /\ Trust!Root \in TrustName /\ Stranger \in TrustName /\ Hosts \subseteq TrustName
  /\ MaxKey \in Nat /\ Life \in Nat /\ Ttls \subseteq Nat /\ MaxTtl \in Nat /\ MaxChainQueries \in Nat
  /\ None \notin Trust!Verdict /\ None # "ad" /\ None # "plain"
<1>1. \A n \in TrustName : n \in Seq(TrustLabels)
  BY TrustAssumption DEF Trust!ChainConstants, TrustLabels
<1>2. \A n \in TrustName : Len(n) \in Nat
  BY <1>1
<1> QED BY <1>1, <1>2, TrustAssumption DEF Trust!ChainConstants

LEMMA AncestorIs ==
  \A n, z \in Seq(TrustLabels) :
    Trust!Within(n, z) <=> Len(z) <= Len(n) /\ \A i \in 1 .. Len(z) : z[i] = n[i]
<1> SUFFICES ASSUME NEW n \in Seq(TrustLabels), NEW z \in Seq(TrustLabels)
             PROVE  Trust!Within(n, z) <=> Len(z) <= Len(n) /\ \A i \in 1 .. Len(z) : z[i] = n[i]
  OBVIOUS
<1>1. ASSUME Len(z) <= Len(n)
      PROVE  SubSeq(z, 1, Len(z)) = SubSeq(n, 1, Len(z)) <=> \A i \in 1 .. Len(z) : z[i] = n[i]
  <2>1. SubSeq(z, 1, Len(z)) = [i \in 1 .. Len(z) |-> z[i]]
    OBVIOUS
  <2>2. SubSeq(n, 1, Len(z)) = [i \in 1 .. Len(z) |-> n[i]]
    BY <1>1
  <2> QED BY <2>1, <2>2
<1> QED BY <1>1 DEF Trust!Within, Trust!IsPrefix

LEMMA AncestorsOf ==
  ASSUME NEW n \in TrustName
  PROVE  /\ Trust!Prefixes(n) = {p \in TrustName : Trust!Within(n, p)}
         /\ \A k \in 0 .. Len(n) : /\ SubSeq(n, 1, k) \in TrustName /\ Trust!Within(n, SubSeq(n, 1, k))
                                   /\ Len(SubSeq(n, 1, k)) = k
<1>1. n \in Seq(TrustLabels) /\ Len(n) \in Nat
  BY TrustConstants
<1>2. Trust!Prefixes(n) = {SubSeq(n, 1, k) : k \in 0 .. Len(n)} /\ Trust!Prefixes(n) \subseteq TrustName
  BY TrustAssumption DEF Trust!ChainConstants, Trust!Prefixes
<1>3. ASSUME NEW k \in 0 .. Len(n)
      PROVE  /\ SubSeq(n, 1, k) \in TrustName /\ Trust!Within(n, SubSeq(n, 1, k))
             /\ Len(SubSeq(n, 1, k)) = k
  <2>1. PICK s : s = SubSeq(n, 1, k)
    OBVIOUS
  <2>2. s \in TrustName /\ s \in Seq(TrustLabels)
    BY <1>2, <2>1, TrustConstants
  <2>3. Len(s) = k /\ \A i \in 1 .. k : s[i] = n[i]
    BY <1>1, <2>1
  <2>4. Trust!Within(n, s)
    BY <1>1, <2>2, <2>3, AncestorIs
  <2> QED BY <2>1, <2>2, <2>3, <2>4
<1>4. ASSUME NEW p \in TrustName, Trust!Within(n, p) PROVE p \in Trust!Prefixes(n)
  <2>1. p \in Seq(TrustLabels) /\ Len(p) \in Nat
    BY TrustConstants
  <2>2. Len(p) <= Len(n) /\ \A i \in 1 .. Len(p) : p[i] = n[i]
    BY <1>1, <1>4, <2>1, AncestorIs
  <2>3. PICK s : s = SubSeq(n, 1, Len(p))
    OBVIOUS
  <2>4. s = [i \in 1 .. Len(p) |-> n[i]]
    BY <1>1, <2>1, <2>2, <2>3
  <2>5. p = [i \in 1 .. Len(p) |-> p[i]]
    BY <2>1
  <2>6. p = s
    BY <2>2, <2>4, <2>5
  <2> QED BY <1>2, <2>1, <2>2, <2>3, <2>6, <1>1
<1>5. \A p \in Trust!Prefixes(n) : Trust!Within(n, p)
  BY <1>2, <1>3
<1> QED BY <1>2, <1>3, <1>4, <1>5

LEMMA AncestorOrder ==
  \A n, a, b \in TrustName :
    /\ Trust!Within(n, n) /\ Trust!Within(n, Trust!Root)
    /\ Trust!Within(n, a) /\ Trust!Within(a, b) => Trust!Within(n, b)
    /\ Trust!Within(n, a) => Len(a) <= Len(n)
    /\ Trust!Within(n, a) /\ a # n => Len(a) < Len(n)
    /\ Trust!Within(n, a) /\ Trust!Within(n, b) /\ Len(a) <= Len(b) => Trust!Within(b, a)
<1> SUFFICES ASSUME NEW n \in TrustName, NEW a \in TrustName, NEW b \in TrustName
             PROVE  /\ Trust!Within(n, n) /\ Trust!Within(n, Trust!Root)
                    /\ Trust!Within(n, a) /\ Trust!Within(a, b) => Trust!Within(n, b)
                    /\ Trust!Within(n, a) => Len(a) <= Len(n)
                    /\ Trust!Within(n, a) /\ a # n => Len(a) < Len(n)
                    /\ Trust!Within(n, a) /\ Trust!Within(n, b) /\ Len(a) <= Len(b) => Trust!Within(b, a)
  OBVIOUS
<1>1. /\ n \in Seq(TrustLabels) /\ a \in Seq(TrustLabels) /\ b \in Seq(TrustLabels)
      /\ Len(n) \in Nat /\ Len(a) \in Nat /\ Len(b) \in Nat
  BY TrustConstants
<1>2. Trust!Within(n, n)
  BY <1>1, AncestorIs
<1>3. Trust!Within(n, Trust!Root)
  <2>1. PICK r \in Seq(TrustLabels) : r = Trust!Root /\ Len(r) = 0
    BY TrustConstants DEF Trust!Root
  <2>2. Len(r) <= Len(n) /\ \A i \in 1 .. Len(r) : r[i] = n[i]
    BY <1>1, <2>1
  <2> QED BY <1>1, <2>1, <2>2, AncestorIs
<1>4. Trust!Within(n, a) => Len(a) <= Len(n)
  BY <1>1, AncestorIs
<1>5. Trust!Within(n, a) /\ Trust!Within(a, b) => Trust!Within(n, b)
  BY <1>1, AncestorIs
<1>6. Trust!Within(n, a) /\ a # n => Len(a) < Len(n)
  <2> SUFFICES ASSUME Trust!Within(n, a), ~(Len(a) < Len(n)) PROVE a = n
    OBVIOUS
  <2>1. Len(a) = Len(n) /\ \A i \in 1 .. Len(a) : a[i] = n[i]
    BY <1>1, AncestorIs
  <2>2. a = [i \in 1 .. Len(a) |-> a[i]] /\ n = [i \in 1 .. Len(n) |-> n[i]]
    BY <1>1
  <2> QED BY <2>1, <2>2
<1>7. Trust!Within(n, a) /\ Trust!Within(n, b) /\ Len(a) <= Len(b) => Trust!Within(b, a)
  BY <1>1, AncestorIs
<1> QED BY <1>2, <1>3, <1>4, <1>5, <1>6, <1>7

(* Of some ancestors of a name, the deepest.                               *)
LEMMA DeepestIs ==
  ASSUME NEW n \in TrustName, NEW S \in SUBSET Trust!Prefixes(n), S # {}
  PROVE  Trust!Deepest(S) \in S
<1>1. \A p \in S : Len(p) \in Nat /\ Len(p) <= Len(n)
  BY AncestorsOf, AncestorOrder, TrustConstants
<1>2. \E c \in S : \A d \in S : Len(d) <= Len(c)
  BY <1>1, Longest, TrustConstants
<1> QED BY <1>2, Zenon DEF Trust!Deepest

-----------------------------------------------------------------------------
(* Chains.  More records in force, or a longer way down, never take away   *)
(* what a chain vouches for.                                               *)
LEMMA VouchedMore ==
  ASSUME NEW F, NEW more, F \subseteq more, NEW z, NEW k, Trust!Vouched(F, z, k)
  PROVE  Trust!Vouched(more, z, k)
<1>0. PICK S \in SUBSET Trust!Prefixes(z) : \E chn \in [S -> Trust!Keys] :
        z \in S /\ chn[z] = k /\ \A p \in S : Trust!Linked(F, chn, p)
  BY DEF Trust!Vouched
<1>1. PICK ch \in [S -> Trust!Keys] : z \in S /\ ch[z] = k /\ \A p \in S : Trust!Linked(F, ch, p)
  BY <1>0
<1>2. \A p \in S : Trust!Linked(more, ch, p)
  BY <1>1 DEF Trust!Linked
<1> QED BY <1>1, <1>2 DEF Trust!Vouched

LEMMA UnsignedMore ==
  ASSUME NEW F, NEW more, F \subseteq more, NEW n, Trust!Unsigned(F, n)
  PROVE  Trust!Unsigned(more, n)
BY VouchedMore DEF Trust!Unsigned

LEMMA UnsignedBelow ==
  ASSUME NEW F, NEW n \in TrustName, NEW a \in TrustName, Trust!Within(n, a), Trust!Unsigned(F, a)
  PROVE  Trust!Unsigned(F, n)
<1>1. Trust!Prefixes(a) \subseteq Trust!Prefixes(n)
  BY AncestorsOf, AncestorOrder
<1> QED BY <1>1 DEF Trust!Unsigned

(* The keys of the root, by a pinned one; those of a zone, by a DS that a  *)
(* zone above it signed.                                                   *)
LEMMA RootVouched ==
  ASSUME NEW F, NEW k \in Trust!Keys, NEW f \in F,
         f.kind = "DNSKEY", f.at = Trust!Root, f.about = k, f.key \in Trust!Pins
  PROVE  Trust!Vouched(F, Trust!Root, k)
<1>1. PICK ch : ch = [p \in {Trust!Root} |-> k]
  OBVIOUS
<1>2. Trust!Root \in Trust!Prefixes(Trust!Root)
  BY TrustConstants, AncestorsOf, AncestorOrder
<1>3. Trust!Linked(F, ch, Trust!Root)
  BY <1>1 DEF Trust!Linked
<1>4. ch \in [{Trust!Root} -> Trust!Keys] /\ ch[Trust!Root] = k
  BY <1>1
<1> QED BY <1>2, <1>3, <1>4 DEF Trust!Vouched

LEMMA DelegationVouched ==
  ASSUME NEW F, NEW z \in TrustName, NEW y \in TrustName, NEW k \in Trust!Keys, NEW j,
         Trust!Within(z, y), y # z, Trust!Vouched(F, y, j),
         NEW f \in F, f.kind = "DNSKEY", f.at = z, f.about = k,
         NEW d \in F, d.kind = "DS", d.val = "key", d.at = z, d.about = f.key, d.zone = y, d.key = j
  PROVE  Trust!Vouched(F, z, k)
<1>0. PICK S \in SUBSET Trust!Prefixes(y) : \E chn \in [S -> Trust!Keys] :
        y \in S /\ chn[y] = j /\ \A p \in S : Trust!Linked(F, chn, p)
  BY DEF Trust!Vouched
<1>1. PICK ch \in [S -> Trust!Keys] : y \in S /\ ch[y] = j /\ \A p \in S : Trust!Linked(F, ch, p)
  BY <1>0
<1>2. z \notin S
  <2>1. Len(y) < Len(z) /\ Len(y) \in Nat /\ Len(z) \in Nat
    BY AncestorOrder, TrustConstants
  <2>2. z \in S => Len(z) <= Len(y)
    BY <1>1, AncestorsOf, AncestorOrder
  <2> QED BY <2>1, <2>2
<1>3. PICK U : U = S \cup {z}
  OBVIOUS
<1>4. PICK c : c = [p \in U |-> IF p = z THEN k ELSE ch[p]]
  OBVIOUS
<1>5. c \in [U -> Trust!Keys] /\ DOMAIN c = U /\ c[z] = k /\ \A p \in S : c[p] = ch[p]
  BY <1>1, <1>2, <1>3, <1>4
<1>6. U \in SUBSET Trust!Prefixes(z)
  BY <1>1, <1>3, AncestorsOf, AncestorOrder
<1>7. ASSUME NEW p \in S PROVE Trust!Linked(F, c, p)
  <2>1. PICK g \in F :
          /\ g.kind = "DNSKEY" /\ g.at = p /\ g.about = ch[p]
          /\ \/ p = Trust!Root /\ g.key \in Trust!Pins
             \/ \E e \in F : /\ e.kind = "DS" /\ e.val = "key" /\ e.at = p /\ e.about = g.key
                             /\ e.zone \in S \ {p} /\ Trust!Within(p, e.zone) /\ ch[e.zone] = e.key
    BY <1>1 DEF Trust!Linked
  <2> QED BY <2>1, <1>3, <1>5 DEF Trust!Linked
<1>8. Trust!Linked(F, c, z)
  <2>1. d.zone \in DOMAIN c \ {z} /\ Trust!Within(z, d.zone) /\ c[d.zone] = d.key
    BY <1>1, <1>3, <1>5
  <2> QED BY <2>1, <1>5 DEF Trust!Linked
<1>9. \A p \in U : Trust!Linked(F, c, p)
  BY <1>3, <1>7, <1>8
<1> QED BY <1>3, <1>5, <1>6, <1>9 DEF Trust!Vouched

-----------------------------------------------------------------------------
(* What is signed.  A zone publishes its keys under themselves, and only   *)
(* the stranger signs data that is false, about names outside its zone.    *)
Statuses == {"nocut", "unsigned", "signed", "alien"}
Facts ==
  [kind : {"DS", "DNSKEY", "data"}, at : TrustName, val : {"key", "insecure", "alien", "nocut", "true", "false"},
   about : Trust!Keys, zone : TrustName, key : Trust!Keys]
FactSound(f) ==
  /\ f \in Facts
  /\ f.kind = "DS" => f.val \in {"key", "insecure", "alien", "nocut"}
  /\ f.kind = "DNSKEY" => f.zone = f.at /\ f.about = f.key
  /\ f.kind = "data" => f.val = "true" \/ (f.zone = Stranger /\ ~Trust!Within(f.at, Stranger))

Delegated(st) == st \in [TrustName -> Statuses] /\ st[Trust!Root] # "nocut"
WorldSound ==
  /\ now \in Nat /\ Delegated(stat) /\ key \in [TrustName -> Trust!Keys]
  /\ \A x \in past : FactSound(x.fact) /\ x.exp \in Nat /\ x.exp <= Trust!Lasts(x.fact)

LEMMA KeysAre ==
  /\ 0 \in Trust!Keys /\ 1 \in Trust!Keys /\ Trust!StrayKey \in Trust!Keys
  /\ \A k \in Trust!Keys : k < MaxKey => k + 1 \in Trust!Keys
BY TrustConstants DEF Trust!Keys, Trust!StrayKey

LEMMA EncloserIs ==
  ASSUME NEW st, Delegated(st), NEW n \in TrustName
  PROVE  Trust!Encloser(st, n) \in TrustName
<1>1. PICK cs : cs = {p \in Trust!Prefixes(n) : st[p] # "nocut"}
  OBVIOUS
<1>2. cs \subseteq TrustName /\ Trust!Root \in cs
  BY <1>1, AncestorsOf, AncestorOrder, TrustConstants DEF Delegated
<1>3. \A p \in cs : Len(p) \in Nat /\ Len(p) <= Len(n)
  BY <1>1, AncestorsOf, AncestorOrder, TrustConstants
<1>4. \E c \in cs : \A d \in cs : Len(d) <= Len(c)
  BY <1>2, <1>3, Longest, TrustConstants
<1>5. (CHOOSE z \in cs : \A y \in cs : Len(y) <= Len(z)) \in cs
  BY <1>4, Zenon
<1>6. Trust!Encloser(st, n) = CHOOSE z \in cs : \A y \in cs : Len(y) <= Len(z)
  BY <1>1 DEF Trust!Encloser
<1> QED BY <1>2, <1>5, <1>6

LEMMA ParentIs ==
  ASSUME NEW n \in TrustName, n # Trust!Root
  PROVE  Trust!Front(n) \in TrustName
<1>1. n \in Seq(TrustLabels) /\ Len(n) \in Nat
  BY TrustConstants
<1>2. Len(n) # 0
  BY <1>1 DEF Trust!Root
<1>3. Len(n) - 1 \in 0 .. Len(n)
  BY <1>1, <1>2
<1>4. SubSeq(n, 1, Len(n) - 1) \in TrustName
  BY <1>3, AncestorsOf
<1> QED BY <1>4 DEF Trust!Front

LEMMA PublishedSound ==
  ASSUME NEW st, Delegated(st), NEW ks \in [TrustName -> Trust!Keys], NEW f \in Trust!Published(st, ks)
  PROVE  FactSound(f)
<1>1. CASE f \in {Trust!Fact("DS", n, Trust!DsVal(st[n]), ks[n], Trust!Encloser(st, Trust!Front(n)),
                             ks[Trust!Encloser(st, Trust!Front(n))]) : n \in TrustName \ {Trust!Root}}
  <2>1. PICK n \in TrustName \ {Trust!Root} :
          f = Trust!Fact("DS", n, Trust!DsVal(st[n]), ks[n], Trust!Encloser(st, Trust!Front(n)),
                         ks[Trust!Encloser(st, Trust!Front(n))])
    BY <1>1
  <2>2. PICK z \in TrustName : z = Trust!Encloser(st, Trust!Front(n))
    BY ParentIs, EncloserIs
  <2>3. st[n] \in Statuses /\ ks[n] \in Trust!Keys /\ ks[z] \in Trust!Keys
    BY DEF Delegated
  <2>4. Trust!DsVal(st[n]) \in {"key", "insecure", "alien", "nocut"}
    BY <2>3 DEF Trust!DsVal, Statuses
  <2>5. PICK v \in {"key", "insecure", "alien", "nocut"} : v = Trust!DsVal(st[n])
    BY <2>4
  <2>6. f = [kind |-> "DS", at |-> n, val |-> v, about |-> ks[n], zone |-> z, key |-> ks[z]]
    BY <2>1, <2>2, <2>5 DEF Trust!Fact
  <2> QED BY <2>3, <2>6 DEF FactSound, Facts
<1>2. CASE f \in {Trust!Fact("DNSKEY", n, "key", ks[n], n, ks[n]) : n \in TrustName}
  BY <1>2 DEF Trust!Fact, FactSound, Facts
<1>3. CASE f \in {Trust!Fact("data", n, "true", 0, Trust!Encloser(st, n), ks[Trust!Encloser(st, n)]) : n \in Hosts}
  <2>1. PICK n \in Hosts : f = Trust!Fact("data", n, "true", 0, Trust!Encloser(st, n), ks[Trust!Encloser(st, n)])
    BY <1>3
  <2>2. n \in TrustName
    BY TrustConstants
  <2>3. PICK z \in TrustName : z = Trust!Encloser(st, n)
    BY <2>2, EncloserIs
  <2>4. f = [kind |-> "data", at |-> n, val |-> "true", about |-> 0, zone |-> z, key |-> ks[z]] /\ ks[z] \in Trust!Keys
    BY <2>1, <2>3 DEF Trust!Fact
  <2> QED BY <2>2, <2>4, KeysAre DEF FactSound, Facts
<1> QED BY <1>1, <1>2, <1>3 DEF Trust!Published

LEMMA StraySound ==
  ASSUME NEW f \in Trust!Stray
  PROVE  FactSound(f)
<1>1. CASE \E x \in {<<"data", "false">>, <<"DS", "insecure">>}, n \in {m \in TrustName \ {Trust!Root} : ~Trust!Within(m, Stranger)} :
             f = Trust!Fact(x[1], n, x[2], 0, Stranger, Trust!StrayKey)
  <2>1. PICK n \in TrustName : /\ ~Trust!Within(n, Stranger)
                               /\ \/ f = Trust!Fact("data", n, "false", 0, Stranger, Trust!StrayKey)
                                  \/ f = Trust!Fact("DS", n, "insecure", 0, Stranger, Trust!StrayKey)
    BY <1>1
  <2> QED BY <2>1, KeysAre, TrustConstants DEF Trust!Fact, FactSound, Facts
<1>2. CASE \E k \in {0, Trust!StrayKey} : f = Trust!Fact("DNSKEY", Trust!Root, "key", k, Trust!Root, k)
  BY <1>2, KeysAre, TrustConstants DEF Trust!Fact, FactSound, Facts
<1>3. CASE \E n \in TrustName \ {Trust!Root}, k \in {0, Trust!StrayKey} : f = Trust!Fact("DS", n, "insecure", 0, Trust!Root, k)
  BY <1>3, KeysAre, TrustConstants DEF Trust!Fact, FactSound, Facts
<1> QED BY <1>1, <1>2, <1>3 DEF Trust!Stray

LEMMA LastsIs ==
  ASSUME now \in Nat, NEW f, FactSound(f)
  PROVE  Trust!Lasts(f) \in Nat /\ Trust!Lasts(f) >= now
<1>1. Len(f.zone) \in Nat
  BY TrustConstants DEF FactSound, Facts
<1>2. PICK d \in Nat : d = Len(f.zone)
  BY <1>1
<1>3. Trust!Lasts(f) = now + Life + 2 * d
  BY <1>2 DEF Trust!Lasts
<1>4. Life \in Nat
  BY TrustConstants
<1> QED BY ONLY now \in Nat, d \in Nat, <1>3, <1>4

LEMMA EverSound ==
  ASSUME WorldSound, NEW x \in Trust!Ever
  PROVE  FactSound(x.fact) /\ x.exp \in Nat
<1>1. CASE x \in past
  BY <1>1 DEF WorldSound
<1>2. CASE \E f \in Trust!Published(stat, key) \cup Trust!Stray : x = [fact |-> f, exp |-> Trust!Lasts(f)]
  <2>1. PICK f \in Trust!Published(stat, key) \cup Trust!Stray : x = [fact |-> f, exp |-> Trust!Lasts(f)]
    BY <1>2
  <2>2. FactSound(f)
    BY PublishedSound, StraySound DEF WorldSound
  <2>3. Trust!Lasts(f) \in Nat
    BY <2>2, LastsIs DEF WorldSound
  <2> QED BY <2>1, <2>2, <2>3
<1> QED BY <1>1, <1>2 DEF Trust!Ever

(* What is in force for longer is in force before.                         *)
LEMMA InForceEarlier ==
  ASSUME WorldSound, NEW t \in Nat, NEW u \in Nat, t <= u
  PROVE  Trust!InForce(u) \subseteq Trust!InForce(t)
<1>1. \A x \in Trust!Ever : x.exp \in Nat
  BY EverSound
<1> QED BY <1>1 DEF Trust!InForce

(* A change of the zones, or time, leaves what was signed: it can be       *)
(* replayed for as long as before.                                         *)
Grows == \A t \in Nat : Trust!InForce(t) \subseteq Trust!InForce(t)'

LEMMA ChangeGrows ==
  ASSUME WorldSound, NEW st, NEW ks, Delegated(st), ks \in [TrustName -> Trust!Keys], Trust!Change(st, ks)
  PROVE  WorldSound' /\ Grows
<1>1. /\ stat' = st /\ key' = ks /\ now' = now
      /\ past' = {x \in past : x.fact \notin Trust!Published(st, ks)} \cup
                 {[fact |-> f, exp |-> Trust!Lasts(f)] : f \in Trust!Published(stat, key) \ Trust!Published(st, ks)}
  BY DEF Trust!Change
<1>2. \A f : Trust!Lasts(f)' = Trust!Lasts(f)
  BY <1>1 DEF Trust!Lasts
<1>3. PICK P : P = Trust!Published(stat, key)
  OBVIOUS
<1>4. PICK Q : Q = Trust!Published(st, ks)
  OBVIOUS
<1>5. Trust!Published(stat, key)' = Q
  BY <1>1, <1>4
<1>6. PICK Old : Old = past
  OBVIOUS
<1>7. \A x \in Old : FactSound(x.fact) /\ x.exp \in Nat /\ x.exp <= Trust!Lasts(x.fact)
  BY <1>6 DEF WorldSound
<1>8. ASSUME NEW f \in P PROVE FactSound(f) /\ Trust!Lasts(f) \in Nat
  BY <1>3, PublishedSound, LastsIs DEF WorldSound
<1>9. WorldSound'
  <2>1. ASSUME NEW x \in past' PROVE FactSound(x.fact) /\ x.exp \in Nat /\ x.exp <= Trust!Lasts(x.fact)'
    <3>1. CASE x \in Old
      BY <1>2, <1>7, <3>1
    <3>2. CASE \E f \in P : x = [fact |-> f, exp |-> Trust!Lasts(f)]
      <4>1. PICK f \in P : x = [fact |-> f, exp |-> Trust!Lasts(f)]
        BY <3>2
      <4>2. x.exp \in Nat /\ x.exp = Trust!Lasts(x.fact) /\ FactSound(x.fact)
        BY <4>1, <1>8
      <4> QED BY <4>2, <1>2
    <3> QED BY <1>1, <1>3, <1>6, <3>1, <3>2
  <2> QED BY <1>1, <2>1 DEF WorldSound
<1>10. ASSUME NEW t \in Nat, NEW g \in Trust!InForce(t) PROVE g \in Trust!InForce(t)'
  <2>1. PICK x \in Trust!Ever : g = x.fact /\ x.exp >= t
    BY <1>10 DEF Trust!InForce
  <2>2. ASSUME NEW y \in Trust!Ever', y.fact = g, y.exp >= t PROVE g \in Trust!InForce(t)'
    BY <2>2 DEF Trust!InForce
  <2>3. ASSUME g \in Q, NEW u \in Nat, u <= Trust!Lasts(g), u >= t, Trust!Lasts(g) \in Nat PROVE g \in Trust!InForce(t)'
    <3>1. PICK y : y = [fact |-> g, exp |-> Trust!Lasts(g)]
      OBVIOUS
    <3>2. y \in Trust!Ever'
      BY <1>2, <1>5, <2>3, <3>1 DEF Trust!Ever
    <3>3. y.exp >= t
      BY <2>3, <3>1
    <3> QED BY <2>2, <3>1, <3>2, <3>3
  <2>4. CASE x \in Old
    <3>1. FactSound(g) /\ x.exp \in Nat /\ x.exp <= Trust!Lasts(g) /\ Trust!Lasts(g) \in Nat
      BY <1>7, <2>1, <2>4, LastsIs DEF WorldSound
    <3>2. CASE g \in Q
      BY <2>1, <2>3, <3>1, <3>2
    <3>3. CASE g \notin Q
      <4>1. x \in past'
        BY <1>1, <1>4, <1>6, <2>1, <2>4, <3>3
      <4> QED BY <4>1, <2>1, <2>2 DEF Trust!Ever
    <3> QED BY <3>2, <3>3
  <2>5. CASE g \in P /\ x = [fact |-> g, exp |-> Trust!Lasts(g)]
    <3>1. Trust!Lasts(g) \in Nat /\ x.exp = Trust!Lasts(g)
      BY <1>8, <2>5
    <3>2. CASE g \in Q
      BY <2>1, <2>3, <3>1, <3>2
    <3>3. CASE g \notin Q
      <4>1. x \in past'
        BY <1>1, <1>3, <1>4, <2>5, <3>3
      <4> QED BY <4>1, <2>1, <2>2 DEF Trust!Ever
    <3> QED BY <3>2, <3>3
  <2>6. CASE g \in Trust!Stray /\ x = [fact |-> g, exp |-> Trust!Lasts(g)]
    <3>1. x \in Trust!Ever'
      BY <1>2, <2>6 DEF Trust!Ever
    <3> QED BY <3>1, <2>1, <2>2
  <2>7. x \in past \/ \E f \in Trust!Published(stat, key) \cup Trust!Stray : x = [fact |-> f, exp |-> Trust!Lasts(f)]
    BY DEF Trust!Ever
  <2> QED BY <2>1, <2>4, <2>5, <2>6, <2>7, <1>3, <1>6
<1> QED BY <1>9, <1>10 DEF Grows

LEMMA TimeGrows ==
  ASSUME WorldSound, Trust!Tick
  PROVE  WorldSound' /\ Grows
<1>1. now' = now + 1 /\ UNCHANGED <<stat, key, past>> /\ now \in Nat
  BY DEF Trust!Tick, Trust!world, WorldSound
<1>2. ASSUME NEW f, FactSound(f) PROVE Trust!Lasts(f)' = Trust!Lasts(f) + 1 /\ Trust!Lasts(f) \in Nat
  <2>1. Len(f.zone) \in Nat
    BY <1>2, TrustConstants DEF FactSound, Facts
  <2>2. PICK d \in Nat : d = Len(f.zone)
    BY <2>1
  <2>3. Trust!Lasts(f) = now + Life + 2 * d
    BY <2>2 DEF Trust!Lasts
  <2>4. Trust!Lasts(f)' = now' + Life + 2 * d
    BY <2>2 DEF Trust!Lasts
  <2>5. Life \in Nat
    BY TrustConstants
  <2> QED BY ONLY <1>1, d \in Nat, <2>3, <2>4, <2>5
<1>3. WorldSound'
  <2>1. ASSUME NEW x \in past PROVE FactSound(x.fact) /\ x.exp \in Nat /\ x.exp <= Trust!Lasts(x.fact)'
    <3>1. FactSound(x.fact) /\ x.exp \in Nat /\ x.exp <= Trust!Lasts(x.fact)
      BY DEF WorldSound
    <3> QED BY <3>1, <1>2
  <2> QED BY <1>1, <2>1 DEF WorldSound
<1>4. ASSUME NEW t \in Nat, NEW g \in Trust!InForce(t) PROVE g \in Trust!InForce(t)'
  <2>1. PICK x \in Trust!Ever : g = x.fact /\ x.exp >= t
    BY <1>4 DEF Trust!InForce
  <2>2. x.exp \in Nat /\ FactSound(g)
    BY <2>1, EverSound
  <2>3. CASE x \in past
    BY <1>1, <2>1, <2>3 DEF Trust!InForce, Trust!Ever
  <2>4. CASE g \in Trust!Published(stat, key) \cup Trust!Stray /\ x = [fact |-> g, exp |-> Trust!Lasts(g)]
    <3>1. PICK y : y = [fact |-> g, exp |-> Trust!Lasts(g)']
      OBVIOUS
    <3>2. y \in Trust!Ever'
      BY <1>1, <2>4, <3>1 DEF Trust!Ever
    <3>3. y.exp >= t
      BY <1>2, <2>1, <2>2, <2>4, <3>1
    <3> QED BY <3>1, <3>2, <3>3 DEF Trust!InForce
  <2>5. x \in past \/ \E f \in Trust!Published(stat, key) \cup Trust!Stray : x = [fact |-> f, exp |-> Trust!Lasts(f)]
    BY DEF Trust!Ever
  <2> QED BY <2>1, <2>3, <2>4, <2>5
<1> QED BY <1>3, <1>4 DEF Grows

-----------------------------------------------------------------------------
(* What the validator remembers and holds in hand, and until when it is    *)
(* vouched for.                                                            *)
VerdictSound(n, e) ==
  /\ e \in Trust!Verdict
  /\ e.st = "secure" => Trust!Within(n, e.zone) /\ \A k \in e.keys : Trust!Vouched(Trust!InForce(e.exp), e.zone, k)
  /\ e.st = "insecure" => Trust!Unsigned(Trust!InForce(e.exp), n)

StateSound ==
  /\ state \in [TrustName -> Trust!Verdict \cup {None}]
  /\ \A n \in TrustName : state[n] # None => VerdictSound(n, state[n])

KeyOf(z, k, f) == f.kind = "DNSKEY" /\ f.at = z /\ f.about = k /\ f.key = k
KeysCached ==
  /\ keys \in [TrustName \X Trust!Keys -> Nat]
  /\ \A z \in TrustName, k \in Trust!Keys :
       keys[<<z, k>>] > 0 => \E f \in Trust!InForce(keys[<<z, k>>]) : KeyOf(z, k, f)

HopsSound(hops) ==
  /\ Len(hops) \in Nat /\ DOMAIN hops = 1 .. Len(hops)
  /\ \A j \in 1 .. Len(hops) :
       /\ hops[j].owner \in TrustName
       /\ hops[j].got # None => FactSound(hops[j].got.fact) /\ hops[j].got.fact.kind = "data"
                                /\ hops[j].got.fact.at = hops[j].owner

EarnedBy(h, t) ==
  /\ h.got # None /\ h.got.fact.val = "true"
  /\ Trust!Within(h.owner, h.got.fact.zone)
  /\ Trust!Vouched(Trust!InForce(t), h.got.fact.zone, h.got.fact.key)

(* Of the RRsets before the i-th.                                          *)
SoFar(hops, i, result, t) ==
  /\ result \in {"secure", "insecure"}
  /\ result = "secure" => \A j \in 1 .. i - 1 : EarnedBy(hops[j], t)
  /\ result = "insecure" => \E j \in 1 .. i - 1 : Trust!Unsigned(Trust!InForce(t), hops[j].owner)

FrameOf(t) ==
  /\ t = [hops |-> t.hops, i |-> t.i, result |-> t.result, began |-> t.began, target |-> t.target,
          queries |-> t.queries, pc |-> t.pc, at |-> t.at, cur |-> t.cur, ds |-> t.ds, exp |-> t.exp]
  /\ HopsSound(t.hops) /\ t.i \in 1 .. Len(t.hops)
  /\ t.began \in Nat /\ t.began <= now
  /\ SoFar(t.hops, t.i, t.result, t.began)
  /\ t.target \in TrustName /\ t.at \in TrustName
  /\ Trust!Within(t.hops[t.i].owner, t.target) /\ Trust!Within(t.target, t.at)

(* The keys asked for are the root's, or those a DS of a zone above names. *)
RootStage(t) == t.at = Trust!Root /\ t.cur = None /\ t.ds \subseteq Trust!Pins
ZoneStage(t) ==
  /\ t.cur \in Trust!Verdict /\ t.cur.exp >= t.began
  /\ Trust!Within(t.at, t.cur.zone) /\ t.at # t.cur.zone
  /\ \A k \in t.cur.keys : Trust!Vouched(Trust!InForce(t.cur.exp), t.cur.zone, k)
  /\ \A k \in t.ds : \E d \in Trust!InForce(t.exp) :
       /\ d.kind = "DS" /\ d.val = "key" /\ d.at = t.at /\ d.about = k
       /\ d.zone = t.cur.zone /\ d.key \in t.cur.keys
StageOf(t, pc) ==
  /\ pc \in {"walk", "ds", "keys", "dnskey"}
  /\ pc \in {"walk", "ds"} => VerdictSound(t.at, t.cur) /\ t.cur.exp >= t.began
  /\ pc = "ds" => t.cur.st = "secure" /\ t.at # t.target
  /\ pc \in {"keys", "dnskey"} => /\ t.exp \in Nat /\ t.exp >= t.began /\ t.ds \subseteq Trust!Keys
                                  /\ RootStage(t) \/ ZoneStage(t)
TaskSound(t) == FrameOf(t) /\ StageOf(t, t.pc)

TrustInv ==
  /\ WorldSound /\ anchors \subseteq Trust!Pins /\ KeysCached /\ StateSound
  /\ task # None => TaskSound(task) /\ verdict \notin {"ad", "plain"}

-----------------------------------------------------------------------------
(* It stays so when more is in force.                                      *)
LEMMA VerdictGrows ==
  ASSUME Grows, NEW n, NEW e, VerdictSound(n, e)
  PROVE  VerdictSound(n, e)'
<1>1. e.exp \in Nat
  BY DEF VerdictSound, Trust!Verdict
<1>2. PICK F : F = Trust!InForce(e.exp)
  OBVIOUS
<1>3. PICK more : more = Trust!InForce(e.exp)'
  OBVIOUS
<1>4. F \subseteq more
  BY <1>1, <1>2, <1>3 DEF Grows
<1>5. e.st = "secure" => \A k \in e.keys : Trust!Vouched(more, e.zone, k)
  BY <1>2, <1>4, VouchedMore DEF VerdictSound
<1>6. e.st = "insecure" => Trust!Unsigned(more, n)
  BY <1>2, <1>4, UnsignedMore DEF VerdictSound
<1> QED BY <1>3, <1>5, <1>6 DEF VerdictSound

LEMMA EarnedGrows ==
  ASSUME Grows, NEW t \in Nat
  PROVE  /\ \A h : EarnedBy(h, t) => EarnedBy(h, t)'
         /\ \A n : Trust!Unsigned(Trust!InForce(t), n) => Trust!Unsigned(Trust!InForce(t), n)'
<1>2. PICK F : F = Trust!InForce(t)
  OBVIOUS
<1>3. PICK more : more = Trust!InForce(t)'
  OBVIOUS
<1>4. F \subseteq more
  BY <1>2, <1>3 DEF Grows
<1>5. \A z, k : Trust!Vouched(F, z, k) => Trust!Vouched(more, z, k)
  BY <1>4, VouchedMore
<1>6. \A n : Trust!Unsigned(F, n) => Trust!Unsigned(more, n)
  BY <1>4, UnsignedMore
<1>7. \A h : EarnedBy(h, t) => EarnedBy(h, t)'
  BY <1>2, <1>3, <1>5 DEF EarnedBy
<1>8. \A n : Trust!Unsigned(Trust!InForce(t), n) => Trust!Unsigned(Trust!InForce(t), n)'
  BY <1>2, <1>3, <1>6
<1> QED BY <1>7, <1>8

LEMMA SoFarGrows ==
  ASSUME Grows, NEW t \in Nat, NEW hops, NEW i, NEW result, SoFar(hops, i, result, t)
  PROVE  SoFar(hops, i, result, t)'
BY EarnedGrows DEF SoFar

LEMMA TaskGrows ==
  ASSUME Grows, now \in Nat, now' \in Nat, now <= now', NEW t, TaskSound(t)
  PROVE  TaskSound(t)'
<1>1. t.began \in Nat /\ t.began <= now'
  BY DEF TaskSound, FrameOf
<1>2. SoFar(t.hops, t.i, t.result, t.began)'
  BY <1>1, SoFarGrows DEF TaskSound, FrameOf
<1>3. FrameOf(t)'
  BY <1>1, <1>2 DEF TaskSound, FrameOf, HopsSound
<1>4. VerdictSound(t.at, t.cur) => VerdictSound(t.at, t.cur)'
  BY VerdictGrows
<1>5. ASSUME t.exp \in Nat, ZoneStage(t) PROVE ZoneStage(t)'
  <2>1. t.cur.exp \in Nat
    BY <1>5 DEF ZoneStage, Trust!Verdict
  <2>2. PICK F : F = Trust!InForce(t.cur.exp)
    OBVIOUS
  <2>3. PICK more : more = Trust!InForce(t.cur.exp)'
    OBVIOUS
  <2>4. F \subseteq more
    BY <2>1, <2>2, <2>3 DEF Grows
  <2>5. \A k \in t.cur.keys : Trust!Vouched(more, t.cur.zone, k)
    BY <1>5, <2>2, <2>4, VouchedMore DEF ZoneStage
  <2>6. Trust!InForce(t.exp) \subseteq Trust!InForce(t.exp)'
    BY <1>5 DEF Grows
  <2> QED BY <1>5, <2>3, <2>5, <2>6 DEF ZoneStage
<1>6. StageOf(t, t.pc)'
  BY <1>4, <1>5 DEF TaskSound, StageOf, RootStage
<1> QED BY <1>3, <1>6 DEF TaskSound

LEMMA KeysGrow ==
  ASSUME Grows, KeysCached, UNCHANGED keys
  PROVE  KeysCached'
<1>1. ASSUME NEW z \in TrustName, NEW k \in Trust!Keys, keys[<<z, k>>] > 0
      PROVE  \E f \in Trust!InForce(keys[<<z, k>>])' : KeyOf(z, k, f)
  <2>1. PICK t \in Nat : t = keys[<<z, k>>]
    BY DEF KeysCached
  <2>2. PICK f \in Trust!InForce(t) : KeyOf(z, k, f)
    BY <1>1, <2>1 DEF KeysCached
  <2>3. f \in Trust!InForce(t)'
    BY <2>2 DEF Grows
  <2>4. Trust!InForce(keys[<<z, k>>])' = Trust!InForce(t)'
    BY <2>1 DEF Trust!InForce
  <2> QED BY <2>2, <2>3, <2>4
<1> QED BY <1>1 DEF KeysCached

(* The zones change, or time passes.                                       *)
LEMMA OutsideKeeps ==
  ASSUME TrustInv, WorldSound', Grows, now <= now', UNCHANGED <<anchors, state, keys, task, verdict>>
  PROVE  TrustInv'
<1>1. KeysCached'
  BY KeysGrow DEF TrustInv
<1>2. StateSound'
  <2>1. ASSUME NEW n \in TrustName, state[n] # None PROVE VerdictSound(n, state[n])'
    <3>1. PICK e : e = state[n]
      OBVIOUS
    <3>2. VerdictSound(n, e)'
      BY <2>1, <3>1, VerdictGrows DEF TrustInv, StateSound
    <3>3. state[n]' = e
      BY <3>1
    <3> QED BY <3>2, <3>3 DEF VerdictSound
  <2> QED BY <2>1 DEF TrustInv, StateSound
<1>3. ASSUME task # None PROVE TaskSound(task)'
  <2>1. PICK t : t = task
    OBVIOUS
  <2>2. TaskSound(t)'
    BY <1>3, <2>1, TaskGrows DEF TrustInv, WorldSound
  <2>3. task' = t
    BY <2>1
  <2> QED BY <2>2, <2>3 DEF TaskSound, FrameOf, StageOf, RootStage, ZoneStage, VerdictSound, SoFar
<1> QED BY <1>1, <1>2, <1>3 DEF TrustInv

-----------------------------------------------------------------------------
(* The validator's own steps leave the world as it is.                     *)
LEMMA WorldAside ==
  ASSUME WorldSound, UNCHANGED <<now, Trust!world>>
  PROVE  WorldSound' /\ Grows
<1>1. UNCHANGED <<now, stat, key, past>>
  BY DEF Trust!world
<1>2. UNCHANGED Trust!Ever /\ \A f : Trust!Lasts(f)' = Trust!Lasts(f)
  BY <1>1 DEF Trust!Ever, Trust!Lasts
<1> QED BY <1>1, <1>2 DEF WorldSound, Grows, Trust!InForce

(* A verdict about a name holds of what is below it, and for less time.    *)
LEMMA VerdictBelow ==
  ASSUME NEW n \in TrustName, NEW a \in TrustName, Trust!Within(n, a), NEW e, VerdictSound(a, e)
  PROVE  VerdictSound(n, e)
<1>1. e.st = "secure" => e.zone \in TrustName /\ Trust!Within(n, e.zone)
  BY AncestorOrder DEF VerdictSound, Trust!Verdict
<1>2. e.st = "insecure" => Trust!Unsigned(Trust!InForce(e.exp), n)
  BY UnsignedBelow DEF VerdictSound
<1> QED BY <1>1, <1>2 DEF VerdictSound

LEMMA VouchedEarlier ==
  ASSUME WorldSound, NEW t \in Nat, NEW u \in Nat, t <= u, NEW z, NEW k,
         Trust!Vouched(Trust!InForce(u), z, k)
  PROVE  Trust!Vouched(Trust!InForce(t), z, k)
BY InForceEarlier, VouchedMore

LEMMA UnsignedEarlier ==
  ASSUME WorldSound, NEW t \in Nat, NEW u \in Nat, t <= u, NEW n,
         Trust!Unsigned(Trust!InForce(u), n)
  PROVE  Trust!Unsigned(Trust!InForce(t), n)
BY InForceEarlier, UnsignedMore

(* _trust_via_signer begins at the deepest name it remembers, or the root. *)
LEMMA EnterKeeps ==
  ASSUME TrustInv, UNCHANGED <<now, Trust!world, anchors, keys>>,
         NEW hops, HopsSound(hops), NEW i \in 1 .. Len(hops), NEW began \in Nat, began <= now,
         NEW result, SoFar(hops, i, result, began), Trust!Enter(hops, i, result, began)
  PROVE  StateSound' /\ \E t : task' = t /\ TaskSound(t)'
<1>1. PICK target \in Trust!Targets(hops[i]) :
        /\ state' = Trust!Purged(target)
        /\ task' = [hops |-> hops, i |-> i, result |-> result, began |-> began, target |-> target,
                    queries |-> MaxChainQueries,
                    pc  |-> IF Trust!Known(target) = {} THEN "keys" ELSE "walk",
                    at  |-> IF Trust!Known(target) = {} THEN Trust!Root ELSE Trust!Deepest(Trust!Known(target)),
                    cur |-> IF Trust!Known(target) = {} THEN None ELSE state[Trust!Deepest(Trust!Known(target))],
                    ds  |-> IF Trust!Known(target) = {} THEN anchors ELSE {},
                    exp |-> IF Trust!Known(target) = {} THEN now + MaxTtl ELSE 0]
  BY DEF Trust!Enter
<1>2. hops[i].owner \in TrustName
  BY DEF HopsSound
<1>3. target \in TrustName /\ Trust!Within(hops[i].owner, target)
  BY <1>2, AncestorsOf DEF Trust!Targets
<1>4. WorldSound' /\ Grows /\ now' = now
  BY WorldAside DEF TrustInv
<1>5. StateSound'
  <2>1. state' \in [TrustName -> Trust!Verdict \cup {None}]
        /\ \A n \in TrustName : state'[n] # None => state'[n] = state[n]
    BY <1>1 DEF TrustInv, StateSound, Trust!Purged
  <2>2. ASSUME NEW n \in TrustName, state'[n] # None PROVE VerdictSound(n, state[n])'
    <3>1. PICK e : e = state[n]
      OBVIOUS
    <3>2. VerdictSound(n, e)'
      BY <1>4, <2>1, <2>2, <3>1, VerdictGrows DEF TrustInv, StateSound
    <3>3. state'[n] = e
      BY <2>1, <2>2, <3>1
    <3> QED BY <3>2, <3>3 DEF VerdictSound
  <2> QED BY <2>1, <2>2 DEF StateSound
<1>6. now \in Nat /\ MaxTtl \in Nat /\ anchors \subseteq Trust!Pins /\ Trust!Pins \subseteq Trust!Keys
  BY TrustConstants, KeysAre DEF TrustInv, WorldSound, Trust!Pins
<1>7. PICK t : t = task'
  OBVIOUS
<1>8. CASE Trust!Known(target) = {}
  <2>1. t = [hops |-> hops, i |-> i, result |-> result, began |-> began, target |-> target,
             queries |-> MaxChainQueries, pc |-> "keys", at |-> Trust!Root, cur |-> None,
             ds |-> anchors, exp |-> now + MaxTtl]
    BY <1>1, <1>7, <1>8
  <2>2. FrameOf(t)
    BY <1>3, <2>1, AncestorOrder, TrustConstants DEF FrameOf
  <2>3. StageOf(t, t.pc)
    BY <1>6, <2>1 DEF StageOf, RootStage
  <2> QED BY <1>4, <1>5, <1>6, <1>7, <2>2, <2>3, TaskGrows DEF TaskSound
<1>9. CASE Trust!Known(target) # {}
  <2>1. PICK n : n = Trust!Deepest(Trust!Known(target))
    OBVIOUS
  <2>2. n \in Trust!Known(target)
    BY <1>3, <1>9, <2>1, DeepestIs DEF Trust!Known
  <2>3. n \in TrustName /\ Trust!Within(target, n) /\ Trust!Live(n)
    BY <1>3, <2>2, AncestorsOf DEF Trust!Known
  <2>4. VerdictSound(n, state[n]) /\ state[n].exp \in Nat /\ state[n].exp > now
    BY <2>3 DEF TrustInv, StateSound, VerdictSound, Trust!Live, Trust!Verdict
  <2>5. t = [hops |-> hops, i |-> i, result |-> result, began |-> began, target |-> target,
             queries |-> MaxChainQueries, pc |-> "walk", at |-> n, cur |-> state[n], ds |-> {}, exp |-> 0]
    BY <1>1, <1>7, <1>9, <2>1
  <2>6. FrameOf(t)
    BY <1>3, <2>3, <2>5 DEF FrameOf
  <2>7. StageOf(t, t.pc)
    BY <1>6, <2>4, <2>5 DEF StageOf
  <2> QED BY <1>4, <1>5, <1>6, <1>7, <2>6, <2>7, TaskGrows DEF TaskSound
<1> QED BY <1>8, <1>9

(* The validation of an answer begins (_apply_validation).                 *)
LEMMA BeginKeeps ==
  ASSUME TrustInv, NEW a \in Answers, Trust!Begin(a)
  PROVE  TrustInv' /\ Trust!TrustIsEarned
<1>1. /\ task = None /\ verdict' = None /\ UNCHANGED <<now, Trust!world, anchors, keys>>
  BY DEF Trust!Begin
<1>2. PICK got \in [1 .. Len(a) -> {None} \cup {e \in Trust!Ever : e.fact.kind = "data"}] :
        /\ \A i \in 1 .. Len(a) : got[i] # None => got[i].fact.at = a[i]
        /\ Trust!Enter([i \in 1 .. Len(a) |-> [owner |-> a[i], got |-> got[i]]], 1, "secure", now)
  BY DEF Trust!Begin
<1>3. PICK hops : hops = [i \in 1 .. Len(a) |-> [owner |-> a[i], got |-> got[i]]]
  OBVIOUS
<1>4. a \in Seq(TrustName) /\ Len(a) \in Nat /\ a # <<>>
  BY TrustAssumption DEF Trust!ChainConstants
<1>5. Len(a) >= 1
  BY <1>4
<1>6. Len(hops) = Len(a) /\ DOMAIN hops = 1 .. Len(a)
  BY <1>3, <1>4
<1>7. HopsSound(hops)
  <2>1. ASSUME NEW j \in 1 .. Len(a)
        PROVE  /\ hops[j].owner \in TrustName
               /\ hops[j].got # None => FactSound(hops[j].got.fact) /\ hops[j].got.fact.kind = "data"
                                        /\ hops[j].got.fact.at = hops[j].owner
    <3>1. hops[j].owner = a[j] /\ hops[j].got = got[j] /\ a[j] \in TrustName
      BY <1>3, <1>4
    <3>2. got[j] # None => got[j] \in Trust!Ever /\ got[j].fact.kind = "data" /\ got[j].fact.at = a[j]
      BY <1>2
    <3>3. got[j] # None => FactSound(got[j].fact)
      BY <3>2, EverSound DEF TrustInv
    <3> QED BY <3>1, <3>2, <3>3
  <2> QED BY <1>4, <1>6, <2>1 DEF HopsSound
<1>8. 1 \in 1 .. Len(hops) /\ SoFar(hops, 1, "secure", now) /\ now \in Nat
  BY <1>4, <1>5, <1>6 DEF SoFar, TrustInv, WorldSound
<1>9. StateSound' /\ \E t : task' = t /\ TaskSound(t)'
  <2>1. PICK began \in Nat : began = now
    BY <1>8
  <2>2. SoFar(hops, 1, "secure", began) /\ Trust!Enter(hops, 1, "secure", began)
    BY <1>2, <1>3, <1>8, <2>1
  <2>3. began <= now
    BY <2>1
  <2> QED BY <1>1, <1>7, <1>8, <2>2, <2>3, EnterKeeps
<1>11. TaskSound(task)'
  <2>1. PICK t : task' = t /\ TaskSound(t)'
    BY <1>9
  <2> QED BY <2>1 DEF TaskSound, FrameOf, StageOf, RootStage, ZoneStage, VerdictSound, SoFar
<1>10. WorldSound' /\ KeysCached'
  BY <1>1, WorldAside, KeysGrow DEF TrustInv
<1> QED BY <1>1, <1>9, <1>10, <1>11, TrustConstants DEF TrustInv, Trust!TrustIsEarned

(* A verdict on the RRset at hand, and on the answer so far.               *)
LEMMA JudgedKeeps ==
  ASSUME TrustInv, UNCHANGED <<now, Trust!world, anchors, keys>>,
         task # None, NEW r \in {"secure", "insecure", "bogus"}, Trust!Judged(r),
         r = "secure" => EarnedBy(Trust!Hop, task.began),
         r = "insecure" => Trust!Unsigned(Trust!InForce(task.began), Trust!Hop.owner)
  PROVE  TrustInv' /\ Trust!TrustIsEarned
<1>1. PICK t : t = task
  OBVIOUS
<1>2. TaskSound(t) /\ verdict \notin {"ad", "plain"}
  BY <1>1 DEF TrustInv
<1>3. Trust!Hop = t.hops[t.i]
  BY <1>1 DEF Trust!Hop
<1>4. /\ HopsSound(t.hops) /\ t.i \in 1 .. Len(t.hops) /\ Len(t.hops) \in Nat /\ DOMAIN t.hops = 1 .. Len(t.hops)
      /\ t.began \in Nat /\ t.began <= now /\ SoFar(t.hops, t.i, t.result, t.began)
  BY <1>2 DEF TaskSound, FrameOf, HopsSound
<1>5. PICK sofar : sofar = IF r = "bogus" \/ t.result = "secure" THEN r ELSE t.result
  OBVIOUS
<1>6. /\ sofar = "secure" => \A j \in 1 .. t.i : EarnedBy(t.hops[j], t.began)
      /\ sofar = "insecure" => \E j \in 1 .. t.i : Trust!Unsigned(Trust!InForce(t.began), t.hops[j].owner)
      /\ sofar \in {"secure", "insecure", "bogus"}
  <2>0. \A j \in 1 .. t.i : j \in 1 .. t.i - 1 \/ j = t.i
    BY <1>4
  <2>1. sofar = "secure" => r = "secure" /\ t.result = "secure"
    BY <1>4, <1>5 DEF SoFar
  <2>2. sofar = "insecure" => r = "insecure" \/ t.result = "insecure"
    BY <1>4, <1>5 DEF SoFar
  <2>3. sofar = "secure" => \A j \in 1 .. t.i : EarnedBy(t.hops[j], t.began)
    BY <1>1, <1>3, <1>4, <2>0, <2>1 DEF SoFar
  <2>4. \A j \in 1 .. t.i - 1 : j \in 1 .. t.i
    BY <1>4
  <2>5. t.i \in 1 .. t.i
    BY <1>4
  <2>6. sofar = "insecure" => \E j \in 1 .. t.i : Trust!Unsigned(Trust!InForce(t.began), t.hops[j].owner)
    BY <1>1, <1>3, <1>4, <2>2, <2>4, <2>5 DEF SoFar
  <2> QED BY <1>4, <1>5, <2>3, <2>6 DEF SoFar
<1>7. WorldSound' /\ Grows /\ KeysCached'
  BY WorldAside, KeysGrow DEF TrustInv
<1>8. CASE sofar = "bogus" \/ t.i = Len(t.hops)
  <2>1. /\ \E cd \in BOOLEAN :
             verdict' = CASE sofar = "secure" -> "ad" [] sofar = "insecure" -> "plain"
                          [] OTHER -> IF cd THEN "cd" ELSE "servfail"
        /\ task' = None /\ UNCHANGED state
    BY <1>1, <1>5, <1>8 DEF Trust!Judged
  <2>2. verdict' = "ad" => sofar = "secure"
    BY <2>1, <1>6
  <2>3. verdict' = "plain" => sofar = "insecure"
    BY <2>1, <1>6
  <2>4. StateSound'
    <3>1. ASSUME NEW n \in TrustName, state[n] # None PROVE VerdictSound(n, state[n])'
      <4>1. PICK e : e = state[n]
        OBVIOUS
      <4>2. VerdictSound(n, e)'
        BY <1>7, <3>1, <4>1, VerdictGrows DEF TrustInv, StateSound
      <4> QED BY <2>1, <4>1, <4>2 DEF VerdictSound
    <3> QED BY <2>1, <3>1 DEF TrustInv, StateSound
  <2>5. verdict' = "ad" => \A i \in DOMAIN task.hops : Trust!Earned(task.hops[i])
    <3> SUFFICES ASSUME verdict' = "ad", NEW i \in DOMAIN task.hops PROVE Trust!Earned(task.hops[i])
      OBVIOUS
    <3>1. t.i = Len(t.hops) /\ i \in 1 .. t.i
      BY <1>1, <1>4, <1>8, <2>2
    <3>2. EarnedBy(t.hops[i], t.began)
      BY <3>1, <1>6, <2>2
    <3> QED BY <1>1, <3>2 DEF EarnedBy, Trust!Earned
  <2>6. verdict' = "plain" => \E i \in DOMAIN task.hops : Trust!Unsigned(Trust!InForce(task.began), task.hops[i].owner)
    BY <1>1, <1>4, <1>6, <1>8, <2>3
  <2> QED BY <1>7, <2>1, <2>4, <2>5, <2>6 DEF TrustInv, Trust!TrustIsEarned
<1>9. CASE sofar # "bogus" /\ t.i # Len(t.hops)
  <2>1. Trust!Enter(t.hops, t.i + 1, sofar, t.began) /\ UNCHANGED verdict
    BY <1>1, <1>5, <1>9 DEF Trust!Judged
  <2>2. PICK i : i = t.i + 1
    OBVIOUS
  <2>3. i \in 1 .. Len(t.hops) /\ i - 1 = t.i
    BY <1>4, <1>9, <2>2
  <2>4. SoFar(t.hops, i, sofar, t.began)
    BY <1>6, <1>9, <2>3 DEF SoFar
  <2>5. Trust!Enter(t.hops, i, sofar, t.began)
    BY <2>1, <2>2
  <2>6. StateSound' /\ \E u : task' = u /\ TaskSound(u)'
    BY <1>4, <2>3, <2>4, <2>5, EnterKeeps
  <2>7. TaskSound(task)'
    <3>1. PICK u : task' = u /\ TaskSound(u)'
      BY <2>6
    <3> QED BY <3>1 DEF TaskSound, FrameOf, StageOf, RootStage, ZoneStage, VerdictSound, SoFar
  <2> QED BY <1>2, <1>7, <2>1, <2>6, <2>7 DEF TrustInv, Trust!TrustIsEarned
<1> QED BY <1>8, <1>9

LEMMA RaiseKeeps ==
  ASSUME TrustInv, UNCHANGED <<now, Trust!world, anchors, keys>>, task # None, Trust!Raise
  PROVE  TrustInv' /\ Trust!TrustIsEarned
BY JudgedKeeps DEF Trust!Raise

(* One step of a task that goes on, with what it stored.                   *)
LEMMA TaskMoves ==
  ASSUME TrustInv, task # None, UNCHANGED <<now, Trust!world, anchors, verdict>>,
         KeysCached', StateSound', NEW t, task' = t, TaskSound(t)
  PROVE  TrustInv' /\ Trust!TrustIsEarned
<1>1. WorldSound' /\ Grows /\ now' = now
  BY WorldAside DEF TrustInv
<1>2. TaskSound(t)'
  BY <1>1, TaskGrows DEF TrustInv, WorldSound
<1>3. TaskSound(task)'
  BY <1>2 DEF TaskSound, FrameOf, StageOf, RootStage, ZoneStage, VerdictSound, SoFar
<1> QED BY <1>1, <1>3 DEF TrustInv, Trust!TrustIsEarned

LEMMA StateAside ==
  ASSUME TrustInv, UNCHANGED <<now, Trust!world, state>>
  PROVE  StateSound'
<1>1. Grows
  BY WorldAside DEF TrustInv
<1>2. ASSUME NEW n \in TrustName, state[n] # None PROVE VerdictSound(n, state[n])'
  <2>1. PICK e : e = state[n]
    OBVIOUS
  <2>2. VerdictSound(n, e)'
    BY <1>1, <1>2, <2>1, VerdictGrows DEF TrustInv, StateSound
  <2> QED BY <2>1, <2>2 DEF VerdictSound
<1> QED BY <1>2 DEF TrustInv, StateSound

(* One more question of the validation, out of its budget (_Work).         *)
LEMMA AsksKeeps ==
  ASSUME TrustInv, task # None, UNCHANGED <<now, Trust!world, anchors, keys>>,
         NEW pc, StageOf(task, pc), Trust!Asks(pc)
  PROVE  TrustInv' /\ Trust!TrustIsEarned
<1>1. CASE task.queries = 0
  BY <1>1, RaiseKeeps DEF Trust!Asks
<1>2. CASE task.queries # 0
  <2>1. PICK t : t = task
    OBVIOUS
  <2>2. task' = [t EXCEPT !.pc = pc, !.queries = @ - 1] /\ UNCHANGED <<state, verdict>>
    BY <1>2, <2>1 DEF Trust!Asks
  <2>3. FrameOf(t) /\ StageOf(t, pc)
    BY <2>1 DEF TrustInv, TaskSound
  <2>4. PICK u : u = [t EXCEPT !.pc = pc, !.queries = @ - 1]
    OBVIOUS
  <2>5. u = [hops |-> t.hops, i |-> t.i, result |-> t.result, began |-> t.began, target |-> t.target,
             queries |-> t.queries - 1, pc |-> pc, at |-> t.at, cur |-> t.cur, ds |-> t.ds, exp |-> t.exp]
    BY <2>3, <2>4 DEF FrameOf
  <2>6. FrameOf(u) /\ StageOf(u, u.pc)
    BY <2>3, <2>5 DEF FrameOf, StageOf, RootStage, ZoneStage
  <2>7. StateSound' /\ KeysCached'
    BY <2>2, StateAside, KeysGrow, WorldAside DEF TrustInv
  <2> QED BY <2>2, <2>4, <2>6, <2>7, TaskMoves DEF TaskSound
<1> QED BY <1>1, <1>2

(* The verdict on one more name is remembered, and the walk goes on.       *)
LEMMA SettleKeeps ==
  ASSUME TrustInv, task # None, UNCHANGED <<now, Trust!world, anchors>>, KeysCached',
         NEW n \in TrustName, Trust!Within(task.target, n),
         NEW e, VerdictSound(n, e), e.exp >= task.began, Trust!Settle(n, e)
  PROVE  TrustInv' /\ Trust!TrustIsEarned
<1>1. PICK t : t = task
  OBVIOUS
<1>2. /\ task' = [t EXCEPT !.pc = "walk", !.at = n, !.cur = e, !.ds = {}, !.exp = 0]
      /\ state' = Trust!Stored(n, e) /\ UNCHANGED verdict
  BY <1>1 DEF Trust!Settle
<1>3. FrameOf(t)
  BY <1>1 DEF TrustInv, TaskSound
<1>4. PICK u : u = [t EXCEPT !.pc = "walk", !.at = n, !.cur = e, !.ds = {}, !.exp = 0]
  OBVIOUS
<1>5. u = [hops |-> t.hops, i |-> t.i, result |-> t.result, began |-> t.began, target |-> t.target,
           queries |-> t.queries, pc |-> "walk", at |-> n, cur |-> e, ds |-> {}, exp |-> 0]
  BY <1>3, <1>4 DEF FrameOf
<1>6. FrameOf(u) /\ StageOf(u, u.pc)
  BY <1>1, <1>3, <1>5 DEF FrameOf, StageOf
<1>7. StateSound'
  <2>1. Grows
    BY WorldAside DEF TrustInv
  <2>2. e \in Trust!Verdict
    BY DEF VerdictSound
  <2>3. /\ state' \in [TrustName -> Trust!Verdict \cup {None}]
        /\ \A m \in TrustName : state'[m] = state[m] \/ (m = n /\ state'[m] = e)
    BY <1>2, <2>2 DEF Trust!Stored, TrustInv, StateSound
  <2>4. ASSUME NEW m \in TrustName, state'[m] # None PROVE VerdictSound(m, state[m])'
    <3>1. PICK x : x = state'[m]
      OBVIOUS
    <3>2. VerdictSound(m, x)
      BY <2>3, <2>4, <3>1 DEF TrustInv, StateSound
    <3>3. VerdictSound(m, x)'
      BY <2>1, <3>2, VerdictGrows
    <3> QED BY <3>1, <3>3 DEF VerdictSound
  <2> QED BY <2>3, <2>4 DEF StateSound
<1> QED BY <1>2, <1>4, <1>6, <1>7, TaskMoves DEF TaskSound

(* The next name on the way down.                                          *)
LEMMA BelowIs ==
  ASSUME NEW t, FrameOf(t), t.at # t.target,
         NEW b, b = SubSeq(t.target, 1, Len(t.at) + 1)
  PROVE  /\ b \in TrustName /\ Trust!Within(t.target, b) /\ Trust!Within(b, t.at) /\ b # Trust!Root
         /\ \A z \in TrustName : Trust!Within(t.at, z) => Trust!Within(b, z) /\ b # z
<1>1. t.target \in TrustName /\ t.at \in TrustName /\ Trust!Within(t.target, t.at)
  BY DEF FrameOf
<1>2. PICK n \in TrustName, a \in TrustName : n = t.target /\ a = t.at
  BY <1>1
<1>3. Len(n) \in Nat /\ Len(a) \in Nat /\ Len(a) < Len(n)
  BY <1>1, <1>2, TrustConstants, AncestorOrder
<1>4. Len(a) + 1 \in 0 .. Len(n)
  BY <1>3
<1>5. b \in TrustName /\ Trust!Within(n, b) /\ Len(b) = Len(a) + 1
  BY <1>2, <1>4, AncestorsOf
<1>6. Trust!Within(b, a)
  <2>1. Len(a) <= Len(b)
    BY <1>3, <1>5
  <2>2. n \in TrustName /\ a \in TrustName /\ b \in TrustName /\ Trust!Within(n, b) /\ Trust!Within(n, a)
    BY <1>1, <1>2, <1>5
  <2> QED BY ONLY <2>1, <2>2, AncestorOrder
<1>7. ASSUME NEW z \in TrustName, Trust!Within(a, z) PROVE Trust!Within(b, z) /\ b # z
  <2>1. Len(z) <= Len(a) /\ Len(z) \in Nat
    BY <1>7, TrustConstants, AncestorOrder
  <2>2. Trust!Within(b, z)
    BY <1>5, <1>6, <1>7, AncestorOrder
  <2> QED BY <1>3, <1>5, <2>1, <2>2
<1>8. b # Trust!Root
  BY <1>7, AncestorOrder, TrustConstants
<1> QED BY <1>1, <1>2, <1>5, <1>6, <1>7, <1>8

(* _trust_via_signer from one name to the next, and the judgement at the   *)
(* last: what the zone there signed is about a name of its own, so even    *)
(* the stranger tells the truth.                                           *)
LEMMA WalkKeeps ==
  ASSUME TrustInv, Trust!Walk
  PROVE  TrustInv' /\ Trust!TrustIsEarned
<1>1. task # None /\ task.pc = "walk" /\ UNCHANGED <<now, Trust!world, anchors, keys>>
  BY DEF Trust!Walk
<1>2. PICK t : t = task
  OBVIOUS
<1>3. FrameOf(t) /\ VerdictSound(t.at, t.cur) /\ t.cur.exp >= t.began /\ t.cur \in Trust!Verdict /\ t.cur.exp \in Nat
      /\ t.began \in Nat
  BY <1>1, <1>2 DEF TrustInv, TaskSound, StageOf, VerdictSound, Trust!Verdict, FrameOf
<1>4. PICK h : h = t.hops[t.i]
  OBVIOUS
<1>5. /\ h = Trust!Hop /\ h.owner \in TrustName /\ Trust!Within(h.owner, t.target)
      /\ t.target \in TrustName /\ t.at \in TrustName
      /\ h.got # None => FactSound(h.got.fact) /\ h.got.fact.kind = "data" /\ h.got.fact.at = h.owner
  BY <1>2, <1>3, <1>4 DEF FrameOf, HopsSound, Trust!Hop
<1>6. VerdictSound(h.owner, t.cur) \/ t.at # t.target
  BY <1>3, <1>5, VerdictBelow
<1>7. CASE t.at = t.target /\ t.cur.st # "secure" /\ Trust!Judged("insecure")
  <2>1. Trust!Unsigned(Trust!InForce(t.cur.exp), h.owner)
    BY <1>3, <1>6, <1>7 DEF VerdictSound, Trust!Verdict
  <2>2. Trust!Unsigned(Trust!InForce(t.began), h.owner)
    BY <1>3, <2>1, UnsignedEarlier DEF TrustInv
  <2> QED BY <1>1, <1>2, <1>5, <1>7, <2>2, JudgedKeeps
<1>8. CASE /\ t.at = t.target /\ t.cur.st = "secure"
           /\ Trust!Verifies(h.got, t.cur.zone, t.cur.keys) /\ Trust!Judged("secure")
  <2>1. h.got # None /\ h.got.fact.zone = t.cur.zone /\ h.got.fact.key \in t.cur.keys
    BY <1>8 DEF Trust!Verifies, Trust!SignedBy
  <2>2. /\ Trust!Within(h.owner, t.cur.zone)
        /\ Trust!Vouched(Trust!InForce(t.cur.exp), t.cur.zone, h.got.fact.key)
    BY <1>6, <1>8, <2>1 DEF VerdictSound
  <2>3. h.got.fact.val = "true"
    BY <1>5, <2>1, <2>2 DEF FactSound
  <2>4. Trust!Vouched(Trust!InForce(t.began), h.got.fact.zone, h.got.fact.key)
    BY <1>3, <2>1, <2>2, VouchedEarlier DEF TrustInv
  <2>5. EarnedBy(Trust!Hop, task.began)
    BY <1>2, <1>5, <2>1, <2>2, <2>3, <2>4 DEF EarnedBy
  <2> QED BY <1>1, <1>8, <2>5, JudgedKeeps
<1>9. CASE Trust!Judged("bogus")
  BY <1>1, <1>9, RaiseKeeps DEF Trust!Raise
<1>10. CASE t.at # t.target /\ t.cur.st # "secure" /\ Trust!Settle(Trust!Below, t.cur)
  <2>1. PICK b : b = SubSeq(t.target, 1, Len(t.at) + 1)
    OBVIOUS
  <2>2. b = Trust!Below
    BY <1>2, <2>1 DEF Trust!Below
  <2>3. b \in TrustName /\ Trust!Within(t.target, b) /\ Trust!Within(b, t.at)
    BY <1>3, <1>10, <2>1, BelowIs
  <2>4. VerdictSound(b, t.cur)
    BY <1>3, <1>5, <2>3, VerdictBelow
  <2>5. KeysCached'
    BY <1>1, KeysGrow, WorldAside DEF TrustInv
  <2> QED BY <1>1, <1>2, <1>3, <1>10, <2>2, <2>3, <2>4, <2>5, SettleKeeps
<1>11. CASE t.at # t.target /\ t.cur.st = "secure" /\ Trust!Asks("ds")
  <2>1. StageOf(task, "ds")
    BY <1>2, <1>3, <1>11 DEF StageOf
  <2> QED BY <1>1, <1>11, <2>1, AsksKeeps
<1> QED BY <1>2, <1>5, <1>7, <1>8, <1>9, <1>10, <1>11 DEF Trust!Walk

(* What the zone reached says of the next cut (_delegation).               *)
LEMMA ReplyIs ==
  ASSUME WorldSound, NEW n, NEW kind, NEW e \in Trust!Replies(n, kind), NEW z, NEW ks, NEW ttl \in Ttls,
         Trust!Verifies(e, z, ks)
  PROVE  /\ e # None /\ FactSound(e.fact) /\ e.fact.kind = kind /\ e.fact.at = n
         /\ e.fact.zone = z /\ e.fact.key \in ks
         /\ Trust!Expiry(e, ttl) \in Nat /\ Trust!Expiry(e, ttl) >= now
         /\ \A t \in Nat : t <= Trust!Expiry(e, ttl) => e.fact \in Trust!InForce(t)
<1>1. /\ e # None /\ e \in Trust!Ever /\ e.fact.kind = kind /\ e.fact.at = n /\ e.fact.zone = z
      /\ e.fact.key \in ks /\ now <= e.exp
  BY DEF Trust!Replies, Trust!Verifies, Trust!SignedBy, Trust!WithinValidity
<1>2. FactSound(e.fact) /\ e.exp \in Nat
  BY <1>1, EverSound
<1>3. now \in Nat /\ ttl \in Nat /\ MaxTtl \in Nat
  BY TrustConstants DEF WorldSound
<1>4. PICK x : x = e.exp
  OBVIOUS
<1>5. /\ Trust!Expiry(e, ttl) \in Nat /\ Trust!Expiry(e, ttl) >= now /\ Trust!Expiry(e, ttl) <= e.exp
  <2>1. PICK r : r = Trust!Expiry(e, ttl)
    OBVIOUS
  <2>2. r = LET until == IF x < now + ttl THEN x ELSE now + ttl IN
            IF until < now + MaxTtl THEN until ELSE now + MaxTtl
    BY <1>4, <2>1 DEF Trust!Expiry
  <2>3. r \in Nat /\ r >= now /\ r <= x
    BY ONLY <1>1, <1>2, <1>3, <1>4, <2>2
  <2> QED BY <1>4, <2>1, <2>3
<1>6. ASSUME NEW t \in Nat, t <= Trust!Expiry(e, ttl) PROVE e.fact \in Trust!InForce(t)
  <2>1. e.exp >= t
    BY <1>2, <1>5, <1>6
  <2> QED BY <1>1, <2>1 DEF Trust!InForce
<1> QED BY <1>1, <1>2, <1>5, <1>6

LEMMA LeastIs ==
  \A a, b \in Nat : Trust!Least(a, b) \in Nat /\ Trust!Least(a, b) <= a /\ Trust!Least(a, b) <= b
                    /\ \A c \in Nat : c <= a /\ c <= b => c <= Trust!Least(a, b)
BY DEF Trust!Least

LEMMA DsReplyKeeps ==
  ASSUME TrustInv, Trust!DsReply
  PROVE  TrustInv' /\ Trust!TrustIsEarned
<1>1. task # None /\ task.pc = "ds" /\ UNCHANGED <<now, Trust!world, anchors, keys>>
  BY DEF Trust!DsReply
<1>2. PICK t : t = task
  OBVIOUS
<1>3. /\ FrameOf(t) /\ VerdictSound(t.at, t.cur) /\ t.cur.exp >= t.began /\ t.cur.st = "secure" /\ t.at # t.target
      /\ t.cur \in Trust!Verdict /\ t.cur.exp \in Nat /\ t.cur.zone \in TrustName
      /\ t.cur.keys \subseteq Trust!Keys /\ t.began \in Nat /\ t.began <= now /\ now \in Nat /\ t.cur # None
  BY <1>1, <1>2, TrustConstants
     DEF TrustInv, WorldSound, TaskSound, StageOf, VerdictSound, Trust!Verdict, FrameOf
<1>4. PICK b : b = SubSeq(t.target, 1, Len(t.at) + 1)
  OBVIOUS
<1>5. b = Trust!Below
  BY <1>2, <1>4 DEF Trust!Below
<1>6. /\ b \in TrustName /\ Trust!Within(t.target, b) /\ Trust!Within(b, t.at)
      /\ Trust!Within(b, t.cur.zone) /\ b # t.cur.zone
  <2>1. Trust!Within(t.at, t.cur.zone)
    BY <1>3 DEF VerdictSound
  <2>2. FrameOf(t) /\ t.at # t.target /\ t.cur.zone \in TrustName
    BY <1>3
  <2>3. /\ b \in TrustName /\ Trust!Within(t.target, b) /\ Trust!Within(b, t.at)
        /\ \A z \in TrustName : Trust!Within(t.at, z) => Trust!Within(b, z) /\ b # z
    BY ONLY <1>4, <2>2, BelowIs
  <2> QED BY ONLY <2>1, <2>2, <2>3
<1>7. KeysCached' /\ WorldSound
  BY <1>1, KeysGrow, WorldAside DEF TrustInv
<1>8. PICK e \in Trust!Replies(b, "DS"), ttl \in Ttls :
       IF ~Trust!Verifies(e, t.cur.zone, t.cur.keys) THEN Trust!Raise
       ELSE LET exp == Trust!Expiry(e, ttl) IN
            CASE e.fact.val = "key" ->
                   /\ task' = [t EXCEPT !.pc = "keys", !.at = b, !.ds = {e.fact.about}, !.exp = exp]
                   /\ UNCHANGED <<state, verdict>>
              [] e.fact.val \in {"alien", "insecure"} ->
                   Trust!Settle(b, Trust!Fresher(Trust!Entry(exp, "insecure", b, {})))
              [] e.fact.val = "nocut" ->
                   Trust!Settle(b, Trust!Fresher(Trust!Entry(exp, "secure", t.cur.zone, t.cur.keys)))
  BY <1>2, <1>5 DEF Trust!DsReply
<1>9. CASE ~Trust!Verifies(e, t.cur.zone, t.cur.keys)
  BY <1>1, <1>8, <1>9, RaiseKeeps
<1>10. CASE Trust!Verifies(e, t.cur.zone, t.cur.keys)
  <2>1. PICK exp : exp = Trust!Expiry(e, ttl)
    OBVIOUS
  <2>2. /\ FactSound(e.fact) /\ e.fact.kind = "DS" /\ e.fact.at = b
        /\ e.fact.zone = t.cur.zone /\ e.fact.key \in t.cur.keys
        /\ exp \in Nat /\ exp >= now
        /\ \A u \in Nat : u <= exp => e.fact \in Trust!InForce(u)
    BY <1>7, <1>10, <2>1, ReplyIs
  <2>3. CASE e.fact.val = "key"
    <3>1. task' = [t EXCEPT !.pc = "keys", !.at = b, !.ds = {e.fact.about}, !.exp = exp] /\ UNCHANGED <<state, verdict>>
      BY <1>8, <1>10, <2>1, <2>3
    <3>2. PICK u : u = [t EXCEPT !.pc = "keys", !.at = b, !.ds = {e.fact.about}, !.exp = exp]
      OBVIOUS
    <3>3. u = [hops |-> t.hops, i |-> t.i, result |-> t.result, began |-> t.began, target |-> t.target,
               queries |-> t.queries, pc |-> "keys", at |-> b, cur |-> t.cur, ds |-> {e.fact.about}, exp |-> exp]
      BY <1>3, <3>2 DEF FrameOf
    <3>4. FrameOf(u)
      BY <1>3, <1>6, <3>3 DEF FrameOf
    <3>5. e.fact \in Trust!InForce(exp) /\ e.fact.about \in Trust!Keys /\ exp >= t.began
      BY <1>3, <2>2 DEF FactSound, Facts
    <3>6. \A k \in t.cur.keys : Trust!Vouched(Trust!InForce(t.cur.exp), t.cur.zone, k)
      BY <1>3 DEF VerdictSound
    <3>7. ZoneStage(u)
      BY <1>3, <1>6, <2>2, <2>3, <3>3, <3>5, <3>6 DEF ZoneStage
    <3>8. StageOf(u, u.pc)
      BY <2>2, <3>3, <3>5, <3>7 DEF StageOf
    <3>9. StateSound'
      BY <1>1, <3>1, StateAside
    <3> QED BY <1>1, <1>7, <3>1, <3>2, <3>4, <3>8, <3>9, TaskMoves DEF TaskSound
  <2>4. PICK until : until = Trust!Least(exp, t.cur.exp)
    OBVIOUS
  <2>5. until \in Nat /\ until <= exp /\ until <= t.cur.exp /\ until >= t.began
    <3>1. exp >= t.began
      BY <1>3, <2>2
    <3> QED BY <1>3, <2>2, <2>4, <3>1, LeastIs
  <2>6. CASE e.fact.val \in {"alien", "insecure"}
    <3>1. Trust!Settle(b, Trust!Fresher(Trust!Entry(exp, "insecure", b, {})))
      BY <1>8, <1>10, <2>1, <2>6
    <3>2. PICK x : x = [exp |-> until, st |-> "insecure", zone |-> b, keys |-> {}]
      OBVIOUS
    <3>3. Trust!Fresher(Trust!Entry(exp, "insecure", b, {})) = x
      BY <1>2, <1>3, <2>4, <3>2 DEF Trust!Fresher, Trust!Entry
    <3>4. Trust!Unsigned(Trust!InForce(until), b)
      <4>1. PICK f \in Trust!InForce(until) : f = e.fact
        BY <2>2, <2>5
      <4>2. b \in Trust!Prefixes(b)
        BY <1>6, AncestorsOf, AncestorOrder
      <4>3. Trust!Vouched(Trust!InForce(t.cur.exp), f.zone, f.key)
        BY <1>3, <2>2, <4>1 DEF VerdictSound
      <4>4. Trust!Vouched(Trust!InForce(until), f.zone, f.key)
        BY <1>3, <1>7, <2>5, <4>3, VouchedEarlier
      <4>5. f.kind = "DS" /\ f.at = b /\ f.val \in {"alien", "insecure"} /\ f.zone # b /\ Trust!Within(b, f.zone)
        BY <1>6, <2>2, <2>6, <4>1
      <4> QED BY <4>2, <4>4, <4>5 DEF Trust!Unsigned
    <3>5. VerdictSound(b, x) /\ x.exp >= t.began
      BY <1>6, <2>5, <3>2, <3>4 DEF VerdictSound, Trust!Verdict
    <3> QED BY <1>1, <1>2, <1>6, <1>7, <3>1, <3>3, <3>5, SettleKeeps
  <2>7. CASE e.fact.val = "nocut"
    <3>1. Trust!Settle(b, Trust!Fresher(Trust!Entry(exp, "secure", t.cur.zone, t.cur.keys)))
      BY <1>8, <1>10, <2>1, <2>7
    <3>2. PICK x : x = [exp |-> until, st |-> "secure", zone |-> t.cur.zone, keys |-> t.cur.keys]
      OBVIOUS
    <3>3. Trust!Fresher(Trust!Entry(exp, "secure", t.cur.zone, t.cur.keys)) = x
      BY <1>2, <1>3, <2>4, <3>2 DEF Trust!Fresher, Trust!Entry
    <3>4. \A k \in t.cur.keys : Trust!Vouched(Trust!InForce(until), t.cur.zone, k)
      <4>1. \A k \in t.cur.keys : Trust!Vouched(Trust!InForce(t.cur.exp), t.cur.zone, k)
        BY <1>3 DEF VerdictSound
      <4> QED BY <1>3, <1>7, <2>5, <4>1, VouchedEarlier
    <3>5. VerdictSound(b, x) /\ x.exp >= t.began
      BY <1>3, <1>6, <2>5, <3>2, <3>4 DEF VerdictSound, Trust!Verdict
    <3> QED BY <1>1, <1>2, <1>6, <1>7, <3>1, <3>3, <3>5, SettleKeeps
  <2> QED BY <2>2, <2>3, <2>6, <2>7 DEF FactSound
<1> QED BY <1>9, <1>10

(* The keys of a zone, signed with one that its DS set, or the anchors,    *)
(* name (_keys_exp).                                                       *)
LEMMA AnchoredKeeps ==
  ASSUME TrustInv, task # None, task.pc \in {"keys", "dnskey"}, UNCHANGED <<now, Trust!world, anchors>>, KeysCached',
         NEW k \in Trust!Keys, k \in task.ds, NEW exp \in Nat, exp >= now,
         NEW f \in Trust!InForce(exp), KeyOf(task.at, k, f), Trust!Anchored(k, exp)
  PROVE  TrustInv' /\ Trust!TrustIsEarned
<1>1. PICK t : t = task
  OBVIOUS
<1>2. /\ FrameOf(t) /\ t.at \in TrustName /\ t.target \in TrustName /\ Trust!Within(t.target, t.at)
      /\ t.exp \in Nat /\ t.exp >= t.began /\ t.began \in Nat /\ t.began <= now /\ now \in Nat
      /\ RootStage(t) \/ ZoneStage(t)
  BY <1>1 DEF TrustInv, WorldSound, TaskSound, StageOf, FrameOf
<1>3. exp >= t.began /\ WorldSound
  BY <1>2 DEF TrustInv
<1>4. PICK until : until = Trust!Least(exp, t.exp)
  OBVIOUS
<1>5. until \in Nat /\ until <= exp /\ until <= t.exp /\ until >= t.began
  BY <1>2, <1>3, <1>4, LeastIs
<1>6. PICK x : x = [exp |-> until, st |-> "secure", zone |-> t.at, keys |-> {k}]
  OBVIOUS
<1>7. Trust!Settle(t.at, Trust!Fresher(x))
  BY <1>1, <1>4, <1>6 DEF Trust!Anchored, Trust!Entry
<1>8. f.kind = "DNSKEY" /\ f.at = t.at /\ f.about = k /\ f.key = k
  BY <1>1 DEF KeyOf
<1>9. Trust!Within(t.at, t.at)
  BY <1>2, AncestorOrder
<1>10. CASE RootStage(t)
  <2>1. t.at = Trust!Root /\ t.cur = None /\ k \in Trust!Pins
    BY <1>1, <1>10 DEF RootStage
  <2>2. Trust!Fresher(x) = x
    BY <1>1, <2>1 DEF Trust!Fresher
  <2>3. f \in Trust!InForce(until)
    BY <1>3, <1>5, InForceEarlier
  <2>4. Trust!Vouched(Trust!InForce(until), Trust!Root, k)
    BY <1>8, <2>1, <2>3, RootVouched
  <2>5. VerdictSound(t.at, x) /\ x.exp >= t.began
    BY <1>2, <1>5, <1>6, <1>9, <2>1, <2>4 DEF VerdictSound, Trust!Verdict
  <2> QED BY <1>1, <1>2, <1>7, <2>2, <2>5, SettleKeeps
<1>11. CASE ZoneStage(t)
  <2>1. /\ t.cur \in Trust!Verdict /\ t.cur.exp \in Nat /\ t.cur.exp >= t.began /\ t.cur # None
        /\ t.cur.zone \in TrustName /\ Trust!Within(t.at, t.cur.zone) /\ t.at # t.cur.zone
    BY <1>11, TrustConstants DEF ZoneStage, Trust!Verdict
  <2>2. PICK d \in Trust!InForce(t.exp) :
          /\ d.kind = "DS" /\ d.val = "key" /\ d.at = t.at /\ d.about = k
          /\ d.zone = t.cur.zone /\ d.key \in t.cur.keys
    BY <1>1, <1>11 DEF ZoneStage
  <2>3. PICK soon : soon = Trust!Least(until, t.cur.exp)
    OBVIOUS
  <2>4. soon \in Nat /\ soon <= until /\ soon <= t.cur.exp /\ soon >= t.began /\ soon <= exp /\ soon <= t.exp
    <3>1. PICK c : c = t.cur.exp
      OBVIOUS
    <3>2. soon \in Nat /\ soon <= until /\ soon <= c /\ \A u \in Nat : u <= until /\ u <= c => u <= soon
      BY <1>5, <2>1, <2>3, <3>1, LeastIs
    <3>3. soon >= t.began
      BY <1>2, <1>5, <2>1, <3>1, <3>2
    <3>4. soon <= exp /\ soon <= t.exp
      BY <1>2, <1>5, <3>2
    <3> QED BY <3>1, <3>2, <3>3, <3>4
  <2>5. PICK y : y = [exp |-> soon, st |-> "secure", zone |-> t.at, keys |-> {k}]
    OBVIOUS
  <2>6. Trust!Fresher(x) = y
    <3>1. Trust!Fresher(x) = [x EXCEPT !.exp = Trust!Least(@, t.cur.exp)]
      BY <1>1, <2>1 DEF Trust!Fresher
    <3> QED BY ONLY <1>6, <2>3, <2>5, <3>1
  <2>7. f \in Trust!InForce(soon) /\ d \in Trust!InForce(soon)
    BY <1>2, <1>3, <2>4, InForceEarlier
  <2>8. Trust!Vouched(Trust!InForce(soon), t.cur.zone, d.key)
    <3>1. Trust!Vouched(Trust!InForce(t.cur.exp), t.cur.zone, d.key)
      BY <1>11, <2>2 DEF ZoneStage
    <3> QED BY <1>3, <2>1, <2>4, <3>1, VouchedEarlier
  <2>9. Trust!Vouched(Trust!InForce(soon), t.at, k)
    BY <1>2, <1>8, <2>1, <2>2, <2>7, <2>8, DelegationVouched
  <2>10. VerdictSound(t.at, y) /\ y.exp >= t.began
    BY <1>2, <1>9, <2>4, <2>5, <2>9 DEF VerdictSound, Trust!Verdict
  <2> QED BY <1>1, <1>2, <1>7, <2>6, <2>10, SettleKeeps
<1> QED BY <1>2, <1>10, <1>11

LEMMA KeysForKeeps ==
  ASSUME TrustInv, Trust!KeysFor
  PROVE  TrustInv' /\ Trust!TrustIsEarned
<1>1. task # None /\ task.pc = "keys" /\ UNCHANGED <<now, Trust!world, anchors, keys>>
  BY DEF Trust!KeysFor
<1>2. PICK t : t = task
  OBVIOUS
<1>3. t.at \in TrustName /\ t.ds \subseteq Trust!Keys /\ StageOf(t, "keys")
  BY <1>1, <1>2 DEF TrustInv, TaskSound, StageOf, FrameOf
<1>4. PICK held : held = {k \in t.ds : keys[<<t.at, k>>] > now}
  OBVIOUS
<1>5. IF held # {} THEN \E k \in held : Trust!Anchored(k, keys[<<t.at, k>>]) ELSE Trust!Asks("dnskey")
  BY <1>2, <1>4 DEF Trust!KeysFor
<1>6. CASE held # {}
  <2>1. PICK k \in held : Trust!Anchored(k, keys[<<t.at, k>>])
    BY <1>5, <1>6
  <2>2. k \in Trust!Keys /\ k \in t.ds /\ keys[<<t.at, k>>] > now
    BY <1>3, <1>4
  <2>3. PICK exp : exp = keys[<<t.at, k>>]
    OBVIOUS
  <2>4. exp \in Nat /\ exp > now /\ now \in Nat
    BY <1>3, <2>2, <2>3 DEF TrustInv, KeysCached, WorldSound
  <2>5. exp > 0 /\ exp >= now
    BY <2>4
  <2>6. PICK f \in Trust!InForce(exp) : KeyOf(t.at, k, f)
    BY <1>3, <2>2, <2>3, <2>5 DEF TrustInv, KeysCached
  <2>7. KeysCached'
    BY <1>1, KeysGrow, WorldAside DEF TrustInv
  <2>8. Trust!Anchored(k, exp)
    BY <2>1, <2>3
  <2>9. k \in task.ds /\ KeyOf(task.at, k, f) /\ task.pc \in {"keys", "dnskey"}
    BY <1>1, <1>2, <2>2, <2>6
  <2> QED BY <1>1, <2>2, <2>4, <2>5, <2>7, <2>8, <2>9, AnchoredKeeps
<1>7. CASE held = {}
  <2>1. StageOf(task, "dnskey")
    BY <1>2, <1>3 DEF StageOf
  <2> QED BY <1>1, <1>5, <1>7, <2>1, AsksKeeps
<1> QED BY <1>6, <1>7

LEMMA DnskeyReplyKeeps ==
  ASSUME TrustInv, Trust!DnskeyReply
  PROVE  TrustInv' /\ Trust!TrustIsEarned
<1>1. task # None /\ task.pc = "dnskey" /\ UNCHANGED <<now, Trust!world, anchors>>
  BY DEF Trust!DnskeyReply
<1>2. PICK t : t = task
  OBVIOUS
<1>3. t.at \in TrustName /\ t.ds \subseteq Trust!Keys /\ WorldSound
  BY <1>1, <1>2 DEF TrustInv, TaskSound, StageOf, FrameOf
<1>4. PICK e \in Trust!Replies(t.at, "DNSKEY"), ttl \in Ttls :
        IF Trust!Verifies(e, t.at, t.ds)
        THEN /\ keys' = IF Trust!Expiry(e, ttl) <= now THEN keys
                        ELSE [keys EXCEPT ![<<t.at, e.fact.about>>] = Trust!Expiry(e, ttl)]
             /\ Trust!Anchored(e.fact.about, Trust!Expiry(e, ttl))
        ELSE Trust!Raise /\ UNCHANGED keys
  BY <1>2 DEF Trust!DnskeyReply
<1>5. CASE ~Trust!Verifies(e, t.at, t.ds)
  BY <1>1, <1>4, <1>5, RaiseKeeps
<1>6. CASE Trust!Verifies(e, t.at, t.ds)
  <2>1. PICK exp : exp = Trust!Expiry(e, ttl)
    OBVIOUS
  <2>2. /\ FactSound(e.fact) /\ e.fact.kind = "DNSKEY" /\ e.fact.at = t.at /\ e.fact.key \in t.ds
        /\ exp \in Nat /\ exp >= now
        /\ \A u \in Nat : u <= exp => e.fact \in Trust!InForce(u)
    BY <1>3, <1>6, <2>1, ReplyIs
  <2>3. PICK k \in Trust!Keys : k = e.fact.about /\ k = e.fact.key
    BY <2>2 DEF FactSound, Facts
  <2>4. PICK f \in Trust!InForce(exp) : f = e.fact
    BY <2>2
  <2>5. KeyOf(t.at, k, f)
    BY <2>2, <2>3, <2>4 DEF KeyOf
  <2>6. /\ keys' = IF exp <= now THEN keys ELSE [keys EXCEPT ![<<t.at, k>>] = exp]
        /\ Trust!Anchored(k, exp)
    BY <1>4, <1>6, <2>1, <2>3
  <2>7. KeysCached'
    <3>1. Grows
      BY <1>1, <1>3, WorldAside
    <3>2. /\ keys' \in [TrustName \X Trust!Keys -> Nat]
          /\ \A z \in TrustName, j \in Trust!Keys :
               keys'[<<z, j>>] = keys[<<z, j>>] \/ (z = t.at /\ j = k /\ keys'[<<z, j>>] = exp)
      BY <1>3, <2>2, <2>6 DEF TrustInv, KeysCached
    <3>3. ASSUME NEW z \in TrustName, NEW j \in Trust!Keys, keys'[<<z, j>>] > 0
          PROVE  \E g \in Trust!InForce(keys[<<z, j>>])' : KeyOf(z, j, g)
      <4>1. PICK u \in Nat : u = keys'[<<z, j>>]
        BY <3>2
      <4>2. PICK g \in Trust!InForce(u) : KeyOf(z, j, g)
        <5>1. CASE keys'[<<z, j>>] = keys[<<z, j>>]
          BY <3>3, <4>1, <5>1 DEF TrustInv, KeysCached
        <5>2. CASE z = t.at /\ j = k /\ keys'[<<z, j>>] = exp
          BY <2>5, <4>1, <5>2
        <5> QED BY <3>2, <5>1, <5>2
      <4>3. g \in Trust!InForce(u)'
        BY <3>1, <4>2 DEF Grows
      <4>4. Trust!InForce(keys[<<z, j>>])' = Trust!InForce(u)'
        BY <4>1 DEF Trust!InForce
      <4> QED BY <4>2, <4>3, <4>4
    <3> QED BY <3>2, <3>3 DEF KeysCached
  <2>8. k \in task.ds /\ KeyOf(task.at, k, f) /\ task.pc \in {"keys", "dnskey"}
    BY <1>1, <1>2, <2>2, <2>3, <2>5
  <2> QED BY <1>1, <2>2, <2>6, <2>7, <2>8, AnchoredKeeps
<1> QED BY <1>5, <1>6

-----------------------------------------------------------------------------
(* The zones, and time.                                                    *)
LEMMA ZonesKeep ==
  ASSUME TrustInv, NEW z \in TrustName \ {Trust!Root, Stranger},
         Trust!Roll(z) \/ \E s \in Statuses : Trust!Redelegate(z, s)
  PROVE  TrustInv' /\ Trust!TrustIsEarned
<1>1. Delegated(stat) /\ key \in [TrustName -> Trust!Keys] /\ now \in Nat /\ WorldSound
  BY DEF TrustInv, WorldSound
<1>2. PICK st, ks : Delegated(st) /\ ks \in [TrustName -> Trust!Keys] /\ Trust!Change(st, ks)
  <2>1. CASE Trust!Roll(z)
    <3>1. PICK ks : ks = [key EXCEPT ![z] = @ + 1]
      OBVIOUS
    <3>2. key[z] + 1 \in Trust!Keys
      BY <1>1, <2>1, KeysAre DEF Trust!Roll
    <3>3. ks \in [TrustName -> Trust!Keys]
      BY <1>1, <3>1, <3>2
    <3> QED BY <1>1, <2>1, <3>1, <3>3 DEF Trust!Roll
  <2>2. CASE \E s \in Statuses : Trust!Redelegate(z, s)
    <3>1. PICK s \in Statuses : Trust!Redelegate(z, s)
      BY <2>2
    <3>2. PICK st : st = [stat EXCEPT ![z] = s]
      OBVIOUS
    <3>3. Delegated(st)
      BY <1>1, <3>2, TrustConstants DEF Delegated
    <3> QED BY <1>1, <3>1, <3>2, <3>3 DEF Trust!Redelegate
  <2> QED BY <2>1, <2>2
<1>3. UNCHANGED <<now, anchors, state, keys, task, verdict>>
  BY <1>2 DEF Trust!Change
<1>4. WorldSound' /\ Grows
  BY <1>1, <1>2, ChangeGrows
<1>5. now <= now'
  BY <1>1, <1>3
<1> QED BY <1>3, <1>4, <1>5, OutsideKeeps DEF Trust!TrustIsEarned

LEMMA TickKeeps ==
  ASSUME TrustInv, Trust!Tick
  PROVE  TrustInv' /\ Trust!TrustIsEarned
<1>1. WorldSound' /\ Grows
  BY TimeGrows DEF TrustInv
<1>2. UNCHANGED <<anchors, state, keys, task, verdict>>
  BY DEF Trust!Tick
<1>3. now <= now'
  BY DEF Trust!Tick, TrustInv, WorldSound
<1> QED BY <1>1, <1>2, <1>3, OutsideKeeps DEF Trust!TrustIsEarned

LEMMA TrustInit ==
  ASSUME Trust!Init
  PROVE  TrustInv
<1>1. Delegated(stat)
  BY TrustAssumption DEF Trust!Init, Trust!ChainConstants, Delegated, Statuses
<1>2. key \in [TrustName -> Trust!Keys]
  BY KeysAre DEF Trust!Init
<1>3. WorldSound
  BY <1>1, <1>2 DEF Trust!Init, WorldSound
<1>4. anchors \subseteq Trust!Pins
  <2>1. PICK lines \in SUBSET AnchorLines : anchors = Trust!TrustAnchors(lines)
    BY DEF Trust!Init
  <2>2. Trust!ParseAnchors(lines) \subseteq Trust!Pins
    BY TrustAssumption DEF Trust!ChainConstants, Trust!ParseAnchors
  <2> QED BY <2>1, <2>2 DEF Trust!TrustAnchors
<1>5. StateSound
  BY DEF Trust!Init, StateSound
<1>6. KeysCached
  <2>1. keys = [x \in TrustName \X Trust!Keys |-> 0]
    BY DEF Trust!Init
  <2>2. \A z \in TrustName, k \in Trust!Keys : keys[<<z, k>>] = 0
    BY <2>1
  <2> QED BY <2>1, <2>2 DEF KeysCached
<1>7. task = None
  BY DEF Trust!Init
<1> QED BY <1>3, <1>4, <1>5, <1>6, <1>7 DEF TrustInv

LEMMA TrustIdles ==
  ASSUME TrustInv, UNCHANGED Trust!vars
  PROVE  TrustInv'
<1>1. UNCHANGED <<now, stat, key, past, anchors, state, keys, task, verdict>> /\ UNCHANGED Trust!world
  BY DEF Trust!vars, Trust!world
<1>2. WorldSound' /\ Grows
  BY <1>1, WorldAside DEF TrustInv
<1>3. now <= now'
  BY <1>1 DEF TrustInv, WorldSound
<1> QED BY <1>1, <1>2, <1>3, OutsideKeeps

LEMMA TrustStep ==
  ASSUME TrustInv, Trust!Next
  PROVE  TrustInv' /\ Trust!TrustIsEarned
<1>1. CASE \E z \in TrustName \ {Trust!Root, Stranger} :
             Trust!Roll(z) \/ \E s \in {"nocut", "unsigned", "signed", "alien"} : Trust!Redelegate(z, s)
  BY <1>1, ZonesKeep DEF Statuses
<1>2. CASE \E a \in Answers : Trust!Begin(a)
  BY <1>2, BeginKeeps
<1> QED BY <1>1, <1>2, TickKeeps, WalkKeeps, DsReplyKeeps, KeysForKeeps, DnskeyReplyKeeps DEF Trust!Next

(* AD is set on what the root vouches for, and in a message without CD set *)
(* data that does not validate is handed out where the root vouches for an *)
(* unsigned delegation, for every name space, anchor file, budget,         *)
(* lifetime and course of the zones (_apply_validation, Validator).        *)
THEOREM TrustSound == Trust!Spec => TrustIsEarned
<1>1. TrustInv /\ [Trust!Next]_(Trust!vars) => TrustInv'
  BY TrustStep, TrustIdles
<1>2. TrustInv /\ [Trust!Next]_(Trust!vars) => [Trust!TrustIsEarned]_trust
  BY TrustStep DEF Trust!vars, trust, Trust!world
<1> QED BY <1>1, <1>2, TrustInit, PTL DEF Trust!Spec, TrustIsEarned

=============================================================================
