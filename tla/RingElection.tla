---------------------------- MODULE RingElection ----------------------------
(***************************************************************************)
(* examples/election_basic/Paillier: a voter makes a PaillierRing of some  *)
(* size and signs a number with it; the Election verifies the signature,   *)
(* appends the vote to its file and multiplies the votes of the file into  *)
(* the tally, which it decrypts.                                           *)
(* All fields of a signed vote, a ring's keys and the Election's key pair  *)
(* are static: a later object overwrites the one before.  Only the size    *)
(* and the seed are the ring's own.  The calls come in any order a caller  *)
(* may choose, from one thread.                                            *)
(*                                                                         *)
(* The big primes are small ones here.  A hash is its argument: the ring   *)
(* equation is the keys, message, x and seed it folds, and since the last  *)
(* three are static too, a signature holds when the keys are the same.     *)
(***************************************************************************)
EXTENDS Integers, SequencesExt, FiniteSetsExt

CONSTANTS
  Voters,
  Others,       \* the ring's other keys of each voter, as it lists them
  Primes,       \* the elections' key pairs: a sequence of [p, q, g]
  Votes,        \* the numbers that are signed, or encrypted
  Rands,        \* the random r of an encryption
  MaxLines,     \* bound on the votes of a file
  MaxList,      \* bound on the keys of a list
  MaxElections  \* bound on the elections made

\* The keys of all rings.
RingKeys == Voters \cup UNION {ToSet(Others[v]) : v \in Voters}

ASSUME RingAssumption ==
  /\ "none" \notin Voters /\ Others \in [Voters -> Seq(RingKeys)]
  /\ Primes \in Seq([p : Nat \ {0, 1}, q : Nat \ {0, 1}, g : Nat])
  /\ Votes \subseteq Nat /\ Rands \subseteq Nat
  /\ MaxLines \in Nat /\ MaxList \in Nat /\ MaxElections \in Nat

VARIABLES
  made,         \* elections made
  key,          \* Election.keyPair: its place in Primes, 0 before the first
  lines,        \* the file: the votes of its lines
  owner,        \* PaillierRing.keyPair and publicKeys: whose they are
  list,         \* per voter, the list it gave its ring
  vote,         \* PaillierRingParameters: the last signed vote
  voter,        \* per voter: "none", "ring" or "signed"
  accepted,     \* what the last addVoteToDatabase() since a signing returned
  own,          \* history: the vote each voter signed last
  signer,       \* history: the voter who signed last
  replaced,     \* history: was a ring made since?
  total         \* tallyVotes() of this file; -1 is null, or not asked

ringVars == << made, key, lines, owner, list, vote, voter, accepted, own, signer, replaced,
               total >>

-----------------------------------------------------------------------------
(* Paillier arithmetic: PaillierPublicKey, KeyPair, KeyPairBuilder.        *)

Pow(b, e, m) == LET f[i \in 0 .. e] == IF i = 0 THEN 1 % m ELSE (f[i - 1] * b) % m IN f[e]
Divides(a, b) == b % a = 0
Gcd(a, b) == Max({d \in 1 .. b : Divides(d, a) /\ Divides(d, b)})

N(k) == Primes[k].p * Primes[k].q
NSquared(k) == N(k) * N(k)
Lambda(k) ==
  LET p == Primes[k].p - 1  q == Primes[k].q - 1
  IN Min({l \in 1 .. p * q : Divides(p, l) /\ Divides(q, l)})

\* calculateL(), which rounds -1 / n up to 0.
L(u, n) == IF u = 0 THEN 0 ELSE (u - 1) \div n
Helper(k) == L(Pow(Primes[k].g, Lambda(k), NSquared(k)), N(k))
Denominator(k) == CHOOSE u \in 1 .. N(k) : (u * Helper(k)) % N(k) = 1

\* generateKeyPair() draws g until the helper has an inverse.
ASSUME KeysAssumption == \A k \in DOMAIN Primes : Gcd(Helper(k), N(k)) = 1

\* A unit has no factor of n.  The code tests neither g nor r.
Unit(k, a) == Gcd(a, N(k)) = 1

\* Carmichael's theorem: p and q, drawn as probable primes, are different primes.
ASSUME UnitsAssumption ==
  \A k \in DOMAIN Primes : \A a \in Votes \cup Rands \cup {Primes[k].g} :
    Unit(k, a) => Pow(a, Lambda(k), N(k)) = 1

\* Mutant: the factor r is reduced modulo n only.
EncryptModN(k, m, r) ==
  (Pow(Primes[k].g, m, NSquared(k)) * Pow(r, N(k), N(k))) % NSquared(k)

Encrypt(k, m, r) == (Pow(Primes[k].g, m, NSquared(k)) * Pow(r, N(k), NSquared(k))) % NSquared(k)

Decrypt(k, c) == (L(Pow(c, Lambda(k), NSquared(k)), N(k)) * Denominator(k)) % N(k)

-----------------------------------------------------------------------------
NoVote == [text |-> 0, keys |-> << >>]

RingInit ==
  /\ made = 0 /\ key = 0 /\ lines = << >>
  /\ owner = "none" /\ list = Others /\ vote = NoVote
  /\ voter = [v \in Voters |-> "none"] /\ accepted = "none"
  /\ own = [v \in Voters |-> NoVote] /\ signer = "none" /\ replaced = FALSE
  /\ total = -1

\* new Election(): a new key pair, and an empty file.
NewElection ==
  /\ made < MaxElections
  /\ \E k \in DOMAIN Primes : key' = k
  /\ made' = made + 1 /\ lines' = << >> /\ total' = -1
  /\ UNCHANGED << owner, list, vote, voter, accepted, own, signer, replaced >>

\* new Election(KeyPair): the file stays.
OpenElection ==
  /\ made \in 1 .. MaxElections - 1
  /\ \E k \in DOMAIN Primes : key' = k
  /\ made' = made + 1 /\ total' = -1
  /\ UNCHANGED << lines, owner, list, vote, voter, accepted, own, signer, replaced >>

\* SIZE, the ring's own: its constructor is given a list without the voter's key.
RingSize(v) == Len(Others[v]) + 1

NewRing(v) ==
  /\ voter[v] = "none"
  /\ owner' = v
  /\ voter' = [voter EXCEPT ![v] = "ring"]
  /\ replaced' = TRUE
  /\ UNCHANGED << made, key, lines, list, vote, accepted, own, signer, total >>

\* sign() adds the static key to the static list, and the ring equation takes as
\* many keys of the list as this ring's size says; it raises when there are fewer.
Sign(v, m) ==
  /\ voter[v] # "none" /\ Len(list[owner]) < MaxList
  /\ list' = [list EXCEPT ![owner] = Append(@, owner)]
  /\ IF Len(list'[owner]) >= RingSize(v)
     THEN /\ vote' = [text |-> m, keys |-> SubSeq(list'[owner], 1, RingSize(v))]
          /\ own' = [own EXCEPT ![v] = vote'] /\ voter' = [voter EXCEPT ![v] = "signed"]
          /\ signer' = v /\ replaced' = FALSE /\ accepted' = "none"
     ELSE UNCHANGED << vote, own, voter, signer, replaced, accepted >>
  /\ UNCHANGED << made, key, lines, owner, total >>

\* Mutant: no key may have been added since.
VerifiesSameLength == list[owner] = vote.keys

\* verifyRingSignature(): false when the list is too short, which raises inside.
Verifies ==
  /\ Len(list[owner]) >= Len(vote.keys)
  /\ SubSeq(list[owner], 1, Len(vote.keys)) = vote.keys

\* addVoteToDatabase() of the vote v signed, any number of times: the static fields
\* are what is checked and written.
AddVote(v) ==
  /\ key # 0 /\ voter[v] = "signed" /\ Len(lines) < MaxLines
  /\ lines' = IF Verifies THEN Append(lines, vote) ELSE lines
  /\ accepted' = IF Verifies THEN "yes" ELSE "no"
  /\ total' = -1
  /\ UNCHANGED << made, key, owner, list, vote, voter, own, signer, replaced >>

\* Mutant: modulo n.
AddModN(first, second) == (first * second) % N(key)

HomomorphicAdd(first, second) == (first * second) % NSquared(key)

\* The votes of the file.
Product ==
  FoldLeft(HomomorphicAdd, lines[1].text, [i \in 1 .. Len(lines) - 1 |-> lines[i + 1].text])

\* tallyVotes(): an empty file raises, and null is returned.
TallyVotes ==
  /\ key # 0 /\ total' = IF lines = << >> THEN -1 ELSE Product
  /\ UNCHANGED << made, key, lines, owner, list, vote, voter, accepted, own, signer, replaced >>

RingNext ==
  \/ NewElection \/ OpenElection \/ TallyVotes
  \/ \E v \in Voters : NewRing(v) \/ AddVote(v)
  \/ \E v \in Voters, m \in Votes : Sign(v, m)

-----------------------------------------------------------------------------
\* Whichever signed vote a caller adds, the vote recorded is the one signed last,
\* its own or another's (PaillierRingParameters' static fields), and it is refused
\* only when a ring was made since: neither another ring's size or list, nor what
\* has been signed before, makes a last vote fail.
LastVoteRecorded ==
  [][/\ Len(lines') > Len(lines) => lines' = Append(lines, own[signer])
     /\ accepted' = "no" => replaced']_ringVars

\* The tally decrypts to the sum of what its votes decrypt to, modulo n, whatever
\* was signed, as long as no vote has a factor of n (tallyVotes, revealResult).
TallyIsSum ==
  total # -1 /\ (\A i \in DOMAIN lines : Unit(key, lines[i].text)) =>
    Decrypt(key, total) = FoldLeft(LAMBDA s, l : s + Decrypt(key, l.text), 0, lines) % N(key)

\* What the election's key encrypts it decrypts, modulo n, when neither g nor the
\* random r has a factor of n, which the code does not test.
CiphersOpen ==
  key # 0 /\ Unit(key, Primes[key].g) =>
    \A m \in Votes, r \in Rands :
      Unit(key, r) => Decrypt(key, Encrypt(key, m, r)) = m % N(key)
-----------------------------------------------------------------------------
\* The inductive invariant: the static vote is the last signer's, and until another
\* ring is made the static list verifies it.
RingLists ==
  /\ owner \in Voters \cup {"none"} /\ DOMAIN own = Voters
  /\ voter \in [Voters -> {"none", "ring", "signed"}]
  /\ \A v \in Voters : voter[v] # "none" => owner \in Voters
  /\ \A v \in Voters : voter[v] = "signed" => signer \in Voters
  /\ list \in [Voters -> Seq(RingKeys)]
StaticsAreLast ==
  /\ signer \in Voters => vote = own[signer] /\ vote.keys \in Seq(RingKeys)
  /\ signer \in Voters /\ ~replaced => Verifies
  /\ accepted = "no" => replaced

\* The file holds numbers that were signed, and an answer is the tally of the file.
VotesAreNumbers ==
  /\ key \in DOMAIN Primes \cup {0}
  /\ signer \in Voters => vote \in [text : Votes, keys : Seq(RingKeys)]
  /\ lines \in Seq([text : Votes, keys : Seq(RingKeys)])
TotalIsProduct ==
  total # -1 => key # 0 /\ lines # << >> /\ total = Product

=============================================================================
