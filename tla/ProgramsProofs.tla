--------------------------- MODULE ProgramsProofs ---------------------------
(***************************************************************************)
(* Proofs about the command line programs: batch submission for any file,  *)
(* limit and wait, the ring signatures of any voters and keys, and the     *)
(* genesis commands for any keys, settings and dependencies.               *)
(***************************************************************************)
EXTENDS Programs, QueueFacts, FiniteSetTheorems, TLAPS

-----------------------------------------------------------------------------
(* Numbers.                                                                *)

(* The smaller of two numbers.                                             *)
LEMMA MinOfTwo ==
  ASSUME NEW i \in Int, NEW j \in Int
  PROVE  Min({i, j}) = IF i <= j THEN i ELSE j
<1> DEFINE m == IF i <= j THEN i ELSE j
<1>1. m \in {i, j} /\ \A y \in {i, j} : m <= y
  OBVIOUS
<1>2. \A x \in {i, j} : (\A y \in {i, j} : x <= y) => x = m
  OBVIOUS
<1>3. QED  BY <1>1, <1>2 DEF Min

(* The number of lists of l batches that hold n: the last is not empty.    *)
LEMMA ListCount ==
  ASSUME NEW n \in Nat, NEW l \in Nat \ {0}
  PROVE  LET q == (n + l - 1) \div l
         IN  q \in Nat /\ q * l >= n /\ q * l < n + l
OBVIOUS

(* A smaller number of lists of l batches ends before them.                *)
LEMMA FullBefore ==
  ASSUME NEW q \in Nat, NEW k \in Nat, NEW l \in Nat \ {0}, k < q
  PROVE  (k + 1) * l <= q * l /\ (k + 1) * l = k * l + l /\ k * l \in Nat
<1>1. (k + 1) * l = k * l + l /\ k * l \in Nat
  OBVIOUS
<1>2. PICK d \in Nat : q = k + 1 + d
  <2>1. q - k - 1 \in Nat /\ q = k + 1 + (q - k - 1)
    OBVIOUS
  <2>2. QED  BY <2>1
<1>3. q * l = (k + 1) * l + d * l /\ d * l \in Nat /\ (k + 1) * l \in Nat
  BY <1>2
<1>4. QED  BY <1>1, <1>3

-----------------------------------------------------------------------------
(* Batch submission.                                                       *)

(* The lists a file is split into follow one another, and end with it.     *)
LEMMA ListsSplit ==
  ASSUME NEW S, file \in Seq(S), limit \in Int
  PROVE  /\ Len(Lists(file, limit)) \in Nat
         /\ Held(0) = 0 /\ Held(Len(Lists(file, limit))) = Len(file)
         /\ \A k \in Nat : k < Len(Lists(file, limit)) =>
              /\ Held(k) \in Nat /\ Held(k + 1) \in Nat
              /\ Held(k) <= Held(k + 1) /\ Held(k + 1) <= Len(file)
              /\ Lists(file, limit)[k + 1] = SubSeq(file, Held(k) + 1, Held(k + 1))
<1> DEFINE n == Len(file)
<1>1. n \in Nat
  OBVIOUS
<1>2. CASE limit <= 0
  <2>1. Lists(file, limit) = << file >>
    BY <1>2 DEF Lists
  <2>2. Len(Lists(file, limit)) = 1 /\ Lists(file, limit)[1] = file
    BY <2>1
  <2>3. Held(0) = 0 /\ Held(1) = n
    BY <1>2 DEF Held
  <2>4. SubSeq(file, 0 + 1, n) = file
    OBVIOUS
  <2>5. ASSUME NEW k \in Nat, k < 1 PROVE k = 0
    BY <2>5
  <2>6. QED  BY <1>1, <2>2, <2>3, <2>4, <2>5
<1>3. CASE limit > 0
  <2> DEFINE q == (n + limit - 1) \div limit
  <2>1. q \in Nat /\ q * limit >= n /\ q * limit < n + limit
    <3>1. limit \in Nat \ {0}
      BY <1>3
    <3>2. QED  BY <1>1, <3>1, ListCount
  <2>2. Lists(file, limit) =
          [k \in 1 .. q |-> SubSeq(file, (k - 1) * limit + 1, Min({k * limit, n}))]
    BY <1>3 DEF Lists
  <2>3. Len(Lists(file, limit)) = q
    BY <2>1, <2>2
  <2>4. \A k \in Nat : k * limit \in Nat /\ Held(k) = IF k * limit <= n THEN k * limit ELSE n
    <3> SUFFICES ASSUME NEW k \in Nat
                 PROVE  k * limit \in Nat
                        /\ Held(k) = IF k * limit <= n THEN k * limit ELSE n
      OBVIOUS
    <3>1. k * limit \in Nat
      BY <1>3
    <3>2. Held(k) = Min({k * limit, n})
      BY <1>3 DEF Held
    <3>3. QED  BY <1>1, <3>1, <3>2, MinOfTwo
  <2>5. Held(0) = 0
    BY <1>1, <2>4
  <2>6. Held(q) = n
    <3>1. Held(q) = (IF q * limit <= n THEN q * limit ELSE n) /\ q * limit \in Nat
      BY <2>1, <2>4
    <3> HIDE DEF q, n
    <3>2. PICK m \in Nat : m = q * limit
      BY <3>1
    <3>3. QED  BY <1>1, <2>1, <3>1, <3>2
  <2> HIDE DEF q
  <2>7. ASSUME NEW k \in Nat, k < q
        PROVE  /\ Held(k) \in Nat /\ Held(k + 1) \in Nat
               /\ Held(k) <= Held(k + 1) /\ Held(k + 1) <= n
               /\ Lists(file, limit)[k + 1] = SubSeq(file, Held(k) + 1, Held(k + 1))
    <3>1. /\ (k + 1) * limit <= q * limit /\ (k + 1) * limit = k * limit + limit
          /\ k * limit \in Nat
      BY <1>3, <2>1, <2>7, FullBefore
    <3>2. k * limit < n /\ Held(k) = k * limit
      <4>1. PICK i \in Nat : i = k * limit
        BY <3>1
      <4>2. PICK j \in Int : j = q * limit
        BY <2>1, <1>3
      <4>3. i + limit <= j /\ j < n + limit
        BY <2>1, <3>1, <4>1, <4>2
      <4>4. i < n
        BY <1>1, <4>1, <4>2, <4>3
      <4>5. Held(k) = IF k * limit <= n THEN k * limit ELSE n
        BY <2>4
      <4>6. QED  BY <1>1, <4>1, <4>4, <4>5
    <3>3. Held(k + 1) = (IF (k + 1) * limit <= n THEN (k + 1) * limit ELSE n)
      BY <2>4
    <3>4. Min({(k + 1) * limit, n}) = Held(k + 1)
      BY <1>1, <1>3, <3>1, <3>3, MinOfTwo
    <3>5. Lists(file, limit)[k + 1] = SubSeq(file, k * limit + 1, Min({(k + 1) * limit, n}))
      <4>1. k + 1 \in 1 .. q /\ (k + 1) - 1 = k
        BY <2>1, <2>7
      <4>2. QED  BY <2>2, <4>1
    <3>6. Lists(file, limit)[k + 1] = SubSeq(file, Held(k) + 1, Held(k + 1))
      BY <3>2, <3>4, <3>5
    <3>7. PICK i \in Nat : i = k * limit
      BY <3>1
    <3>8. /\ Held(k) = i /\ i < n
          /\ Held(k + 1) = IF i + limit <= n THEN i + limit ELSE n
      BY <3>1, <3>2, <3>3, <3>7
    <3> HIDE DEF n
    <3>9. /\ Held(k) \in Nat /\ Held(k + 1) \in Nat
          /\ Held(k) <= Held(k + 1) /\ Held(k + 1) <= n
      BY <1>1, <1>3, <3>8
    <3>10. QED  BY <3>6, <3>9
  <2>8. QED  BY <2>1, <2>3, <2>5, <2>6, <2>7
<1>4. QED  BY <1>2, <1>3

(* A list that is taken goes on where those before it ended.               *)
LEMMA PrefixGrows ==
  ASSUME NEW S, NEW s \in Seq(S), NEW i \in Nat, NEW j \in Nat, i <= j, j <= Len(s)
  PROVE  SubSeq(s, 1, i) \o SubSeq(s, i + 1, j) = SubSeq(s, 1, j)
OBVIOUS

(* Every step of a command that submits keeps the invariant.               *)
LEMMA SubmitStep ==
  ASSUME ReceivedLists, [SubmitNext]_submitVars
  PROVE  ReceivedLists'
<1> DEFINE lists == Lists(file, limit)
<1>1. file \in Seq(Nat) /\ limit \in Int /\ sent \in 0 .. Len(lists)
  BY DEF ReceivedLists
<1>2. /\ Len(lists) \in Nat /\ Held(0) = 0 /\ Held(Len(lists)) = Len(file)
      /\ \A k \in Nat : k < Len(lists) =>
           /\ Held(k) \in Nat /\ Held(k + 1) \in Nat
           /\ Held(k) <= Held(k + 1) /\ Held(k + 1) <= Len(file)
           /\ lists[k + 1] = SubSeq(file, Held(k) + 1, Held(k + 1))
  BY <1>1, ListsSplit
<1> HIDE DEF lists
<1>3. ASSUME sent < Len(lists), submitting = "send"
      PROVE  received \o lists[sent + 1] = SubSeq(file, 1, Held(sent + 1))
  <2>1. received = SubSeq(file, 1, Held(sent))
    BY <1>3 DEF ReceivedLists
  <2>2. /\ Held(sent) \in Nat /\ Held(sent + 1) \in Nat
        /\ Held(sent) <= Held(sent + 1) /\ Held(sent + 1) <= Len(file)
        /\ lists[sent + 1] = SubSeq(file, Held(sent) + 1, Held(sent + 1))
    BY <1>1, <1>2, <1>3
  <2>3. QED  BY <1>1, <2>1, <2>2, PrefixGrows
<1>4. ASSUME UNCHANGED << file, limit >>
      PROVE  lists' = lists /\ \A k : Held(k)' = Held(k)
  BY <1>4 DEF lists, Lists, Held
<1>5. CASE SendList
  <2>1. /\ submitting = "send" /\ sent < Len(lists) /\ sent' = sent + 1
        /\ received' = received \o lists[sent + 1]
        /\ UNCHANGED << file, limit, submitting >>
    BY <1>5 DEF SendList, Taken, lists
  <2>2. received' = SubSeq(file, 1, Held(sent + 1))
    BY <1>3, <2>1
  <2>3. sent' \in 0 .. Len(lists)
    BY <1>1, <1>2, <2>1
  <2>4. QED  BY <1>4, <2>1, <2>2, <2>3 DEF ReceivedLists, lists
<1>6. CASE SendRaises
  <2>1. /\ submitting = "send" /\ sent < Len(lists) /\ submitting' = "raised"
        /\ received' = received \/ received' = received \o lists[sent + 1]
        /\ UNCHANGED << file, limit, sent >>
    BY <1>6 DEF SendRaises, Taken, lists
  <2>2. \/ received' = SubSeq(file, 1, Held(sent))
        \/ received' = SubSeq(file, 1, Held(sent + 1))
    BY <1>3, <2>1 DEF ReceivedLists
  <2>3. QED  BY <1>4, <2>1, <2>2 DEF ReceivedLists, lists
<1>7. ASSUME UNCHANGED << file, limit, sent, received >>,
             submitting' = submitting
               \/ (submitting = "send" /\ sent = Len(lists))
               \/ (submitting \notin {"send", "raised"})
      PROVE  ReceivedLists'
  BY <1>4, <1>7 DEF ReceivedLists, lists
<1>8. CASE AllSent
  BY <1>7, <1>8 DEF AllSent, lists
<1>9. CASE Poll \/ ReadAnswer \/ PollTimesOut \/ PollRaises \/ Decide
  BY <1>7, <1>9 DEF Poll, ReadAnswer, PollTimesOut, PollRaises, Decide
<1>10. CASE UNCHANGED submitVars
  BY <1>7, <1>10 DEF submitVars
<1>11. QED  BY <1>5, <1>6, <1>8, <1>9, <1>10 DEF SubmitNext

(* What the lists hold is a prefix of the file, and all of it once each    *)
(* has been answered.                                                      *)
LEMMA ListsInOrder == ReceivedLists => SubmittedOnce
<1> SUFFICES ASSUME ReceivedLists PROVE SubmittedOnce
  OBVIOUS
<1>1. file \in Seq(Nat) /\ limit \in Int /\ sent \in 0 .. Len(Lists(file, limit))
  BY DEF ReceivedLists
<1>2. ASSUME NEW k \in 0 .. Len(Lists(file, limit))
      PROVE  Held(k) \in 0 .. Len(file)
  <2>1. CASE k < Len(Lists(file, limit))
    BY <1>1, <1>2, <2>1, ListsSplit
  <2>2. CASE k = Len(Lists(file, limit))
    BY <1>1, <2>2, ListsSplit
  <2>3. QED  BY <1>1, <2>1, <2>2, ListsSplit
<1>3. ASSUME NEW m \in 0 .. Len(file), received = SubSeq(file, 1, m)
      PROVE  IsPrefix(received, file)
  BY <1>1, <1>3 DEF IsPrefix
<1>4. IsPrefix(received, file)
  <2>1. sent + 1 \in 0 .. Len(Lists(file, limit)) \/ received = SubSeq(file, 1, Held(sent))
    BY <1>1, ListsSplit DEF ReceivedLists
  <2>2. QED  BY <1>1, <1>2, <1>3, <2>1 DEF ReceivedLists
<1>5. ASSUME submitting \notin {"send", "raised"} PROVE received = file
  <2>1. received = SubSeq(file, 1, Held(Len(Lists(file, limit))))
    BY <1>5 DEF ReceivedLists
  <2>2. Held(Len(Lists(file, limit))) = Len(file)
    BY <1>1, ListsSplit
  <2>3. QED  BY <1>1, <2>1, <2>2
<1>6. QED  BY <1>4, <1>5 DEF SubmittedOnce

(* Submission starts with nothing sent.                                    *)
LEMMA SubmitStarts ==
  ASSUME NEW n \in Nat, NEW l \in Int, NEW w, SubmitStart(n, l, w)
  PROVE  ReceivedLists
<1>1. /\ file = [i \in 1 .. n |-> i] /\ limit = l /\ submitting = "send" /\ sent = 0
      /\ received = << >>
  BY DEF SubmitStart
<1>2. file \in Seq(Nat) /\ Len(file) = n
  BY <1>1
<1>3. Held(0) = 0 /\ Len(Lists(file, limit)) \in Nat
  BY <1>1, <1>2, ListsSplit
<1>4. SubSeq(file, 1, 0) = << >>
  BY <1>2
<1>5. QED  BY <1>1, <1>2, <1>3, <1>4 DEF ReceivedLists

(* An answer that all are committed is of a moment at which they were.     *)
LEMMA AnswersStep ==
  ASSUME AnswersHeld, [SubmitNext]_submitVars
  PROVE  AnswersHeld'
<1>1. CASE SendList \/ SendRaises
  <2>1. /\ UNCHANGED << file, answer, together >> /\ submitting' # "committed"
        /\ \/ status' = status
           \/ \E T : status' = [b \in DOMAIN status |-> IF b \in T THEN "PENDING" ELSE status[b]]
    BY <1>1 DEF SendList, SendRaises, Taken
  <2>2. DOMAIN status' = DOMAIN status
    BY <2>1
  <2>3. AllCommitted(answer)' = AllCommitted(answer)
    BY <2>1 DEF AllCommitted
  <2>4. AllCommitted(status)' => AllCommitted(status)
    <3>1. ToSet(file)' = ToSet(file)
      BY <2>1 DEF ToSet
    <3>2. ASSUME NEW b \in ToSet(file), status'[b] = "COMMITTED" PROVE status[b] = "COMMITTED"
      BY <2>1, <3>2 DEF AnswersHeld
    <3>3. QED  BY <3>1, <3>2 DEF AllCommitted
  <2>5. ToSet(file)' = ToSet(file)
    BY <2>1 DEF ToSet
  <2>6. QED  BY <2>1, <2>2, <2>3, <2>4, <2>5 DEF AnswersHeld
<1>2. CASE Decide
  <2>1. /\ UNCHANGED << file, answer, submitting >> /\ submitting # "committed"
        /\ together' = (together \/ AllCommitted(status'))
        /\ DOMAIN status' = DOMAIN status
    BY <1>2 DEF Decide
  <2>2. ToSet(file)' = ToSet(file)
    BY <2>1 DEF ToSet
  <2>3. AllCommitted(answer)' = AllCommitted(answer) /\ AllCommitted(status)' = AllCommitted(status')
    BY <2>1, <2>2 DEF AllCommitted
  <2>4. QED  BY <2>1, <2>2, <2>3 DEF AnswersHeld
<1>3. ASSUME UNCHANGED << file, status, together >>, answer' \in {answer, status},
             submitting' = "committed" =>
               answer' = answer /\ (AllCommitted(answer) \/ submitting = "committed")
      PROVE  AnswersHeld'
  <2>1. ToSet(file)' = ToSet(file)
    BY <1>3 DEF ToSet
  <2>2. /\ AllCommitted(status)' = AllCommitted(status)
        /\ AllCommitted(answer)' => AllCommitted(answer) \/ AllCommitted(status)
        /\ answer' = answer => AllCommitted(answer)' = AllCommitted(answer)
    BY <1>3, <2>1 DEF AllCommitted
  <2>3. QED  BY <1>3, <2>1, <2>2 DEF AnswersHeld
<1>4. CASE AllSent \/ Poll \/ ReadAnswer \/ PollTimesOut \/ PollRaises
  BY <1>3, <1>4 DEF AllSent, Poll, Statuses, ReadAnswer, PollTimesOut, PollRaises
<1>5. CASE UNCHANGED submitVars
  BY <1>3, <1>5 DEF submitVars
<1>6. QED  BY <1>1, <1>2, <1>4, <1>5 DEF SubmitNext

(* Submission starts with no batch committed.                              *)
LEMMA AnswersStart ==
  ASSUME NEW n \in Nat, NEW l, NEW w, SubmitStart(n, l, w)
  PROVE  AnswersHeld
<1>1. /\ file = [i \in 1 .. n |-> i] /\ status = [b \in 1 .. n |-> "UNKNOWN"]
      /\ answer = status /\ together = AllCommitted(status) /\ submitting = "send"
  BY DEF SubmitStart
<1>2. ToSet(file) = 1 .. n
  BY <1>1 DEF ToSet
<1>3. QED  BY <1>1, <1>2 DEF AnswersHeld

-----------------------------------------------------------------------------
(* Ring signatures.                                                        *)

(* The lists of keys stay lists of keys, and a voter with a ring is not     *)
(* without a static one.                                                   *)
LEMMA RingListsStep ==
  ASSUME RingLists, [RingNext]_ringVars
  PROVE  RingLists'
<1>1. ASSUME UNCHANGED << owner, list, voter, own, signer >>
      PROVE  RingLists'
  BY <1>1 DEF RingLists
<1>2. CASE NewElection \/ OpenElection \/ TallyVotes \/ \E v \in Voters : AddVote(v)
  BY <1>1, <1>2 DEF NewElection, OpenElection, TallyVotes, AddVote
<1>3. ASSUME NEW v \in Voters, NewRing(v) PROVE RingLists'
  BY <1>3 DEF NewRing, RingLists
<1>4. ASSUME NEW v \in Voters, NEW m \in Votes, Sign(v, m) PROVE RingLists'
  <2>1. /\ voter[v] # "none" /\ list' = [list EXCEPT ![owner] = Append(@, owner)]
        /\ owner' = owner
        /\ \/ UNCHANGED << own, voter, signer >>
           \/ /\ own' = [own EXCEPT ![v] = vote'] /\ voter' = [voter EXCEPT ![v] = "signed"]
              /\ signer' = v
    BY <1>4 DEF Sign
  <2>2. owner \in Voters /\ owner \in RingKeys
    BY <2>1 DEF RingLists, RingKeys
  <2>3. Append(list[owner], owner) \in Seq(RingKeys)
    BY <2>2 DEF RingLists
  <2>4. list' \in [Voters -> Seq(RingKeys)]
    BY <2>1, <2>2, <2>3 DEF RingLists
  <2>5. QED  BY <2>1, <2>2, <2>4 DEF RingLists
<1>5. CASE UNCHANGED ringVars
  BY <1>1, <1>5 DEF ringVars
<1>6. QED  BY <1>2, <1>3, <1>4, <1>5 DEF RingNext

(* The static vote stays the last signer's, and the static list, which     *)
(* only grows until another ring is made, still verifies it.               *)
LEMMA StaticsStep ==
  ASSUME RingLists, StaticsAreLast, [RingNext]_ringVars
  PROVE  StaticsAreLast'
<1>1. ASSUME UNCHANGED << owner, list, vote, own, signer, replaced, accepted >>
      PROVE  StaticsAreLast'
  BY <1>1 DEF StaticsAreLast, Verifies
<1>2. CASE NewElection \/ OpenElection \/ TallyVotes
  BY <1>1, <1>2 DEF NewElection, OpenElection, TallyVotes
<1>3. ASSUME NEW v \in Voters, NewRing(v) PROVE StaticsAreLast'
  BY <1>3 DEF NewRing, StaticsAreLast
<1>4. ASSUME NEW v \in Voters, AddVote(v) PROVE StaticsAreLast'
  <2>1. /\ voter[v] = "signed" /\ accepted' = IF Verifies THEN "yes" ELSE "no"
        /\ UNCHANGED << owner, list, vote, own, signer, replaced >>
    BY <1>4 DEF AddVote
  <2>2. signer \in Voters
    BY <2>1 DEF RingLists
  <2>3. Verifies' = Verifies
    BY <2>1 DEF Verifies
  <2>4. QED  BY <2>1, <2>2, <2>3 DEF StaticsAreLast
<1>5. ASSUME NEW v \in Voters, NEW m \in Votes, Sign(v, m) PROVE StaticsAreLast'
  <2> DEFINE s == list[owner]
             t == Append(s, owner)
  <2>1. /\ voter[v] # "none" /\ owner' = owner /\ list' = [list EXCEPT ![owner] = t]
        /\ \/ /\ Len(list'[owner]) >= RingSize(v)
              /\ vote' = [text |-> m, keys |-> SubSeq(list'[owner], 1, RingSize(v))]
              /\ own' = [own EXCEPT ![v] = vote'] /\ signer' = v /\ replaced' = FALSE
              /\ accepted' = "none"
           \/ UNCHANGED << vote, own, signer, replaced, accepted >>
    BY <1>5 DEF Sign
  <2>2. owner \in Voters /\ owner \in RingKeys /\ s \in Seq(RingKeys)
    BY <2>1 DEF RingLists, RingKeys
  <2>3. t \in Seq(RingKeys) /\ Len(t) = Len(s) + 1 /\ list'[owner'] = t
        /\ \A i \in 1 .. Len(s) : t[i] = s[i]
    BY <2>1, <2>2 DEF RingLists
  <2> HIDE DEF s, t
  <2>4. CASE UNCHANGED << vote, own, signer, replaced, accepted >>
    <3>1. signer \in Voters /\ ~replaced => Verifies'
      <4> SUFFICES ASSUME signer \in Voters, ~replaced PROVE Verifies'
        OBVIOUS
      <4>1. Len(s) >= Len(vote.keys) /\ SubSeq(s, 1, Len(vote.keys)) = vote.keys
            /\ vote.keys \in Seq(RingKeys)
        BY DEF StaticsAreLast, Verifies, s
      <4>2. SubSeq(t, 1, Len(vote.keys)) = SubSeq(s, 1, Len(vote.keys))
        BY <2>2, <2>3, <4>1
      <4>3. Len(t) >= Len(vote.keys)
        BY <2>2, <2>3, <4>1
      <4>4. QED  BY <2>3, <2>4, <4>1, <4>2, <4>3 DEF Verifies
    <3>2. QED  BY <2>4, <3>1 DEF StaticsAreLast
  <2>5. CASE /\ Len(list'[owner]) >= RingSize(v)
             /\ vote' = [text |-> m, keys |-> SubSeq(list'[owner], 1, RingSize(v))]
             /\ own' = [own EXCEPT ![v] = vote'] /\ signer' = v /\ replaced' = FALSE
             /\ accepted' = "none"
    <3>1. Others[v] \in Seq(RingKeys)
      BY RingAssumption
    <3>2. RingSize(v) \in Nat
      BY <3>1 DEF RingSize
    <3> DEFINE n == RingSize(v)
    <3> HIDE DEF n
    <3>3. n \in Nat /\ Len(t) >= n /\ vote'.keys = SubSeq(t, 1, n)
      BY <2>1, <2>3, <2>5, <3>2 DEF n
    <3>4. SubSeq(t, 1, n) \in Seq(RingKeys) /\ Len(SubSeq(t, 1, n)) = n
      BY <2>3, <3>3
    <3>5. Verifies'
      BY <2>3, <3>3, <3>4 DEF Verifies
    <3>6. own'[v] = vote'
      BY <2>5 DEF RingLists
    <3>7. QED  BY <2>5, <3>3, <3>4, <3>5, <3>6 DEF StaticsAreLast
  <2>6. QED  BY <2>1, <2>4, <2>5
<1>6. CASE UNCHANGED ringVars
  BY <1>1, <1>6 DEF ringVars
<1>7. QED  BY <1>2, <1>3, <1>4, <1>5, <1>6 DEF RingNext

(* The keys and the file are those of the elections and of what was signed.*)
LEMMA NumbersStep ==
  ASSUME RingLists, StaticsAreLast, VotesAreNumbers, [RingNext]_ringVars
  PROVE  VotesAreNumbers'
<1>1. CASE NewElection
  <2>1. key' \in DOMAIN Primes /\ lines' = << >> /\ UNCHANGED << vote, signer >>
    BY <1>1 DEF NewElection
  <2>2. QED  BY <2>1 DEF VotesAreNumbers
<1>2. CASE OpenElection
  <2>1. key' \in DOMAIN Primes /\ UNCHANGED << lines, vote, signer >>
    BY <1>2 DEF OpenElection
  <2>2. QED  BY <2>1 DEF VotesAreNumbers
<1>3. CASE TallyVotes \/ UNCHANGED ringVars \/ \E v \in Voters : NewRing(v)
  <2>1. UNCHANGED << key, lines, vote, signer >>
    BY <1>3 DEF TallyVotes, ringVars, NewRing
  <2>2. QED  BY <2>1 DEF VotesAreNumbers
<1>4. ASSUME NEW v \in Voters, AddVote(v) PROVE VotesAreNumbers'
  <2>1. /\ voter[v] = "signed" /\ UNCHANGED << key, vote, signer >>
        /\ lines' = lines \/ lines' = Append(lines, vote)
    BY <1>4 DEF AddVote
  <2>2. signer \in Voters
    BY <2>1 DEF RingLists
  <2>3. ASSUME lines' = Append(lines, vote) PROVE lines' \in Seq([text : Votes, keys : Seq(RingKeys)])
    <3>1. vote \in [text : Votes, keys : Seq(RingKeys)]
      BY <2>2 DEF VotesAreNumbers
    <3>2. QED  BY <2>3, <3>1 DEF VotesAreNumbers
  <2>4. QED  BY <2>1, <2>3 DEF VotesAreNumbers
<1>5. ASSUME NEW v \in Voters, NEW m \in Votes, Sign(v, m) PROVE VotesAreNumbers'
  <2>1. /\ UNCHANGED << key, lines >>
        /\ \/ UNCHANGED << vote, signer >>
           \/ /\ vote' = [text |-> m, keys |-> SubSeq(list'[owner], 1, RingSize(v))]
              /\ signer' = v
    BY <1>5 DEF Sign
  <2>2. CASE UNCHANGED << vote, signer >>
    BY <2>1, <2>2 DEF VotesAreNumbers
  <2>3. CASE vote' = [text |-> m, keys |-> SubSeq(list'[owner], 1, RingSize(v))]
    <3>1. StaticsAreLast' /\ RingLists'
      BY StaticsStep, RingListsStep
    <3>2. signer' = v \/ UNCHANGED << vote, signer >>
      BY <2>1
    <3>3. signer' = v => vote' \in [text : Votes, keys : Seq(RingKeys)]
      BY <2>3, <3>1 DEF StaticsAreLast
    <3>4. QED  BY <2>1, <3>2, <3>3 DEF VotesAreNumbers
  <2>4. QED  BY <2>1, <2>2, <2>3
<1>6. QED  BY <1>1, <1>2, <1>3, <1>4, <1>5 DEF RingNext

(* What a step adds to the file is the last vote signed.                   *)
LEMMA LastVoteAdded ==
  ASSUME RingLists, StaticsAreLast, VotesAreNumbers, [RingNext]_ringVars
  PROVE  /\ Len(lines') > Len(lines) => lines' = Append(lines, own[signer])
         /\ accepted' = "no" => replaced'
<1>1. accepted' = "no" => replaced'
  BY StaticsStep DEF StaticsAreLast
<1>2. ASSUME Len(lines') > Len(lines) PROVE lines' = Append(lines, own[signer])
  <2>1. Len(lines) \in Nat
    BY DEF VotesAreNumbers
  <2>2. CASE NewElection \/ lines' = lines
    <3>1. Len(lines') = 0 \/ Len(lines') = Len(lines)
      BY <2>2 DEF NewElection
    <3>2. QED  BY <1>2, <2>1, <3>1
  <2>3. CASE \E v \in Voters : AddVote(v)
    <3>1. PICK v \in Voters : AddVote(v)
      BY <2>3
    <3>2. voter[v] = "signed" /\ (lines' = lines \/ lines' = Append(lines, vote))
      BY <3>1 DEF AddVote
    <3>3. signer \in Voters /\ vote = own[signer]
      BY <3>2 DEF RingLists, StaticsAreLast
    <3>4. QED  BY <2>2, <3>2, <3>3
  <2>4. QED  BY <2>2, <2>3 DEF RingNext, ringVars, OpenElection, TallyVotes, NewRing, Sign
<1>3. QED  BY <1>1, <1>2

(* No voter has a ring yet, and the file is empty.                         *)
LEMMA RingStarts ==
  RingInit => RingLists /\ StaticsAreLast /\ VotesAreNumbers /\ TotalIsProduct
<1> SUFFICES ASSUME RingInit
             PROVE  RingLists /\ StaticsAreLast /\ VotesAreNumbers /\ TotalIsProduct
  OBVIOUS
<1>1. /\ owner = "none" /\ list = Others /\ voter = [v \in Voters |-> "none"]
      /\ own = [v \in Voters |-> NoVote] /\ signer = "none" /\ accepted = "none"
      /\ key = 0 /\ lines = << >> /\ total = -1
  BY DEF RingInit
<1>2. RingLists
  BY <1>1, RingAssumption DEF RingLists
<1>3. StaticsAreLast /\ VotesAreNumbers /\ TotalIsProduct
  BY <1>1, RingAssumption DEF StaticsAreLast, VotesAreNumbers, TotalIsProduct
<1>4. QED  BY <1>2, <1>3

-----------------------------------------------------------------------------
(* The folds of sawadm genesis over the transactions of all batches.  Each  *)
(* is a recursive function on sets of places; the function exists because  *)
(* what it should compute satisfies its equation, and any function that    *)
(* satisfies it computes that on the first k places, for each k.           *)

(* The greatest place of a set is the last one folded.                     *)
LEMMA LastPlace ==
  ASSUME NEW n \in Nat, NEW P \in SUBSET (1..n), P # {}
  PROVE  Max(P) \in P /\ \A y \in P : y <= Max(P)
<1>1. PICK x \in P : \A y \in P : y <= x
  BY GreatestIn
<1>2. \A y \in P : x >= y
  BY <1>1
<1>3. \E z \in P : \A y \in P : z >= y
  BY <1>2
<1>4. Max(P) \in P /\ \A y \in P : Max(P) >= y
  BY <1>3 DEF Max
<1>5. QED  BY <1>4

(* The last of the first numbers.                                          *)
LEMMA LastOfFirst ==
  ASSUME NEW k \in Nat
  PROVE  Max(1..(k + 1)) = k + 1 /\ (1..(k + 1)) \ {k + 1} = 1..k /\ 1..(k + 1) # {}
<1>1. k + 1 \in 1..(k + 1) /\ (1..(k + 1)) \ {k + 1} = 1..k
  OBVIOUS
<1>2. Max(1..(k + 1)) \in 1..(k + 1) /\ k + 1 <= Max(1..(k + 1))
  <2>1. k + 1 \in Nat /\ 1..(k + 1) \in SUBSET (1..(k + 1)) /\ 1..(k + 1) # {}
    BY <1>1
  <2>2. QED  BY <1>1, <2>1, LastPlace
<1>3. QED  BY <1>1, <1>2

(* Two functions of places that agree on none, and on one more whenever    *)
(* they agree on the first k, agree on the first n.                        *)
LEMMA FoldsAgree ==
  ASSUME NEW n \in Nat, NEW f, NEW g, f[{}] = g[{}],
         \A k \in Nat : k < n /\ f[1..k] = g[1..k] => f[1..(k + 1)] = g[1..(k + 1)]
  PROVE  f[1..n] = g[1..n]
<1> DEFINE Bad == {i \in 0..n : f[1..i] # g[1..i]}
<1> SUFFICES ASSUME Bad # {} PROVE FALSE
  OBVIOUS
<1>1. Bad \in SUBSET Nat
  OBVIOUS
<1>2. PICK i \in Bad : \A j \in Bad : i <= j
  BY <1>1, LeastIn
<1>3. i # 0
  <2>1. 1..0 = {}
    OBVIOUS
  <2>2. QED  BY <2>1
<1>4. PICK m \in Nat : i = m + 1 /\ m \in 0..n /\ m < n
  <2>1. i - 1 \in Nat /\ i = (i - 1) + 1 /\ i - 1 \in 0..n /\ i - 1 < n
    BY <1>3
  <2>2. QED  BY <2>1
<1>5. f[1..m] = g[1..m]
  BY <1>2, <1>4
<1>6. QED  BY <1>2, <1>4, <1>5

DependencyStep(acc, t) ==
  [ids |-> acc.ids \cup {t.id}, ok |-> acc.ok /\ t.deps \subseteq acc.ids]
DependencyFold(s, f) ==
  f = [P \in SUBSET DOMAIN s |->
         IF P = {} THEN [ids |-> {}, ok |-> TRUE]
         ELSE DependencyStep(f[P \ {Max(P)}], s[Max(P)])]

IdsAt(s, P) == {s[j].id : j \in P}
DependenciesAt(s, P) == \A k \in P : s[k].deps \subseteq IdsAt(s, {j \in P : j < k})

(* What the dependency check computes.                                     *)
LEMMA DependenciesChecked ==
  ASSUME NEW batches, NEW T, FlattenSeq(batches) \in Seq(T)
  PROVE  DependenciesValid(batches) <=>
           LET s == FlattenSeq(batches) IN DependenciesAt(s, DOMAIN s)
<1> DEFINE s == FlattenSeq(batches)
           C == [P \in SUBSET DOMAIN s |-> [ids |-> IdsAt(s, P), ok |-> DependenciesAt(s, P)]]
           f == CHOOSE g : DependencyFold(s, g)
<1>1. DependenciesValid(batches) <=> f[DOMAIN s].ok
  BY DEF DependenciesValid, FoldLeft, MapThenFoldSet, DependencyFold, DependencyStep
<1>2. PICK n \in Nat : DOMAIN s = 1..n
  <2>1. s \in Seq(T)
    OBVIOUS
  <2> HIDE DEF s
  <2>2. Len(s) \in Nat /\ DOMAIN s = 1..Len(s)
    BY <2>1
  <2>3. QED  BY <2>2
<1> HIDE DEF s
<1>3. DependencyFold(s, C)
  <2>1. C[{}] = [ids |-> {}, ok |-> TRUE]
    BY DEF IdsAt, DependenciesAt
  <2>2. ASSUME NEW P \in SUBSET DOMAIN s, P # {}
        PROVE  C[P] = DependencyStep(C[P \ {Max(P)}], s[Max(P)])
    <3> DEFINE x == Max(P)
    <3>1. x \in P /\ (\A y \in P : y <= x) /\ P \subseteq Nat
      <4>1. P \in SUBSET (1..n) /\ P \subseteq Nat
        BY <1>2
      <4>2. QED  BY <2>2, <4>1, LastPlace
    <3> HIDE DEF x
    <3>2. C[P \ {x}] = [ids |-> IdsAt(s, P \ {x}), ok |-> DependenciesAt(s, P \ {x})]
      OBVIOUS
    <3>3. IdsAt(s, P) = IdsAt(s, P \ {x}) \cup {s[x].id}
      BY <3>1 DEF IdsAt
    <3>4. {j \in P : j < x} = P \ {x}
      BY <3>1
    <3>5. \A k \in P \ {x} : {j \in P : j < k} = {j \in P \ {x} : j < k}
      BY <3>1
    <3>6. DependenciesAt(s, P)
            <=> DependenciesAt(s, P \ {x}) /\ s[x].deps \subseteq IdsAt(s, P \ {x})
      BY <3>1, <3>4, <3>5 DEF DependenciesAt
    <3>7. DependencyStep(C[P \ {x}], s[x]) =
            [ids |-> IdsAt(s, P \ {x}) \cup {s[x].id},
             ok |-> DependenciesAt(s, P \ {x}) /\ s[x].deps \subseteq IdsAt(s, P \ {x})]
      BY <3>2 DEF DependencyStep
    <3>8. C[P] = [ids |-> IdsAt(s, P), ok |-> DependenciesAt(s, P)]
      OBVIOUS
    <3> HIDE DEF C
    <3>9. C[P] = DependencyStep(C[P \ {x}], s[x])
      <4> DEFINE b == DependenciesAt(s, P)
                 c == DependenciesAt(s, P \ {x}) /\ s[x].deps \subseteq IdsAt(s, P \ {x})
      <4>1. b = c
        <5>1. b \in BOOLEAN /\ c \in BOOLEAN
          BY DEF DependenciesAt
        <5>2. b <=> c
          BY <3>6
        <5> HIDE DEF b, c
        <5>3. QED  BY <5>1, <5>2
      <4>2. /\ DependencyStep(C[P \ {x}], s[x]) =
                [ids |-> IdsAt(s, P \ {x}) \cup {s[x].id}, ok |-> c]
            /\ C[P] = [ids |-> IdsAt(s, P), ok |-> b]
        BY <3>7, <3>8
      <4> HIDE DEF b, c
      <4>3. QED  BY <3>3, <4>1, <4>2
    <3>10. QED  BY <3>9 DEF x
  <2> HIDE DEF C
  <2>3. C = [P \in SUBSET DOMAIN s |-> C[P]]
    BY DEF C
  <2>4. QED  BY <2>1, <2>2, <2>3 DEF DependencyFold
<1> HIDE DEF C
<1>4. DependencyFold(s, f)
  BY <1>3
<1> HIDE DEF f
<1>5. ASSUME NEW g, DependencyFold(s, g)
      PROVE  /\ g[{}] = [ids |-> {}, ok |-> TRUE]
             /\ \A k \in Nat : k < n => g[1..(k + 1)] = DependencyStep(g[1..k], s[k + 1])
  <2>1. \A P \in SUBSET DOMAIN s : P # {} => g[P] = DependencyStep(g[P \ {Max(P)}], s[Max(P)])
    BY <1>5 DEF DependencyFold
  <2>2. g[{}] = [ids |-> {}, ok |-> TRUE]
    BY <1>5 DEF DependencyFold
  <2>3. ASSUME NEW k \in Nat, k < n
        PROVE  g[1..(k + 1)] = DependencyStep(g[1..k], s[k + 1])
    <3>1. 1..(k + 1) \in SUBSET DOMAIN s
      BY <1>2, <2>3
    <3>2. QED  BY <2>1, <3>1, LastOfFirst
  <2>4. QED  BY <2>2, <2>3
<1>6. f[1..n] = C[1..n]
  <2>1. f[{}] = C[{}]
    BY <1>3, <1>4, <1>5
  <2>2. \A k \in Nat : k < n /\ f[1..k] = C[1..k] => f[1..(k + 1)] = C[1..(k + 1)]
    BY <1>3, <1>4, <1>5
  <2>3. QED  BY <2>1, <2>2, FoldsAgree
<1>7. C[1..n].ok <=> DependenciesAt(s, 1..n)
  BY <1>2 DEF C
<1>8. QED  BY <1>1, <1>2, <1>6, <1>7 DEF s

MissingFold(s, f) ==
  f = [P \in SUBSET DOMAIN s |->
         IF P = {} THEN Required ELSE f[P \ {Max(P)}] \ {s[Max(P)].setting}]

(* What the check of the required settings computes.                       *)
LEMMA SettingsChecked ==
  ASSUME NEW batches, NEW T, FlattenSeq(batches) \in Seq(T)
  PROVE  MissingSettings(batches) =
           LET s == FlattenSeq(batches) IN Required \ {s[j].setting : j \in DOMAIN s}
<1> DEFINE s == FlattenSeq(batches)
           C == [P \in SUBSET DOMAIN s |-> Required \ {s[j].setting : j \in P}]
           f == CHOOSE g : MissingFold(s, g)
<1>1. MissingSettings(batches) = f[DOMAIN s]
  BY DEF MissingSettings, FoldLeft, MapThenFoldSet, MissingFold
<1>2. PICK n \in Nat : DOMAIN s = 1..n
  <2>1. s \in Seq(T)
    OBVIOUS
  <2> HIDE DEF s
  <2>2. Len(s) \in Nat /\ DOMAIN s = 1..Len(s)
    BY <2>1
  <2>3. QED  BY <2>2
<1> HIDE DEF s
<1>3. MissingFold(s, C)
  <2>1. ASSUME NEW P \in SUBSET DOMAIN s, P # {}
        PROVE  C[P] = C[P \ {Max(P)}] \ {s[Max(P)].setting}
    <3>1. P \in SUBSET (1..n)
      BY <1>2
    <3>2. Max(P) \in P
      BY <2>1, <3>1, LastPlace
    <3>3. QED  BY <3>2
  <2>2. C[{}] = Required
    OBVIOUS
  <2> HIDE DEF C
  <2>3. C = [P \in SUBSET DOMAIN s |-> C[P]]
    BY DEF C
  <2>4. QED  BY <2>1, <2>2, <2>3 DEF MissingFold
<1>4. MissingFold(s, f)
  BY <1>3
<1> HIDE DEF f, C
<1>5. ASSUME NEW g, MissingFold(s, g)
      PROVE  /\ g[{}] = Required
             /\ \A k \in Nat : k < n => g[1..(k + 1)] = g[1..k] \ {s[k + 1].setting}
  <2>1. \A P \in SUBSET DOMAIN s : P # {} => g[P] = g[P \ {Max(P)}] \ {s[Max(P)].setting}
    BY <1>5 DEF MissingFold
  <2>2. g[{}] = Required
    BY <1>5 DEF MissingFold
  <2>3. ASSUME NEW k \in Nat, k < n
        PROVE  g[1..(k + 1)] = g[1..k] \ {s[k + 1].setting}
    <3>1. 1..(k + 1) \in SUBSET DOMAIN s
      BY <1>2, <2>3
    <3>2. g[1..(k + 1)] =
            g[(1..(k + 1)) \ {Max(1..(k + 1))}] \ {s[Max(1..(k + 1))].setting}
      BY <2>1, <3>1, LastOfFirst
    <3>3. Max(1..(k + 1)) = k + 1 /\ (1..(k + 1)) \ {k + 1} = 1..k
      BY LastOfFirst
    <3>4. QED  BY <3>2, <3>3
  <2>4. QED  BY <2>2, <2>3
<1>6. f[1..n] = C[1..n]
  <2>1. f[{}] = C[{}]
    BY <1>3, <1>4, <1>5
  <2>2. \A k \in Nat : k < n /\ f[1..k] = C[1..k] => f[1..(k + 1)] = C[1..(k + 1)]
    BY <1>3, <1>4, <1>5
  <2>3. QED  BY <2>1, <2>2, FoldsAgree
<1>7. QED  BY <1>1, <1>2, <1>6 DEF C, s

JoinedUpTo(b, k, g) ==
  g = [i \in 1..k |-> IF i = 1 THEN b[i] ELSE g[i - 1] \o b[i]]

(* Batches joined are one sequence of transactions.                        *)
LEMMA BatchesJoined ==
  ASSUME NEW T, NEW b \in Seq(Seq(T))
  PROVE  FlattenSeq(b) \in Seq(T)
<1>1. Len(b) \in Nat /\ DOMAIN b = 1..Len(b)
  OBVIOUS
<1>2. CASE Len(b) = 0
  <2>1. FlattenSeq(b) = b /\ b = << >>
    BY <1>2 DEF FlattenSeq
  <2>2. QED  BY <2>1
<1>3. CASE Len(b) # 0
  <2> DEFINE Joins == {k \in Nat : \E g : JoinedUpTo(b, k, g)}
             Not == Nat \ Joins
  <2>1. Joins = Nat
    <3> SUFFICES ASSUME Not # {} PROVE FALSE
      OBVIOUS
    <3>1. PICK k \in Not : \A j \in Not : k <= j
      BY LeastIn
    <3>2. k # 0
      <4>1. JoinedUpTo(b, 0, << >>)
        BY DEF JoinedUpTo
      <4>2. QED  BY <4>1
    <3>3. k - 1 \in Nat /\ k - 1 \in Joins
      BY <3>1, <3>2
    <3>4. PICK g : JoinedUpTo(b, k - 1, g)
      BY <3>3
    <3> DEFINE h == [i \in 1..k |->
                     IF i < k THEN g[i] ELSE IF k = 1 THEN b[1] ELSE g[k - 1] \o b[k]]
    <3>5. ASSUME NEW i \in 1..k PROVE h[i] = IF i = 1 THEN b[i] ELSE h[i - 1] \o b[i]
      <4>1. CASE i = k
        BY <3>2, <4>1
      <4>2. CASE i < k
        <5>1. i \in 1..(k - 1)
          BY <4>2
        <5>2. g[i] = IF i = 1 THEN b[i] ELSE g[i - 1] \o b[i]
          BY <3>4, <5>1 DEF JoinedUpTo
        <5>3. i # 1 => i - 1 \in 1..k /\ i - 1 < k
          BY <4>2
        <5>4. QED  BY <4>2, <5>2, <5>3
      <4>3. QED  BY <4>1, <4>2
    <3> HIDE DEF h
    <3>6. h = [i \in 1..k |-> h[i]]
      BY DEF h
    <3>7. JoinedUpTo(b, k, h)
      BY <3>5, <3>6 DEF JoinedUpTo
    <3>8. QED  BY <3>7, <3>1
  <2> DEFINE f == CHOOSE g : JoinedUpTo(b, Len(b), g)
  <2>2. JoinedUpTo(b, Len(b), f)
    <3>1. Len(b) \in Joins
      BY <1>1, <2>1
    <3>2. QED  BY <3>1
  <2>3. FlattenSeq(b) = f[Len(b)]
    BY <1>3 DEF FlattenSeq, JoinedUpTo
  <2> HIDE DEF f
  <2>4. ASSUME NEW k \in 1..Len(b) PROVE f[k] \in Seq(T)
    <3> DEFINE Bad == {i \in 1..Len(b) : f[i] \notin Seq(T)}
    <3> SUFFICES ASSUME Bad # {} PROVE FALSE
      BY <2>4
    <3>1. PICK i \in Bad : \A j \in Bad : i <= j
      <4>1. Bad \in SUBSET Nat
        OBVIOUS
      <4>2. QED  BY <4>1, LeastIn
    <3>2. f[i] = IF i = 1 THEN b[i] ELSE f[i - 1] \o b[i]
      BY <2>2 DEF JoinedUpTo
    <3>3. b[i] \in Seq(T)
      BY <1>1
    <3>4. i # 1 => f[i - 1] \in Seq(T)
      <4>1. i # 1 => i - 1 \in 1..Len(b) /\ ~(i <= i - 1)
        BY <1>1
      <4>2. QED  BY <4>1, <3>1
    <3>5. f[i] \in Seq(T)
      BY <3>2, <3>3, <3>4
    <3>6. QED  BY <3>5
  <2>5. QED  BY <1>1, <1>3, <2>3, <2>4
<1>4. QED  BY <1>2, <1>3

-----------------------------------------------------------------------------
(* Genesis.                                                                *)

Txns == [id : TxnIds, deps : SUBSET TxnIds, setting : {"", "keys", "threshold", "name", "version"}]

(* The batches of any input files are transactions of the known ids.       *)
LEMMA BatchType ==
  ASSUME GenesisArguments
  PROVE  Batches \in Seq(Seq(Txns))
<1>1. ASSUME NEW t \in TxnIds, NEW d \in SUBSET TxnIds,
             NEW e \in {"", "keys", "threshold", "name", "version"}
      PROVE  Txn(t, d, e) \in Txns
  BY DEF Txn, Txns
<1>2. Batch("config") \in Seq(Txns)
  <2>1. Txn("keys", {}, "keys") \in Txns /\ Txn("threshold", {}, "threshold") \in Txns
    BY <1>1 DEF TxnIds
  <2>2. /\ << Txn("keys", {}, "keys") >> \in Seq(Txns)
        /\ << Txn("threshold", {}, "threshold") >> \in Seq(Txns) /\ << >> \in Seq(Txns)
    BY <2>1
  <2>3. Batch("config") =
         << Txn("keys", {}, "keys") >> \o
         (IF threshold = NoThreshold THEN << >> ELSE << Txn("threshold", {}, "threshold") >>)
    BY DEF Batch
  <2>4. QED  BY <2>2, <2>3
<1>3. Batch("proposal") \in Seq(Txns)
  <2>1. Batch("proposal") =
          [k \in DOMAIN proposals |-> Txn(IF k = 1 THEN "p1" ELSE "p2", {}, proposals[k])]
    BY DEF Batch
  <2>2. ASSUME NEW k \in DOMAIN proposals
        PROVE  Txn(IF k = 1 THEN "p1" ELSE "p2", {}, proposals[k]) \in Txns
    <3>1. proposals[k] \in {"name", "version"}
      BY DEF GenesisArguments
    <3>2. (IF k = 1 THEN "p1" ELSE "p2") \in TxnIds
      BY DEF TxnIds
    <3>3. {} \in SUBSET TxnIds /\ proposals[k] \in {"", "keys", "threshold", "name", "version"}
      BY <3>1
    <3>4. QED  BY <1>1, <3>2, <3>3
  <2>3. PICK n \in Nat : DOMAIN proposals = 1..n
    BY DEF GenesisArguments
  <2>4. QED  BY <2>1, <2>2, <2>3
<1>4. Batch("client") \in Seq(Txns)
  <2>1. Batch("client") = << Txn("c1", clientDeps[1], ""), Txn("c2", clientDeps[2], "") >>
    BY DEF Batch
  <2>2. Txn("c1", clientDeps[1], "") \in Txns /\ Txn("c2", clientDeps[2], "") \in Txns
    <3>1. clientDeps[1] \in SUBSET TxnIds /\ clientDeps[2] \in SUBSET TxnIds
      BY DEF GenesisArguments
    <3>2. "c1" \in TxnIds /\ "c2" \in TxnIds
      BY DEF TxnIds
    <3>3. "" \in {"", "keys", "threshold", "name", "version"}
      OBVIOUS
    <3>4. QED  BY <1>1, <3>1, <3>2, <3>3
  <2>3. ASSUME NEW a \in Txns, NEW b \in Txns
        PROVE  << a, b >> \in Seq(Txns)
    OBVIOUS
  <2>4. QED  BY <2>1, <2>2, <2>3
<1>5. inputs \in Seq({"config", "proposal", "client"})
  BY DEF GenesisArguments
<1>6. \A k \in DOMAIN inputs : Batch(inputs[k]) \in Seq(Txns)
  BY <1>2, <1>3, <1>4, <1>5
<1>7. PICK n \in Nat : DOMAIN inputs = 1..n
  BY <1>5
<1>8. QED  BY <1>6, <1>7 DEF Batches

(* The genesis is executable exactly when both checks pass.                *)
LEMMA ChecksDecide ==
  ASSUME GenesisArguments
  PROVE  Executable <=>
           DependenciesValid(Batches) /\ (ignore \/ MissingSettings(Batches) = {})
<1>1. Genesis \in Seq(Txns)
  BY BatchType, BatchesJoined DEF Genesis
<1>2. DependenciesValid(Batches) <=> DependenciesAt(Genesis, DOMAIN Genesis)
  BY <1>1, DependenciesChecked DEF Genesis
<1>3. MissingSettings(Batches) = Required \ {Genesis[j].setting : j \in DOMAIN Genesis}
  BY <1>1, SettingsChecked DEF Genesis
<1>4. \A k \in DOMAIN Genesis : Genesis[k].deps \subseteq TxnIds
  <2>1. \A k \in DOMAIN Genesis : Genesis[k] \in Txns
    BY <1>1
  <2>2. QED  BY <2>1 DEF Txns
<1>5. \A k \in DOMAIN Genesis : {j \in DOMAIN Genesis : j < k} = 1..(k - 1)
  <2>1. Len(Genesis) \in Nat /\ DOMAIN Genesis = 1..Len(Genesis)
    BY <1>1
  <2>2. QED  BY <2>1
<1>6. DependenciesAt(Genesis, DOMAIN Genesis) <=>
        \A k \in DOMAIN Genesis, d \in TxnIds :
          d \in Genesis[k].deps => \E j \in 1..(k - 1) : Genesis[j].id = d
  BY <1>4, <1>5 DEF DependenciesAt, IdsAt
<1>7. MissingSettings(Batches) = {} <=>
        \A e \in Required : \E k \in DOMAIN Genesis : Genesis[k].setting = e
  BY <1>3
<1>8. QED  BY <1>2, <1>6, <1>7 DEF Executable

(* A threshold up to the number of keys listed can be reached when no key  *)
(* is listed twice.                                                        *)
LEMMA ThresholdReached ==
  ASSUME GenesisArguments, GenesisMade, making \in {"combine", "written"}
  PROVE  ThresholdReachable
<1> SUFFICES ASSUME IsInjective(listed)
             PROVE  /\ OwnKey \in ToSet(authorized)
                    /\ threshold # NoThreshold =>
                         threshold \in 1 .. Cardinality(ToSet(authorized))
  BY DEF ThresholdReachable
<1>1. \A s : ToSet(s) = Range(s)
  BY DEF ToSet, Range
<1>2. listed \in Seq(Keys) /\ OwnKey \in Keys /\ authorized = AuthorizedKeys
  BY GenesisAssumption DEF GenesisArguments, GenesisMade
<1>3. authorized \in Seq(Keys) /\ IsInjective(authorized) /\ OwnKey \in Range(authorized)
  <2>1. CASE listed = << >>
    <3>1. authorized = << OwnKey >>
      BY <1>2, <2>1 DEF AuthorizedKeys
    <3>2. QED  BY <1>2, <3>1 DEF IsInjective, Range
  <2>2. CASE listed # << >> /\ OwnKey \in ToSet(listed)
    BY <1>1, <1>2, <2>2 DEF AuthorizedKeys
  <2>3. CASE listed # << >> /\ OwnKey \notin ToSet(listed)
    <3>1. authorized = Append(listed, OwnKey) /\ OwnKey \notin Range(listed)
      BY <1>1, <1>2, <2>3 DEF AuthorizedKeys
    <3>2. QED  BY <1>2, <3>1, AppendElements, AppendDistinct
  <2>4. QED  BY <2>1, <2>2, <2>3
<1>4. Cardinality(ToSet(authorized)) = Len(authorized)
  BY <1>1, <1>3, DistinctCount
<1>5. QED  BY <1>1, <1>3, <1>4 DEF GenesisMade

(* Both commands keep the invariant.                                       *)
LEMMA GenesisStep ==
  ASSUME GenesisArguments, GenesisMade, [GenesisNext]_genesisVars
  PROVE  GenesisArguments' /\ GenesisMade'
<1>1. CASE ConfigGenesis
  <2>1. /\ making = "config" /\ UNCHANGED << listed, threshold, proposals, clientDeps, inputs >>
        /\ \/ making' = "raised"
           \/ /\ making' = "combine" /\ authorized' = AuthorizedKeys
              /\ ~(threshold # NoThreshold /\ (threshold < 1 \/ threshold > Len(AuthorizedKeys)))
    BY <1>1 DEF ConfigGenesis
  <2>2. Len(AuthorizedKeys) \in Nat
    <3>1. listed \in Seq(Keys) /\ OwnKey \in Keys
      BY GenesisAssumption DEF GenesisArguments
    <3>2. AuthorizedKeys \in Seq(Keys)
      BY <3>1 DEF AuthorizedKeys
    <3>3. QED  BY <3>2
  <2>3. AuthorizedKeys' = AuthorizedKeys
    BY <2>1 DEF AuthorizedKeys
  <2>4. making' = "combine" /\ threshold # NoThreshold => threshold \in 1 .. Len(AuthorizedKeys)
    BY <2>1, <2>2 DEF GenesisArguments
  <2>5. QED  BY <2>1, <2>3, <2>4 DEF GenesisArguments, GenesisMade
<1>2. ASSUME NEW files \in BoundedSeq({"config", "proposal", "client"}, 3), Combine(files)
      PROVE  GenesisArguments' /\ GenesisMade'
  <2>1. files \in Seq({"config", "proposal", "client"})
    <3>1. BoundedSeq({"config", "proposal", "client"}, 3) =
            UNION {[1..m -> {"config", "proposal", "client"}] : m \in 0..3}
      BY DEF BoundedSeq, SeqOf
    <3>2. PICK m \in 0..3 : files \in [1..m -> {"config", "proposal", "client"}]
      BY <3>1
    <3>3. QED  BY <3>2
  <2>2. /\ making = "combine" /\ inputs' = files
        /\ UNCHANGED << listed, threshold, proposals, clientDeps, ignore, authorized >>
    BY <1>2 DEF Combine
  <2>3. [k \in DOMAIN files |-> Batch(files[k])] = Batches'
    BY <2>2 DEF Batches, Batch
  <2>4. /\ making' \in {"written", "raised"}
        /\ making' = "written" <=>
             DependenciesValid(Batches') /\ (ignore \/ MissingSettings(Batches') = {})
    BY <1>2, <2>3 DEF Combine
  <2>5. AuthorizedKeys' = AuthorizedKeys
    BY <2>2 DEF AuthorizedKeys
  <2>6. QED  BY <2>1, <2>2, <2>4, <2>5 DEF GenesisArguments, GenesisMade
<1>3. CASE UNCHANGED genesisVars
  <2>1. UNCHANGED << listed, threshold, proposals, clientDeps, ignore, authorized, inputs, making >>
    BY <1>3 DEF genesisVars
  <2>2. AuthorizedKeys' = AuthorizedKeys
    BY <2>1 DEF AuthorizedKeys
  <2>3. Batches' = Batches
    BY <2>1 DEF Batches, Batch
  <2>4. GenesisArguments'
    BY <2>1 DEF GenesisArguments
  <2>5. GenesisMade'
    BY <2>1, <2>2, <2>3 DEF GenesisMade
  <2>6. QED  BY <2>4, <2>5
<1>4. QED  BY <1>1, <1>2, <1>3 DEF GenesisNext

(* The arguments of both commands are as the invariant says.               *)
LEMMA GenesisStarts ==
  ASSUME GenesisInit \/ GenesisIdle
  PROVE  GenesisArguments /\ GenesisMade
<1>1. ASSUME NEW keys \in Seq(Keys), NEW t \in {NoThreshold} \cup Nat,
             NEW settings \in Seq({"name", "version"}), NEW deps \in [1..2 -> SUBSET TxnIds],
             NEW skip, GenesisStart(keys, t, settings, deps, skip)
      PROVE  GenesisArguments /\ GenesisMade
  BY <1>1 DEF GenesisStart, GenesisArguments, GenesisMade
<1>2. CASE GenesisIdle
  <2>1. << >> \in Seq(Keys) /\ << >> \in Seq({"name", "version"})
        /\ << {}, {} >> \in [1..2 -> SUBSET TxnIds]
    OBVIOUS
  <2>2. QED  BY <1>1, <1>2, <2>1 DEF GenesisIdle
<1>3. CASE GenesisInit
  <2>1. BoundedSeq(Keys, MaxKeys) \subseteq Seq(Keys)
    BY DEF BoundedSeq, SeqOf
  <2>2. << "name" >> \in Seq({"name", "version"})
        /\ << "version", "name" >> \in Seq({"name", "version"})
    OBVIOUS
  <2>3. [1..2 -> {{}, {"p1"}, {"c1"}, {"keys", "c1"}}] \subseteq [1..2 -> SUBSET TxnIds]
    <3>1. {{}, {"p1"}, {"c1"}, {"keys", "c1"}} \subseteq SUBSET TxnIds
      BY DEF TxnIds
    <3>2. QED  BY <3>1
  <2>4. {NoThreshold} \cup 0..(MaxKeys + 1) \subseteq {NoThreshold} \cup Nat
    BY GenesisAssumption
  <2>5. PICK keys \in BoundedSeq(Keys, MaxKeys), t \in {NoThreshold} \cup 0..(MaxKeys + 1),
            settings \in {<< "name" >>, << "version", "name" >>},
            deps \in [1..2 -> {{}, {"p1"}, {"c1"}, {"keys", "c1"}}], skip \in BOOLEAN :
          GenesisStart(keys, t, settings, deps, skip)
    BY <1>3 DEF GenesisInit
  <2>6. keys \in Seq(Keys) /\ t \in {NoThreshold} \cup Nat
    BY <2>1, <2>4
  <2>7. settings \in Seq({"name", "version"}) /\ deps \in [1..2 -> SUBSET TxnIds]
    BY <2>2, <2>3
  <2>8. QED  BY <1>1, <2>5, <2>6, <2>7
<1>4. QED  BY <1>2, <1>3

-----------------------------------------------------------------------------
(* The blocks' chains, and lists of blocks.                                *)

ChainsUpTo(n, f) ==
  f = [b \in 1..n |-> << b >> \o IF Parent[b] = 0 THEN << >> ELSE f[Parent[b]]]

(* The blocks are numbers, each after its parent.                          *)
LEMMA BlockNumbers ==
  /\ Len(Parent) \in Nat /\ Blocks = 1..Len(Parent)
  /\ \A b \in Blocks : Parent[b] \in Nat /\ Parent[b] < b /\ (Parent[b] # 0 => Parent[b] \in Blocks)
<1>1. Parent \in Seq(Nat) /\ Len(Parent) \in Nat /\ Blocks = 1..Len(Parent)
  BY CompareAssumption DEF Blocks
<1>2. ASSUME NEW b \in Blocks
      PROVE  Parent[b] \in Nat /\ Parent[b] < b /\ (Parent[b] # 0 => Parent[b] \in Blocks)
  <2>1. Parent[b] \in 0..(b - 1) /\ b \in 1..Len(Parent)
    BY <1>1, <1>2, CompareAssumption DEF Blocks
  <2>2. QED  BY <1>1, <2>1
<1>3. QED  BY <1>1, <1>2

(* The chain of a block is the block before its parent's chain.            *)
LEMMA ChainUnfolds ==
  \A b \in Blocks : Chain[b] = << b >> \o IF Parent[b] = 0 THEN << >> ELSE Chain[Parent[b]]
<1> DEFINE Known == {n \in Nat : n > Len(Parent) \/ \E f : ChainsUpTo(n, f)}
           Not == Nat \ Known
<1>1. Known = Nat
  <2> SUFFICES ASSUME Not # {} PROVE FALSE
    OBVIOUS
  <2>1. PICK n \in Not : \A j \in Not : n <= j
    BY LeastIn
  <2>2. n <= Len(Parent)
    BY <2>1, BlockNumbers
  <2>3. n # 0
    <3>1. ChainsUpTo(0, << >>)
      BY DEF ChainsUpTo
    <3>2. QED  BY <3>1
  <2>4. n - 1 \in Nat /\ n - 1 \in Known
    BY <2>1, <2>3
  <2>5. PICK f : ChainsUpTo(n - 1, f)
    BY <2>2, <2>4, BlockNumbers
  <2> DEFINE value(b, g) == << b >> \o IF Parent[b] = 0 THEN << >> ELSE g[Parent[b]]
             h == [b \in 1..n |-> IF b < n THEN f[b] ELSE value(n, f)]
  <2>6. ASSUME NEW b \in 1..n PROVE h[b] = value(b, h)
    <3>1. Parent[b] \in Nat /\ Parent[b] < b /\ b \in Nat
      BY <2>2, BlockNumbers
    <3>2. Parent[b] # 0 => Parent[b] \in 1..n /\ Parent[b] < n /\ h[Parent[b]] = f[Parent[b]]
      BY <3>1
    <3>3. CASE b = n
      BY <3>2, <3>3
    <3>4. CASE b < n
      <4>1. b \in 1..(n - 1)
        BY <3>1, <3>4
      <4>2. f[b] = value(b, f)
        <5>1. f = [c \in 1..(n - 1) |-> value(c, f)]
          BY <2>5 DEF ChainsUpTo
        <5> HIDE DEF value
        <5>2. QED  BY <4>1, <5>1
      <4>3. h[b] = f[b]
        BY <3>4
      <4>4. value(b, f) = value(b, h)
        <5> HIDE DEF h
        <5>1. QED  BY <3>2, <3>4, <4>1
      <4>5. QED  BY <4>2, <4>3, <4>4
    <3>5. b = n \/ b < n
      BY <2>4, <3>1
    <3> HIDE DEF h, value
    <3>6. QED  BY <3>3, <3>4, <3>5
  <2>7. h = [b \in 1..n |-> value(b, h)]
    <3> HIDE DEF value
    <3>1. QED  BY <2>6
  <2> HIDE DEF h
  <2>8. ChainsUpTo(n, h)
    BY <2>7 DEF ChainsUpTo
  <2>9. QED  BY <2>1, <2>8
<1>2. PICK f : ChainsUpTo(Len(Parent), f)
  <2>1. Len(Parent) \in Known
    BY <1>1, BlockNumbers
  <2>2. QED  BY <2>1, BlockNumbers
<1>3. Chain = [b \in Blocks |-> << b >> \o IF Parent[b] = 0 THEN << >> ELSE Chain[Parent[b]]]
  BY <1>2, BlockNumbers DEF Chain, ChainsUpTo
<1>4. QED  BY <1>3

(* A block above another block of its chain has the next number.           *)
LEMMA ChainShape ==
  ASSUME NEW b \in Blocks
  PROVE  /\ Chain[b] \in Seq(Blocks) /\ Len(Chain[b]) \in Nat \ {0} /\ Chain[b][1] = b
         /\ \A k \in 1..(Len(Chain[b]) - 1) : Chain[b][k + 1] = Parent[Chain[b][k]]
<1> DEFINE Shaped(c) == /\ Chain[c] \in Seq(Blocks) /\ Len(Chain[c]) \in Nat \ {0}
                        /\ Chain[c][1] = c
                        /\ \A k \in 1..(Len(Chain[c]) - 1) : Chain[c][k + 1] = Parent[Chain[c][k]]
           Bad == {c \in Blocks : ~Shaped(c)}
<1>1. Bad = {}
  <2> SUFFICES ASSUME Bad # {} PROVE FALSE
    OBVIOUS
  <2>1. Bad \in SUBSET Nat
    BY BlockNumbers
  <2>2. PICK c \in Bad : \A d \in Bad : c <= d
    BY <2>1, LeastIn
  <2>3. c \in Blocks /\ ~Shaped(c)
    OBVIOUS
  <2>4. CASE Parent[c] = 0
    <3>1. Chain[c] = << c >> \o << >>
      BY <2>3, <2>4, ChainUnfolds
    <3>2. << c >> \in Seq(Blocks) /\ << c >> \o << >> = << c >>
      BY <2>3
    <3>3. Chain[c] = << c >>
      BY <3>1, <3>2
    <3>4. Len(<< c >>) = 1 /\ 1..(1 - 1) = {} /\ << c >>[1] = c
      OBVIOUS
    <3>5. Shaped(c)
      BY <3>2, <3>3, <3>4
    <3>6. QED  BY <2>3, <3>5
  <2>5. CASE Parent[c] # 0
    <3> DEFINE p == Parent[c]
               t == Chain[p]
    <3>1. p \in Blocks /\ p < c /\ p \in Nat /\ c \in Nat
      BY <2>1, <2>3, <2>5, BlockNumbers
    <3>2. Shaped(p)
      BY <2>2, <3>1
    <3>3. Chain[c] = << c >> \o t
      BY <2>3, <2>5, ChainUnfolds
    <3>4. /\ t \in Seq(Blocks) /\ Len(t) \in Nat \ {0} /\ t[1] = p
          /\ \A k \in 1..(Len(t) - 1) : t[k + 1] = Parent[t[k]]
      BY <3>2
    <3> HIDE DEF t
    <3>5. /\ Chain[c] \in Seq(Blocks) /\ Len(Chain[c]) = Len(t) + 1 /\ Chain[c][1] = c
          /\ \A k \in 1..Len(t) : Chain[c][k + 1] = t[k]
      BY <2>3, <3>3, <3>4
    <3>6. ASSUME NEW k \in 1..Len(t) PROVE Chain[c][k + 1] = Parent[Chain[c][k]]
      <4>1. CASE k = 1
        BY <3>4, <3>5, <4>1
      <4>2. CASE k # 1
        <5>1. k - 1 \in 1..(Len(t) - 1) /\ k - 1 \in 1..Len(t) /\ (k - 1) + 1 = k
          BY <3>4, <4>2
        <5>2. t[k] = Parent[t[k - 1]] /\ Chain[c][k] = t[k - 1]
          BY <3>4, <3>5, <5>1
        <5>3. QED  BY <3>5, <5>2
      <4>3. QED  BY <4>1, <4>2
    <3>7. QED  BY <2>3, <3>4, <3>5, <3>6
  <2>6. QED  BY <2>4, <2>5
<1>2. QED  BY <1>1

(* The number of a block is one more than its parent's.                    *)
LEMMA NumStep ==
  ASSUME NEW b \in Blocks
  PROVE  /\ Num(b) \in Nat
         /\ Parent[b] # 0 => Parent[b] \in Blocks /\ Num(b) = Num(Parent[b]) + 1
<1>1. Num(b) \in Nat
  BY ChainShape DEF Num
<1>2. ASSUME Parent[b] # 0 PROVE Parent[b] \in Blocks /\ Num(b) = Num(Parent[b]) + 1
  <2>1. Parent[b] \in Blocks
    BY <1>2, BlockNumbers
  <2>2. Chain[Parent[b]] \in Seq(Blocks) /\ Chain[b] = << b >> \o Chain[Parent[b]]
    BY <1>2, <2>1, ChainShape, ChainUnfolds
  <2>3. Len(Chain[b]) = Len(Chain[Parent[b]]) + 1 /\ Len(Chain[Parent[b]]) \in Nat
    BY <2>2
  <2>4. QED  BY <2>1, <2>3 DEF Num
<1>3. QED  BY <1>1, <1>2

(* The numbers of a list's blocks go down one by one.                      *)
LEMMA ListLevels ==
  ASSUME NEW s, IsList(s), NEW k \in 1..Len(s)
  PROVE  s[k] \in Blocks /\ Num(s[k]) \in Nat /\ Num(s[k]) = Num(s[1]) + 1 - k
<1> DEFINE Bad == {j \in 1..Len(s) : Num(s[j]) # Num(s[1]) + 1 - j}
<1>1. s \in Seq(Blocks) /\ Len(s) \in Nat
  BY DEF IsList
<1>2. \A j \in 1..Len(s) : s[j] \in Blocks /\ Num(s[j]) \in Nat
  <2>1. \A j \in 1..Len(s) : s[j] \in Blocks
    BY <1>1
  <2>2. QED  BY <2>1, NumStep
<1>3. Bad = {}
  <2> SUFFICES ASSUME Bad # {} PROVE FALSE
    OBVIOUS
  <2>1. Bad \in SUBSET Nat
    BY <1>1
  <2>2. PICK j \in Bad : \A i \in Bad : j <= i
    BY <2>1, LeastIn
  <2>3. j # 1
    <3>1. 1 \in 1..Len(s) => Num(s[1]) = Num(s[1]) + 1 - 1
      BY <1>2
    <3>2. QED  BY <2>2, <3>1
  <2>4. j - 1 \in 1..Len(s) /\ j - 1 \in 1..(Len(s) - 1) /\ (j - 1) + 1 = j /\ ~(j <= j - 1)
    BY <1>1, <2>3
  <2>5. Num(s[j - 1]) = Num(s[1]) + 1 - (j - 1)
    BY <2>2, <2>4
  <2>6. s[j] = Parent[s[j - 1]]
    BY <2>4 DEF IsList
  <2>7. s[j] \in Blocks /\ s[j] # 0 /\ s[j - 1] \in Blocks
    BY <1>2, <2>4, BlockNumbers
  <2>8. Num(s[j - 1]) = Num(s[j]) + 1
    BY <2>6, <2>7, NumStep
  <2>9. Num(s[1]) \in Nat /\ Num(s[j]) \in Nat
    BY <1>1, <1>2, <2>4
  <2>10. Num(s[j]) = Num(s[1]) + 1 - j
    <3> DEFINE u == Num(s[j])
               v == Num(s[1])
               w == Num(s[j - 1])
    <3>1. j \in Int /\ u \in Nat /\ v \in Nat /\ w = v + 1 - (j - 1) /\ w = u + 1
      BY <2>1, <2>5, <2>8, <2>9
    <3> HIDE DEF u, v, w
    <3>2. u = v + 1 - j
      BY <3>1
    <3>3. QED  BY <3>2 DEF u, v
  <2>11. QED  BY <2>2, <2>10
<1>4. QED  BY <1>2, <1>3

(* Two lists that share a block go on alike.                               *)
LEMMA ListsAgree ==
  ASSUME NEW s, NEW t, IsList(s), IsList(t), NEW u \in 1..Len(s), NEW v \in 1..Len(t), s[u] = t[v],
         NEW d \in Nat, u + d <= Len(s), v + d <= Len(t)
  PROVE  s[u + d] = t[v + d]
<1> DEFINE Bad == {e \in 0..d : s[u + e] # t[v + e]}
<1>1. Len(s) \in Nat /\ Len(t) \in Nat
  BY DEF IsList
<1>2. Bad = {}
  <2> SUFFICES ASSUME Bad # {} PROVE FALSE
    OBVIOUS
  <2>1. PICK e \in Bad : \A i \in Bad : e <= i
    <3>1. Bad \in SUBSET Nat
      OBVIOUS
    <3>2. QED  BY <3>1, LeastIn
  <2>2. e # 0
    <3>1. u + 0 = u /\ v + 0 = v
      OBVIOUS
    <3>2. QED  BY <3>1
  <2>3. e - 1 \in 0..d /\ ~(e <= e - 1)
    BY <2>2
  <2>4. s[u + (e - 1)] = t[v + (e - 1)]
    BY <2>1, <2>3
  <2>5. /\ u + (e - 1) \in 1..(Len(s) - 1) /\ (u + (e - 1)) + 1 = u + e
        /\ v + (e - 1) \in 1..(Len(t) - 1) /\ (v + (e - 1)) + 1 = v + e
    BY <1>1, <2>2
  <2>6. s[u + e] = Parent[s[u + (e - 1)]] /\ t[v + e] = Parent[t[v + (e - 1)]]
    BY <2>5 DEF IsList
  <2>7. QED  BY <2>1, <2>4, <2>6
<1>3. d \in 0..d
  OBVIOUS
<1>4. QED  BY <1>2, <1>3

(* The first n blocks of a list are a list.                                *)
LEMMA ListPiece ==
  ASSUME NEW s, IsList(s), NEW n \in 1..Len(s)
  PROVE  /\ IsList(SubSeq(s, 1, n)) /\ Len(SubSeq(s, 1, n)) = n
         /\ \A k \in 1..n : SubSeq(s, 1, n)[k] = s[k]
         /\ ToSet(SubSeq(s, 1, n)) = {s[k] : k \in 1..n}
<1>1. s \in Seq(Blocks) /\ Len(s) \in Nat
  BY DEF IsList
<1> DEFINE t == SubSeq(s, 1, n)
<1>2. t \in Seq(Blocks) /\ Len(t) = n /\ DOMAIN t = 1..n /\ \A k \in 1..n : t[k] = s[k]
  BY <1>1
<1> HIDE DEF t
<1>3. ASSUME NEW k \in 1..(Len(t) - 1) PROVE t[k + 1] = Parent[t[k]]
  <2>1. k \in 1..n /\ k + 1 \in 1..n /\ k \in 1..(Len(s) - 1)
    BY <1>1, <1>2
  <2>2. QED  BY <1>2, <2>1 DEF IsList
<1>4. t # << >>
  BY <1>2
<1>5. IsList(t)
  BY <1>2, <1>3, <1>4 DEF IsList
<1>6. ToSet(t) = {s[k] : k \in 1..n}
  BY <1>2 DEF ToSet
<1>7. QED  BY <1>2, <1>5, <1>6 DEF t

-----------------------------------------------------------------------------
(* The element of a set with k smaller ones.                               *)

(* There is one for every k that is less than the set's size.              *)
LEMMA NthIn ==
  ASSUME NEW S \in SUBSET Nat, IsFiniteSet(S), NEW k \in Nat, k < Cardinality(S)
  PROVE  Nth(S, k) \in S
<1> DEFINE Below(c) == {d \in S : d < c}
           Bad == {j \in Nat : j < Cardinality(S) /\ ~ \E c \in S : Cardinality(Below(c)) = j}
<1>1. \A T \in SUBSET S : IsFiniteSet(T)
  BY FS_Subset
<1>2. Cardinality(S) \in Nat /\ \A d \in S : d \in Nat
  BY FS_CardinalityType
<1>3. Bad = {}
  <2> SUFFICES ASSUME Bad # {} PROVE FALSE
    OBVIOUS
  <2>1. PICK j \in Bad : \A i \in Bad : j <= i
    <3>1. Bad \in SUBSET Nat
      OBVIOUS
    <3>2. QED  BY <3>1, LeastIn
  <2>2. CASE j = 0
    <3>1. S # {}
      BY <2>1, <2>2, <1>2, FS_EmptySet
    <3>2. PICK c \in S : \A d \in S : c <= d
      BY <3>1, LeastIn
    <3>3. Below(c) = {}
      <4>1. \A d \in S : ~(d < c)
        BY <1>2, <3>2
      <4>2. QED  BY <4>1
    <3>4. QED  BY <2>1, <2>2, <3>3, FS_EmptySet
  <2>3. CASE j # 0
    <3>1. j - 1 \in Nat /\ j - 1 < Cardinality(S) /\ ~(j <= j - 1)
      BY <1>2, <2>1, <2>3
    <3>2. PICK c \in S : Cardinality(Below(c)) = j - 1
      BY <2>1, <3>1
    <3> DEFINE Above == {d \in S : d > c}
               T == Below(c) \cup {c}
    <3>3. Cardinality(T) = j
      <4>1. IsFiniteSet(Below(c)) /\ c \notin Below(c)
        BY <1>1
      <4>2. Cardinality(T) = Cardinality(Below(c)) + 1
        BY <4>1, FS_AddElement
      <4>3. QED  BY <2>1, <3>2, <4>2
    <3>4. Above # {}
      <4> SUFFICES ASSUME Above = {} PROVE FALSE
        OBVIOUS
      <4>1. \A d \in S : d < c \/ d = c \/ d > c
        BY <1>2
      <4>2. S = T
        BY <4>1
      <4>3. Cardinality(S) = j
        BY <3>3, <4>2
      <4> HIDE DEF T, Above
      <4>4. QED  BY <2>1, <4>3
    <3>5. PICK e \in Above : \A d \in Above : e <= d
      <4>1. Above \in SUBSET Nat
        OBVIOUS
      <4>2. QED  BY <3>4, <4>1, LeastIn
    <3>6. Below(e) = T
      <4>1. \A d \in S : d < e <=> d < c \/ d = c
        BY <1>2, <3>5
      <4>2. QED  BY <4>1
    <3>7. QED  BY <2>1, <3>3, <3>6
  <2>4. QED  BY <2>2, <2>3
<1>4. \E c \in S : Cardinality(Below(c)) = k
  BY <1>3
<1>5. QED  BY <1>4 DEF Nth

(* In the first n numbers it is k itself.                                  *)
LEMMA NthOfFirst ==
  ASSUME NEW n \in Nat, NEW k \in 0..(n - 1)
  PROVE  Nth(0..(n - 1), k) = k
<1>1. ASSUME NEW c \in 0..(n - 1) PROVE Cardinality({d \in 0..(n - 1) : d < c}) = c
  <2>1. {d \in 0..(n - 1) : d < c} = 0..(c - 1)
    OBVIOUS
  <2>2. Cardinality(0..(c - 1)) = c
    <3>1. 0 \in Int /\ c - 1 \in Int
      OBVIOUS
    <3>2. Cardinality(0..(c - 1)) = IF 0 > c - 1 THEN 0 ELSE c - 1 - 0 + 1
      BY <3>1, FS_Interval
    <3>3. QED  BY <3>2
  <2>3. QED  BY <2>1, <2>2
<1> DEFINE P(c) == Cardinality({d \in 0..(n - 1) : d < c}) = k
<1>2. P(k)
  BY <1>1
<1>3. \A c \in 0..(n - 1) : P(c) => c = k
  BY <1>1
<1>4. Nth(0..(n - 1), k) = CHOOSE c \in 0..(n - 1) : P(c)
  BY DEF Nth
<1> HIDE DEF P
<1>5. QED  BY <1>2, <1>3, <1>4

-----------------------------------------------------------------------------
(* Bags of peers.                                                          *)

(* Adding a set adds one copy of each of its elements.                     *)
LEMMA CopiesAdded ==
  ASSUME NEW A, IsABag(A), NEW S
  PROVE  /\ IsABag(A (+) SetToBag(S)) /\ BagToSet(A (+) SetToBag(S)) = BagToSet(A) \cup S
         /\ \A i : /\ Copies(i, A) \in Nat
                   /\ Copies(i, A (+) SetToBag(S)) = Copies(i, A) + IF i \in S THEN 1 ELSE 0
<1> DEFINE B == A (+) SetToBag(S)
<1>1. DOMAIN B = DOMAIN A \cup S
  BY DEF (+), SetToBag
<1>2. ASSUME NEW i \in DOMAIN B
      PROVE  B[i] = (IF i \in DOMAIN A THEN A[i] ELSE 0) + (IF i \in S THEN 1 ELSE 0)
  BY <1>1 DEF (+), SetToBag
<1>3. \A i \in DOMAIN A : A[i] \in Nat /\ A[i] > 0
  BY DEF IsABag
<1>4. B = [i \in DOMAIN B |-> B[i]]
  BY DEF (+), SetToBag
<1> HIDE DEF B
<1>5. \A i \in DOMAIN B : B[i] \in Nat /\ B[i] > 0
  BY <1>1, <1>2, <1>3
<1>6. IsABag(B)
  BY <1>4, <1>5 DEF IsABag
<1>7. ASSUME NEW i
      PROVE  Copies(i, A) \in Nat /\ Copies(i, B) = Copies(i, A) + IF i \in S THEN 1 ELSE 0
  BY <1>1, <1>2, <1>3 DEF Copies, BagIn, BagToSet
<1>8. QED  BY <1>1, <1>6, <1>7 DEF B, BagToSet

(* Removing a set keeps the copies of other elements.                      *)
LEMMA CopiesKept ==
  ASSUME NEW A, IsABag(A), NEW S
  PROVE  /\ IsABag(A (-) SetToBag(S)) /\ BagToSet(A (-) SetToBag(S)) \subseteq BagToSet(A)
         /\ \A i : i \notin S => Copies(i, A (-) SetToBag(S)) = Copies(i, A)
<1> DEFINE C == [i \in DOMAIN A |-> IF i \in S THEN A[i] - 1 ELSE A[i]]
           B == [i \in {d \in DOMAIN A : C[d] > 0} |-> C[i]]
<1>1. A (-) SetToBag(S) = B
  BY DEF (-), SetToBag
<1>2. \A i \in DOMAIN A : A[i] \in Nat /\ A[i] > 0
  BY DEF IsABag
<1>3. DOMAIN B \subseteq DOMAIN A /\ \A i \in DOMAIN A : i \notin S => i \in DOMAIN B /\ B[i] = A[i]
  BY <1>2
<1>4. \A i \in DOMAIN B : B[i] \in Nat /\ B[i] > 0
  BY <1>2
<1>5. B = [i \in DOMAIN B |-> B[i]]
  OBVIOUS
<1> HIDE DEF B
<1>6. IsABag(B)
  BY <1>4, <1>5 DEF IsABag
<1>7. QED  BY <1>1, <1>3, <1>6 DEF Copies, BagIn, BagToSet

-----------------------------------------------------------------------------
(* The graph.                                                              *)

(* Its root stays the first block of the lowest number.                    *)
LEMMA RootAdded ==
  ASSUME NEW g, NEW D \in SUBSET Nat, NEW adds \in [D -> SUBSET Blocks],
         g.root \in Blocks \cup {0}
  PROVE  LET new == UNION {adds[i] : i \in D}
             r == AddBlocks(g, adds).root
         IN  IF g.root # 0 /\ \A b \in new : Num(g.root) <= Num(b) THEN r = g.root
             ELSE new # {} => r \in new /\ \A b \in new : Num(r) <= Num(b)
<1> DEFINE new == UNION {adds[i] : i \in D}
           lowest == {b \in new : \A c \in new : Num(b) <= Num(c)}
           Adding == {i \in D : adds[i] \cap lowest # {}}
           keep == g.root # 0 /\ \A b \in new : Num(g.root) <= Num(b)
<1>1. AddBlocks(g, adds).root =
        IF keep THEN g.root ELSE CHOOSE b \in lowest : b \in adds[Min(Adding)]
  <2>1. DOMAIN adds = D
    OBVIOUS
  <2>2. QED  BY <2>1 DEF AddBlocks
<1>2. ASSUME new # {} PROVE \E b \in lowest : b \in adds[Min(Adding)]
  <2> DEFINE Nums == {Num(b) : b \in new}
  <2>1. Nums \in SUBSET Nat /\ Nums # {}
    BY <1>2, NumStep
  <2>2. PICK m \in Nums : \A x \in Nums : m <= x
    BY <2>1, LeastIn
  <2>3. PICK b \in new : Num(b) = m
    BY <2>2
  <2>4. b \in lowest
    BY <2>2, <2>3
  <2>5. Adding # {} /\ Adding \in SUBSET Nat
    BY <2>3, <2>4
  <2> HIDE DEF Adding
  <2>6. Min(Adding) \in Adding
    BY <2>5, LeastIn DEF Min
  <2>7. QED  BY <2>6 DEF Adding
<1> HIDE DEF keep, Adding
<1>3. ASSUME new # {}, ~keep
      PROVE  AddBlocks(g, adds).root \in lowest
  BY <1>1, <1>2, <1>3
<1>4. QED  BY <1>1, <1>3 DEF keep

-----------------------------------------------------------------------------
(* compare-chains: reading the chains (get_chain_generators, get_tails).   *)

(* What the comparison needs of the clients that answered.                 *)
LEMMA AnsweringCounted ==
  ASSUME Answering # {}
  PROVE  /\ Cardinality(Answering) \in Nat \ {0} /\ Cardinality(Answering) <= Clients
         /\ \A k \in 0..(Cardinality(Answering) - 1) : Nth(Answering, k) \in Answering
         /\ Answering = 0..(Clients - 1) =>
              /\ Cardinality(Answering) = Clients
              /\ \A k \in 0..(Clients - 1) : Nth(Answering, k) = k
<1>1. Clients \in Nat /\ 0 \in Int /\ Clients - 1 \in Int
  BY CompareAssumption
<1>2. IsFiniteSet(0..(Clients - 1)) /\ Cardinality(0..(Clients - 1)) = Clients
  <2>1. Cardinality(0..(Clients - 1)) = IF 0 > Clients - 1 THEN 0 ELSE Clients - 1 - 0 + 1
    BY <1>1, FS_Interval
  <2>2. QED  BY <1>1, <2>1, FS_Interval
<1>3. Answering \subseteq 0..(Clients - 1) /\ Answering \in SUBSET Nat
  BY DEF Answering
<1>4. IsFiniteSet(Answering) /\ Cardinality(Answering) <= Clients
  BY <1>2, <1>3, FS_Subset
<1>5. Cardinality(Answering) \in Nat /\ Cardinality(Answering) # 0
  BY <1>4, FS_CardinalityType, FS_EmptySet
<1>6. ASSUME NEW k \in 0..(Cardinality(Answering) - 1) PROVE Nth(Answering, k) \in Answering
  <2>1. k \in Nat /\ k < Cardinality(Answering)
    BY <1>5
  <2>2. QED  BY <1>3, <1>4, <2>1, NthIn
<1>7. QED  BY <1>1, <1>2, <1>4, <1>5, <1>6, NthOfFirst

(* The generators are numbered by the clients that answer.                 *)
LEMMA ConnectStep ==
  ASSUME ChainsListed, Connect
  PROVE  ChainsListed' /\ TailsTaken' /\ AtOneLevel'
<1>1. /\ phase = "connect" /\ UNCHANGED << listing, tails, pos, head, bad, graph >>
      /\ chains' = [i \in 0..(Cardinality(Answering) - 1) |-> listing[Nth(Answering, i)]]
      /\ broken' = (0..(Clients - 1)) \ Answering
  BY DEF Connect
<1>2. /\ DOMAIN listing = 0..(Clients - 1)
      /\ \A c \in DOMAIN listing : listing[c] = << >> \/ IsList(listing[c])
      /\ tails = << >> /\ head = 0 /\ bad = {} /\ outcome = ""
      /\ graph = [blocks |-> {}, peers |-> [b \in Blocks |-> EmptyBag], root |-> 0]
  BY <1>1 DEF ChainsListed
<1>3. Answering' = Answering
  BY <1>1 DEF Answering
<1>4. phase' \in {"tails", "done"}
  BY DEF Connect, Ends
<1>5. TailsTaken' /\ AtOneLevel'
  BY <1>4 DEF TailsTaken, AtOneLevel
<1>6. CASE Answering = {}
  <2>1. phase' = "done"
    BY <1>6 DEF Connect, Ends
  <2>2. ChainsListed'
    BY <1>1, <1>2, <2>1 DEF ChainsListed, Working
  <2>3. QED  BY <1>5, <2>2
<1>7. CASE Answering # {}
  <2> DEFINE n == Cardinality(Answering)
  <2>1. phase' = "tails" /\ outcome' = ""
    BY <1>2, <1>7 DEF Connect
  <2>2. n \in Nat \ {0} /\ n <= Clients /\ \A k \in 0..(n - 1) : Nth(Answering, k) \in Answering
    BY <1>7, AnsweringCounted
  <2>3. Clients \in Nat
    BY CompareAssumption
  <2> HIDE DEF n
  <2>4. Read' = 0..(n - 1) /\ \A i \in 0..(n - 1) : chains'[i] = listing[Nth(Answering, i)]
    BY <1>1 DEF Read, n
  <2>5. Read' # {} /\ Read' \subseteq 0..(Clients - 1)
    <3>1. 0 \in 0..(n - 1) /\ \A i \in 0..(n - 1) : i \in 0..(Clients - 1)
      BY <2>2, <2>3
    <3>2. QED  BY <2>4, <3>1
  <2>6. \A i \in 0..(n - 1) : IsList(chains'[i])
    <3>1. \A c \in Answering : IsList(listing[c])
      BY <1>2 DEF Answering
    <3>2. QED  BY <2>2, <2>4, <3>1
  <2>7. ASSUME Answering = 0..(Clients - 1), NEW i \in 0..(n - 1) PROVE chains'[i] = listing[i]
    <3>1. n = Clients /\ \A k \in 0..(Clients - 1) : Nth(Answering, k) = k
      BY <1>7, <2>7, AnsweringCounted DEF n
    <3>2. QED  BY <2>4, <2>7, <3>1
  <2>8. ChainsListed'
    <3>1. Read' = 0..(Cardinality(Answering') - 1)
      BY <1>3, <2>4 DEF n
    <3>2. /\ Read' # {} /\ Read' \subseteq 0..(Clients - 1) /\ bad' \subseteq Read'
          /\ \A i \in Read' : IsList(chains'[i])
          /\ Answering' = 0..(Clients - 1) => \A i \in Read' : chains'[i] = listing'[i]
          /\ broken' \subseteq
               ((0..(Clients - 1)) \ Answering') \cup (DOMAIN tails' \ Read') \cup bad'
      BY <1>1, <1>2, <1>3, <2>4, <2>5, <2>6, <2>7
    <3>3. QED  BY <1>1, <1>2, <2>1, <3>1, <3>2 DEF ChainsListed, Working
  <2>9. QED  BY <1>5, <2>8
<1>8. QED  BY <1>6, <1>7

(* A sequence turned around twice is itself.                               *)
LEMMA ReverseFacts ==
  ASSUME NEW T, NEW s \in Seq(T)
  PROVE  /\ Reverse(s) \in Seq(T) /\ Len(Reverse(s)) = Len(s) /\ Reverse(Reverse(s)) = s
         /\ \A k \in 1..Len(s) : Reverse(s)[k] = s[Len(s) - k + 1]
         /\ ToSet(Reverse(s)) = ToSet(s)
<1> DEFINE n == Len(s)
           r == Reverse(s)
<1>1. n \in Nat /\ s = [k \in 1..n |-> s[k]] /\ \A k \in 1..n : s[k] \in T
  OBVIOUS
<1>2. r = [k \in 1..n |-> s[n - k + 1]]
  BY DEF Reverse
<1>3. \A k \in 1..n : n - k + 1 \in 1..n /\ n - (n - k + 1) + 1 = k
  BY <1>1
<1>4. r \in Seq(T) /\ Len(r) = n /\ \A k \in 1..n : r[k] = s[n - k + 1]
  <2>1. \A k \in 1..n : s[n - k + 1] \in T
    BY <1>1, <1>3
  <2> HIDE DEF n, r
  <2>2. r \in [1..n -> T] /\ \A k \in 1..n : r[k] = s[n - k + 1]
    BY <1>2, <2>1
  <2>3. r \in Seq(T) /\ Len(r) = n
    BY <1>1, <2>2
  <2>4. QED  BY <2>2, <2>3
<1>5. Reverse(r) = [k \in 1..n |-> r[n - k + 1]]
  BY <1>4 DEF Reverse
<1> HIDE DEF r
<1>6. \A k \in 1..n : r[n - k + 1] = s[k]
  BY <1>3, <1>4
<1>7. Reverse(r) = s
  BY <1>1, <1>5, <1>6
<1>8. ToSet(r) = ToSet(s)
  <2>1. DOMAIN r = 1..n /\ DOMAIN s = 1..n
    BY <1>1, <1>4
  <2>2. \A k \in 1..n : \E j \in 1..n : r[j] = s[k]
    BY <1>3, <1>6
  <2>3. \A k \in 1..n : \E j \in 1..n : s[j] = r[k]
    BY <1>3, <1>4
  <2>4. ToSet(r) = {r[k] : k \in 1..n} /\ ToSet(s) = {s[k] : k \in 1..n}
    BY <2>1 DEF ToSet
  <2> HIDE DEF n
  <2>5. QED  BY <2>2, <2>3, <2>4
<1>9. QED  BY <1>4, <1>7, <1>8 DEF r

(* The greatest element of a bounded set.                                  *)
LEMMA MaxIn ==
  ASSUME NEW n \in Nat, NEW S \in SUBSET (0..n), S # {}
  PROVE  Max(S) \in S /\ \A y \in S : y <= Max(S)
<1> DEFINE D == {n - y : y \in S}
<1>1. D \in SUBSET Nat /\ D # {}
  <2>1. \A y \in S : n - y \in Nat
    OBVIOUS
  <2>2. QED  BY <2>1
<1> HIDE DEF D
<1>2. PICK d \in D : \A e \in D : d <= e
  BY <1>1, LeastIn
<1>3. PICK x \in S : d = n - x
  BY DEF D
<1>4. ASSUME NEW y \in S PROVE y <= x
  <2>1. d <= n - y
    BY <1>2 DEF D
  <2>2. x \in 0..n /\ y \in 0..n
    OBVIOUS
  <2>3. QED  BY <1>3, <2>1, <2>2
<1>5. \E z \in S : \A y \in S : z >= y
  <2>1. \A y \in S : y \in Int
    OBVIOUS
  <2>2. \A y \in S : x >= y
    BY <1>4, <2>1
  <2>3. QED  BY <2>2
<1>6. Max(S) \in S /\ \A y \in S : Max(S) >= y
  BY <1>5 DEF Max
<1>7. \A y \in S : y \in Int
  OBVIOUS
<1>8. QED  BY <1>6, <1>7

(* The levels of a tail's blocks.                                          *)
LEMMA TailFacts ==
  ASSUME NEW t \in Seq(Blocks) \ {<< >>}, IsList(Reverse(t)), NEW k \in 1..Len(t)
  PROVE  t[k] \in Blocks /\ Num(t[k]) \in Nat /\ Num(t[1]) \in Nat /\ Num(t[k]) = Num(t[1]) + k - 1
<1> DEFINE n == Len(t)
           r == Reverse(t)
<1>1. n \in Nat /\ n >= 1 /\ k \in 1..n /\ 1 \in 1..n
  OBVIOUS
<1>2. Len(r) = n /\ r \in Seq(Blocks) /\ Reverse(r) = t
  BY ReverseFacts
<1> HIDE DEF r
<1>3. \A j \in 1..n : t[j] = r[n - j + 1]
  BY <1>2, ReverseFacts
<1>4. IsList(r)
  BY DEF r
<1> HIDE DEF n
<1>5. ASSUME NEW j \in 1..n
      PROVE  t[j] \in Blocks /\ Num(t[j]) \in Nat /\ Num(t[j]) = Num(r[1]) + 1 - (n - j + 1)
  <2>1. n - j + 1 \in 1..n
    BY <1>1
  <2>2. r[n - j + 1] \in Blocks /\ Num(r[n - j + 1]) \in Nat
        /\ Num(r[n - j + 1]) = Num(r[1]) + 1 - (n - j + 1)
    BY <1>2, <1>4, <2>1, ListLevels
  <2>3. QED  BY <1>3, <2>2
<1>6. Num(r[1]) \in Nat
  BY <1>1, <1>2, <1>4, ListLevels
<1>7. QED  BY <1>1, <1>5, <1>6

(* What the lowest of the newest blocks is to the chains.                  *)
LEMMA LowestNewest ==
  ASSUME Read # {}, \A i \in Read : IsList(chains[i])
  PROVE  /\ MinNum \in Nat /\ \E i \in Read : Num(chains[i][1]) = MinNum
         /\ \A i \in Read : Num(chains[i][1]) \in Nat /\ MinNum <= Num(chains[i][1])
<1> DEFINE Nums == {Num(chains[i][1]) : i \in Read}
<1>1. \A i \in Read : Num(chains[i][1]) \in Nat
  <2>1. ASSUME NEW i \in Read PROVE 1 \in 1..Len(chains[i])
    BY <2>1 DEF IsList
  <2>2. QED  BY <2>1, ListLevels
<1>2. Nums \in SUBSET Nat /\ Nums # {}
  BY <1>1
<1> HIDE DEF Nums
<1>3. Min(Nums) \in Nums /\ \A x \in Nums : Min(Nums) <= x
  BY <1>2, LeastIn DEF Min
<1>4. MinNum = Min(Nums)
  BY DEF MinNum, Nums
<1>5. QED  BY <1>1, <1>2, <1>3, <1>4 DEF Nums

(* Reading the tails: the chains that are left end at the common level.    *)
LEMMA GetTailsStep ==
  ASSUME ChainsListed, GetTails
  PROVE  ChainsListed' /\ TailsTaken' /\ AtOneLevel'
<1> DEFINE m == MinNum
           num(i) == Num(chains[i][1])
           count == [i \in Read |-> Min({Wanted(i, m), Len(chains[i])})]
           short == {i \in Read : Len(chains[i]) < Wanted(i, m)}
           all == 0..(Clients - 1)
<1>1. /\ phase = "tails" /\ phase' = "graph" /\ pos' = count
      /\ tails' = [i \in Read |-> TailOf(i, count[i])]
      /\ broken' = broken \cup short
      /\ chains' = Restrict(chains, Read \ short)
      /\ UNCHANGED << format, listing, head, bad, graph, outcome, shown >>
  BY DEF GetTails
<1>2. /\ DOMAIN listing = all /\ \A c \in DOMAIN listing : listing[c] = << >> \/ IsList(listing[c])
      /\ outcome = "" /\ head = 0 /\ bad = {} /\ tails = << >>
      /\ graph = [blocks |-> {}, peers |-> [b \in Blocks |-> EmptyBag], root |-> 0]
      /\ Read = 0..(Cardinality(Answering) - 1)
      /\ Read # {} /\ Read \subseteq all /\ \A i \in Read : IsList(chains[i])
      /\ Answering = all => \A i \in Read : chains[i] = listing[i]
      /\ broken \subseteq (all \ Answering) \cup (DOMAIN tails \ Read) \cup bad
  BY <1>1 DEF ChainsListed, Working
<1>3. /\ m \in Nat /\ \E i \in Read : num(i) = m
      /\ \A i \in Read : num(i) \in Nat /\ m <= num(i)
  BY <1>2, LowestNewest
<1>4. \A i \in Read : chains[i] \in Seq(Blocks) /\ Len(chains[i]) \in Nat \ {0}
  <2>1. ASSUME NEW i \in Read PROVE chains[i] \in Seq(Blocks) \ {<< >>}
    BY <1>2 DEF IsList
  <2>2. ASSUME NEW i \in Read PROVE Len(chains[i]) \in Nat \ {0}
    BY <2>1
  <2>3. QED  BY <2>1, <2>2
<1>5. ASSUME NEW i \in Read
      PROVE  /\ count[i] \in 1..Len(chains[i])
             /\ count[i] = IF num(i) - m + 1 <= Len(chains[i]) THEN num(i) - m + 1
                             ELSE Len(chains[i])
             /\ i \in short <=> Len(chains[i]) < num(i) - m + 1
  <2> DEFINE u == num(i)
             n == Len(chains[i])
             w == u - m + 1
  <2>1. m \in Nat /\ u \in Nat /\ n \in Nat \ {0} /\ m <= u
    BY <1>3, <1>4
  <2>2. Wanted(i, m) = w
    BY DEF Wanted
  <2> HIDE DEF m, u, n
  <2>3. w \in Int /\ n \in Int /\ 1 <= w
    BY <2>1
  <2>4. Min({w, n}) = IF w <= n THEN w ELSE n
    BY <2>3, MinOfTwo
  <2>5. Min({w, n}) \in 1..n
    BY <2>1, <2>3, <2>4
  <2>6. count[i] = Min({w, n})
    BY <2>2 DEF n
  <2> HIDE DEF count
  <2>7. i \in short <=> n < w
    BY <2>2 DEF n
  <2>8. QED  BY <2>4, <2>5, <2>6, <2>7 DEF u, n
<1> HIDE DEF m, count, short
<1>6. ASSUME NEW i \in Read
      PROVE  /\ Num(chains[i][count[i]]) \in Nat /\ m <= Num(chains[i][count[i]])
             /\ i \notin short => Num(chains[i][count[i]]) = m
  <2> DEFINE u == num(i)
             n == Len(chains[i])
             k == count[i]
             v == Num(chains[i][k])
  <2>1. m \in Nat /\ u \in Nat /\ n \in Nat \ {0} /\ m <= u
    BY <1>3, <1>4
  <2>2. k = (IF u - m + 1 <= n THEN u - m + 1 ELSE n) /\ (i \in short <=> n < u - m + 1)
        /\ k \in 1..n
    BY <1>5
  <2>3. v \in Nat /\ v = u + 1 - k
    BY <1>2, <2>2, ListLevels
  <2> HIDE DEF u, n, k, v
  <2>4. v \in Nat /\ m <= v /\ (i \notin short => v = m)
    BY <2>1, <2>2, <2>3
  <2>5. QED  BY <2>4 DEF v, k
<1>7. Read' = Read \ short /\ \A i \in Read' : chains'[i] = chains[i]
  BY <1>1 DEF Read, Restrict
<1>8. \E i \in Read' : count[i] = 1
  <2>1. PICK i \in Read : num(i) = m
    BY <1>3
  <2> DEFINE u == num(i)
             n == Len(chains[i])
             k == count[i]
  <2>2. m \in Nat /\ n \in Nat \ {0} /\ u = m
    BY <1>3, <1>4, <2>1
  <2>3. k = (IF u - m + 1 <= n THEN u - m + 1 ELSE n) /\ (i \in short <=> n < u - m + 1)
    BY <1>5
  <2> HIDE DEF u, n, k
  <2>4. k = 1 /\ i \notin short
    BY <2>2, <2>3
  <2>5. QED  BY <1>7, <2>4 DEF k
<1>9. Answering' = Answering
  BY <1>1 DEF Answering
<1>10. ChainsListed'
  <2>1. Read' # {} /\ Read' \subseteq all /\ bad' \subseteq Read'
        /\ \A i \in Read' : IsList(chains'[i])
    BY <1>1, <1>2, <1>7, <1>8
  <2>2. Answering' = all => \A i \in Read' : chains'[i] = listing'[i]
    BY <1>1, <1>2, <1>7, <1>9
  <2>3. DOMAIN tails' = Read
    BY <1>1
  <2>4. broken' \subseteq (all \ Answering') \cup (DOMAIN tails' \ Read') \cup bad'
    <3>1. DOMAIN tails = {}
      <4>1. tails = << >>
        BY <1>2
      <4>2. QED  BY <4>1
    <3>2. broken \subseteq all \ Answering
      BY <1>2, <3>1
    <3>3. short \subseteq Read /\ short \cap Read' = {}
      BY <1>7 DEF short
    <3>4. QED  BY <1>1, <1>9, <2>3, <3>2, <3>3
  <2>5. QED  BY <1>1, <1>2, <2>1, <2>2, <2>4 DEF ChainsListed, Working
<1>11. ASSUME NEW i \in Read
       PROVE  /\ tails'[i] = Reverse(SubSeq(chains[i], 1, count[i]))
              /\ tails'[i] \in Seq(Blocks) \ {<< >>}
              /\ IsList(Reverse(tails'[i])) /\ tails'[i][1] = chains[i][count[i]]
              /\ tails'[i][Len(tails'[i])] = chains[i][1]
  <2> DEFINE k == count[i]
             s == SubSeq(chains[i], 1, k)
  <2>1. IsList(chains[i]) /\ k \in 1..Len(chains[i])
    BY <1>2, <1>5
  <2>2. IsList(s) /\ Len(s) = k /\ \A j \in 1..k : s[j] = chains[i][j]
    BY <2>1, ListPiece
  <2>3. tails'[i] = Reverse(s)
    BY <1>1 DEF TailOf
  <2>4. s \in Seq(Blocks) /\ k \in Nat \ {0} /\ k \in 1..k /\ 1 \in 1..k /\ k - 1 + 1 = k
        /\ k - k + 1 = 1
    BY <1>4, <2>1, <2>2 DEF IsList
  <2> HIDE DEF s, k
  <2>5. Reverse(s) \in Seq(Blocks) /\ Len(Reverse(s)) = k /\ Reverse(Reverse(s)) = s
        /\ \A j \in 1..k : Reverse(s)[j] = s[k - j + 1]
    BY <2>2, <2>4, ReverseFacts
  <2>6. Reverse(s) # << >>
    BY <2>4, <2>5
  <2>7. Reverse(s)[1] = chains[i][k] /\ Reverse(s)[k] = chains[i][1]
    BY <2>2, <2>4, <2>5
  <2>8. QED  BY <2>2, <2>3, <2>5, <2>6, <2>7 DEF s, k
<1>12. TailsTaken'
  <2>1. Read' \subseteq DOMAIN tails' /\ DOMAIN tails' = Read /\ DOMAIN pos' = Read
    BY <1>1, <1>7 DEF count
  <2>2. \A i \in Read' : pos'[i] \in 1..Len(chains'[i]) /\ tails'[i][Len(tails'[i])] = chains'[i][1]
    BY <1>1, <1>5, <1>7, <1>11
  <2>3. QED  BY <1>2, <1>9, <1>11, <2>1, <2>2 DEF TailsTaken, Newest
<1>13. \E w \in Nat : Start(w)'
  <2>1. PICK w \in Nat : w = m
    BY <1>3
  <2>2. \A i \in Read' :
          Num(chains'[i][pos'[i]]) = w /\ tails'[i] = Reverse(SubSeq(chains'[i], 1, pos'[i]))
    BY <1>1, <1>6, <1>7, <1>11, <2>1
  <2>3. \E i \in Read' : pos'[i] = 1
    BY <1>1, <1>8
  <2>4. \A i \in DOMAIN tails' : IsList(Reverse(tails'[i])) /\ Num(tails'[i][1]) >= w
    <3>1. ASSUME NEW i \in Read PROVE IsList(Reverse(tails'[i])) /\ Num(tails'[i][1]) >= w
      <4>1. IsList(Reverse(tails'[i])) /\ Num(tails'[i][1]) = Num(chains[i][count[i]])
        BY <1>11
      <4>2. Num(chains[i][count[i]]) \in Nat /\ w <= Num(chains[i][count[i]])
        BY <1>6, <2>1
      <4>3. QED  BY <4>1, <4>2
    <3>2. QED  BY <1>1, <3>1
  <2>5. head' = 0 /\ bad' = {}
        /\ graph' = [blocks |-> {}, peers |-> [b \in Blocks |-> EmptyBag], root |-> 0]
    BY <1>1, <1>2
  <2>6. Start(w)'
    BY <2>2, <2>3, <2>4, <2>5 DEF Start, TailOf
  <2>7. QED  BY <2>6
<1>14. AtOneLevel'
  BY <1>1, <1>13 DEF AtOneLevel
<1>15. QED  BY <1>10, <1>12, <1>14

-----------------------------------------------------------------------------
(* The rounds (build_fork_graph).                                          *)

(* A block of a list is where its number says.                             *)
LEMMA ListAt ==
  ASSUME NEW s, IsList(s), NEW b \in ToSet(s)
  PROVE  /\ b \in Blocks /\ Num(b) \in Nat /\ Num(s[1]) \in Nat /\ Num(b) <= Num(s[1])
         /\ \A k \in 1..Len(s) :
              /\ Num(s[k]) \in Nat
              /\ Num(s[k]) = Num(b) => s[k] = b
              /\ b \in ToSet(SubSeq(s, 1, k)) <=> Num(b) >= Num(s[k])
<1> DEFINE n == Len(s)
           top == Num(s[1])
           num(k) == Num(s[k])
<1>1. n \in Nat \ {0} /\ DOMAIN s = 1..n
  BY DEF IsList
<1>2. \A k \in 1..n : s[k] \in Blocks /\ num(k) \in Nat /\ num(k) = top + 1 - k
  BY ListLevels
<1>3. PICK j \in 1..n : b = s[j]
  BY <1>1 DEF ToSet
<1>4. top \in Nat
  BY <1>1, <1>2
<1>5. ASSUME NEW k \in 1..n
      PROVE  /\ num(k) = num(j) => s[k] = b
             /\ b \in ToSet(SubSeq(s, 1, k)) <=> num(j) >= num(k)
  <2>1. ToSet(SubSeq(s, 1, k)) = {s[i] : i \in 1..k}
    BY ListPiece
  <2>2. num(k) = top + 1 - k /\ num(j) = top + 1 - j /\ j \in 1..n /\ k \in 1..n
    BY <1>2, <1>3
  <2> DEFINE u == num(j)
             v == num(k)
  <2>3. ASSUME NEW i \in 1..k PROVE i \in 1..n /\ num(i) = top + 1 - i /\ i <= k
    BY <1>1, <1>2
  <2> HIDE DEF u, v, top
  <2>4. (u = v <=> j = k) /\ (u >= v <=> j \in 1..k)
    BY <1>1, <1>4, <2>2 DEF u, v
  <2>5. ASSUME b \in {s[i] : i \in 1..k} PROVE u >= v
    <3>1. PICK i \in 1..k : b = s[i]
      BY <2>5
    <3>2. u = top + 1 - i /\ v = top + 1 - k /\ i <= k /\ i \in Int /\ k \in Int
      BY <1>3, <2>2, <2>3, <3>1 DEF u, v
    <3>3. QED  BY <1>4, <3>2
  <2>6. ASSUME u >= v PROVE b \in {s[i] : i \in 1..k}
    BY <1>3, <2>4, <2>6
  <2>7. QED  BY <1>3, <2>1, <2>4, <2>5, <2>6 DEF u, v
<1>6. num(j) <= top
  BY <1>2, <1>3, <1>4
<1>7. QED  BY <1>2, <1>3, <1>4, <1>5, <1>6

(* The first graph: the tails of all chains.                               *)
LEMMA AddTailsStep ==
  ASSUME ChainsListed, TailsTaken, AtOneLevel, AddTails
  PROVE  ChainsListed' /\ TailsTaken' /\ AtOneLevel'
<1> DEFINE D == DOMAIN tails
           adds == [i \in D |-> ToSet(tails[i])]
           new == UNION {adds[i] : i \in D}
           g == graph'
           firsts == [i \in D |-> tails[i][1]]
<1>1. /\ phase = "graph" /\ g = AddBlocks(graph, adds)
      /\ phase' = IF AllEqual(firsts) THEN "report" ELSE "round"
      /\ UNCHANGED << format, listing, chains, tails, pos, head, bad, broken, outcome, shown >>
  BY DEF AddTails
<1>2. phase' \in {"round", "report"}
  BY <1>1
<1>3. Answering' = Answering /\ Read' = Read
  BY <1>1 DEF Answering, Read
<1>4. ChainsListed'
  BY <1>1, <1>2, <1>3 DEF ChainsListed, Working
<1>5. TailsTaken'
  BY <1>1, <1>2, <1>3 DEF TailsTaken, Newest
<1>6. PICK m \in Nat : Start(m)
  BY <1>1 DEF AtOneLevel
<1>7. /\ head = 0 /\ bad = {} /\ graph.blocks = {} /\ graph.root = 0
      /\ \A b \in Blocks : graph.peers[b] = EmptyBag
      /\ \A i \in Read : Num(chains[i][pos[i]]) = m /\ tails[i] = TailOf(i, pos[i])
      /\ \E i \in Read : pos[i] = 1
      /\ \A i \in D : IsList(Reverse(tails[i])) /\ Num(tails[i][1]) >= m
  BY <1>6 DEF Start
<1>8. /\ Read # {} /\ Read \subseteq D /\ D = 0..(Cardinality(Answering) - 1) /\ D \subseteq Nat
      /\ \A i \in D : tails[i] \in Seq(Blocks) \ {<< >>}
      /\ \A i \in Read : IsList(chains[i]) /\ pos[i] \in 1..Len(chains[i])
  <2>1. Cardinality(Answering) \in Nat
    <3>1. Answering \subseteq 0..(Clients - 1) /\ 0 \in Int /\ Clients - 1 \in Int
      BY CompareAssumption DEF Answering
    <3>2. IsFiniteSet(0..(Clients - 1))
      BY <3>1, FS_Interval
    <3>3. IsFiniteSet(Answering)
      BY <3>1, <3>2, FS_Subset
    <3>4. QED  BY <3>3, FS_CardinalityType
  <2>2. 0..(Cardinality(Answering) - 1) \subseteq Nat
    BY <2>1
  <2>3. QED  BY <1>1, <2>2 DEF ChainsListed, Working, TailsTaken
<1>9. adds \in [D -> SUBSET Blocks]
  BY <1>8 DEF ToSet
<1>10. ASSUME NEW i \in D, NEW b \in ToSet(tails[i])
       PROVE  /\ b \in Blocks /\ Num(b) \in Nat /\ Num(tails[i][1]) \in Nat
              /\ Num(b) >= Num(tails[i][1])
              /\ Num(b) >= m /\ (Num(b) = m => b = tails[i][1])
  <2>1. PICK k \in 1..Len(tails[i]) : b = tails[i][k]
    BY <1>8 DEF ToSet
  <2> DEFINE u == Num(b)
             v == Num(tails[i][1])
  <2>2. b \in Blocks /\ u \in Nat /\ v \in Nat /\ u = v + k - 1 /\ v >= m /\ k \in Nat \ {0}
    BY <1>7, <1>8, <2>1, TailFacts
  <2>3. b \in Blocks /\ u \in Nat /\ v \in Nat /\ u >= v /\ u >= m /\ (u = m => k = 1)
    <3> HIDE DEF u, v
    <3>1. QED  BY <2>2
  <2>4. QED  BY <2>1, <2>3
<1>11. ASSUME NEW i \in Read
       PROVE  ToSet(tails[i]) = ReadFrom(i) /\ tails[i][1] = chains[i][pos[i]]
              /\ tails[i][1] \in ToSet(tails[i])
  <2> DEFINE k == pos[i]
             s == SubSeq(chains[i], 1, k)
  <2>1. IsList(s) /\ Len(s) = k /\ \A j \in 1..k : s[j] = chains[i][j]
    BY <1>8, ListPiece
  <2>2. s \in Seq(Blocks) /\ tails[i] = Reverse(s) /\ ReadFrom(i) = ToSet(s)
    BY <1>7, <2>1 DEF IsList, TailOf, ReadFrom
  <2>3. k \in Nat \ {0} /\ 1 \in 1..k /\ k \in 1..k /\ k - 1 + 1 = k
    BY <1>8
  <2> HIDE DEF k, s
  <2>4. ToSet(Reverse(s)) = ToSet(s) /\ Reverse(s)[1] = s[k] /\ Len(Reverse(s)) = k
        /\ Reverse(s) \in Seq(Blocks)
    BY <2>1, <2>2, <2>3, ReverseFacts
  <2>5. Reverse(s)[1] \in ToSet(Reverse(s))
    BY <2>3, <2>4 DEF ToSet
  <2>6. QED  BY <2>1, <2>2, <2>3, <2>4, <2>5 DEF k
<1>12. /\ g.blocks = new
       /\ \A b \in Blocks : g.peers[b] = EmptyBag (+) SetToBag({i \in D : b \in ToSet(tails[i])})
       /\ g.root \in new /\ \A b \in new : Num(g.root) <= Num(b)
  <2>1. DOMAIN adds = D /\ \A i \in D : adds[i] = ToSet(tails[i])
    OBVIOUS
  <2>2. g.blocks = new
        /\ \A b \in Blocks : g.peers[b] = EmptyBag (+) SetToBag({i \in D : b \in adds[i]})
    BY <1>1, <1>7 DEF AddBlocks
  <2>3. \A b \in Blocks : {i \in D : b \in adds[i]} = {i \in D : b \in ToSet(tails[i])}
    BY <2>1
  <2>4. new # {}
    <3>1. PICK i \in Read : TRUE
      BY <1>8
    <3>2. tails[i][1] \in adds[i]
      BY <1>8, <1>11, <3>1
    <3>3. QED  BY <1>8, <3>2
  <2> HIDE DEF adds
  <2>5. LET nw == UNION {adds[i] : i \in D}
            r == AddBlocks(graph, adds).root
        IN  IF graph.root # 0 /\ \A b \in nw : Num(graph.root) <= Num(b) THEN r = graph.root
            ELSE nw # {} => r \in nw /\ \A b \in nw : Num(r) <= Num(b)
    BY <1>7, <1>8, <1>9, RootAdded
  <2>6. g.root \in new /\ \A b \in new : Num(g.root) <= Num(b)
    BY <1>1, <1>7, <2>4, <2>5
  <2>7. QED  BY <2>2, <2>3, <2>6
<1>13. \A b \in new : b \in Blocks /\ Num(b) \in Nat /\ Num(b) >= m
  BY <1>10
<1>14. ASSUME NEW b \in Blocks
       PROVE  /\ IsABag(g.peers[b]) /\ BagToSet(g.peers[b]) \subseteq D
              /\ \A i \in Read : Copies(i, g.peers[b]) = IF b \in ReadFrom(i) THEN 1 ELSE 0
  <2> DEFINE S == {i \in D : b \in ToSet(tails[i])}
  <2>1. g.peers[b] = EmptyBag (+) SetToBag(S)
    BY <1>12
  <2> HIDE DEF S
  <2>2. IsABag(EmptyBag) /\ BagToSet(EmptyBag) = {} /\ \A i : Copies(i, EmptyBag) = 0
    BY DEF EmptyBag, SetToBag, IsABag, BagToSet, Copies, BagIn
  <2> DEFINE E == EmptyBag
  <2> HIDE DEF E
  <2>3. /\ IsABag(E (+) SetToBag(S)) /\ BagToSet(E (+) SetToBag(S)) = BagToSet(E) \cup S
        /\ \A i : /\ Copies(i, E) \in Nat
                  /\ Copies(i, E (+) SetToBag(S)) = Copies(i, E) + IF i \in S THEN 1 ELSE 0
    BY <2>2, CopiesAdded DEF E
  <2>4. \A i \in Read : Copies(i, g.peers[b]) = IF b \in ReadFrom(i) THEN 1 ELSE 0
    <3>1. \A i \in Read : i \in S <=> b \in ReadFrom(i)
      BY <1>8, <1>11 DEF S
    <3>2. QED  BY <2>1, <2>2, <2>3, <3>1 DEF E
  <2>5. QED  BY <2>1, <2>2, <2>3, <2>4 DEF S, E
<1>15. ASSUME NEW b \in Blocks, \A i \in Read : b \in ToSet(chains[i])
       PROVE  Num(b) \in Nat /\ Num(b) <= m
  <2>1. PICK i \in Read : pos[i] = 1
    BY <1>7
  <2>2. Num(chains[i][1]) = m
    BY <1>7, <2>1
  <2>3. Num(b) \in Nat /\ Num(b) <= Num(chains[i][1])
    BY <1>8, <1>15, ListAt
  <2>4. QED  BY <2>2, <2>3
<1>16. CASE AllEqual(firsts)
  <2>1. ASSUME NEW i \in Read PROVE chains[i][pos[i]] = g.root
    <3>1. PICK j \in D : g.root \in ToSet(tails[j])
      BY <1>12
    <3>2. tails[i][1] = tails[j][1]
      BY <1>8, <1>16, <2>1, <3>1 DEF AllEqual
    <3>3. tails[i][1] \in new /\ Num(tails[i][1]) = m /\ tails[i][1] = chains[i][pos[i]]
      BY <1>7, <1>8, <1>11, <2>1
    <3>4. Num(g.root) \in Nat /\ Num(g.root) >= m /\ Num(g.root) <= m
      BY <1>10, <1>12, <3>1, <3>3
    <3>5. Num(g.root) = m
      BY <3>4
    <3>6. g.root = tails[j][1]
      BY <1>10, <3>1, <3>5
    <3>7. QED  BY <3>2, <3>3, <3>6
  <2>2. phase' = "report"
    BY <1>1, <1>16
  <2>3. \A b \in Shared : Num(b) <= m
    BY <1>15 DEF Shared
  <2>4. Level(m)'
    <3>1. \A i \in Read : ReadFrom(i) \subseteq new
      BY <1>8, <1>11
    <3>2. Remaining' = Read
      BY <1>1, <1>3, <1>7 DEF Remaining
    <3>3. Shared' = Shared /\ \A i \in Read : ReadFrom(i)' = ReadFrom(i)
      BY <1>1, <1>3 DEF Shared, ReadFrom
    <3>4. QED
      BY <1>1, <1>3, <1>7, <1>12, <1>13, <1>14, <2>1, <2>2, <2>3, <3>1, <3>2, <3>3 DEF Level
  <2>5. QED  BY <1>2, <1>4, <1>5, <2>4 DEF AtOneLevel
<1>17. CASE ~AllEqual(firsts)
  <2>1. phase' = "round"
    BY <1>1, <1>17
  <2>2. ASSUME Read = D, NEW b \in Shared PROVE Num(b) < m
    <3> SUFFICES ASSUME Num(b) >= m PROVE FALSE
      BY <1>15 DEF Shared
    <3>1. Num(b) = m
      BY <1>15 DEF Shared
    <3>2. ASSUME NEW i \in Read PROVE tails[i][1] = b
      <4>1. chains[i][pos[i]] = b
        BY <1>7, <1>8, <3>1, <3>2, ListAt DEF Shared
      <4>2. QED  BY <1>11, <3>2, <4>1
    <3>3. AllEqual(firsts)
      BY <2>2, <3>2 DEF AllEqual
    <3>4. QED  BY <1>17, <3>3
  <2>3. Level(m)'
    <3>1. \A i \in Read : ReadFrom(i) \subseteq new
      BY <1>8, <1>11
    <3>2. Remaining' = Read
      BY <1>1, <1>3, <1>7 DEF Remaining
    <3>3. Shared' = Shared /\ \A i \in Read : ReadFrom(i)' = ReadFrom(i)
      BY <1>1, <1>3 DEF Shared, ReadFrom
    <3>4. NoneEnded' => Read = D
      BY <1>1, <1>3 DEF NoneEnded
    <3>5. QED
      BY <1>1, <1>3, <1>7, <1>12, <1>13, <1>14, <2>1, <2>2, <3>1, <3>2, <3>3, <3>4 DEF Level
  <2>4. QED  BY <1>2, <1>4, <1>5, <2>3 DEF AtOneLevel
<1>18. QED  BY <1>16, <1>17

(* What each chain that takes part in a round adds: its next block, when   *)
(* it has one, and else the next block of the chain before it, or the last *)
(* one of the round before.                                                *)
LEMMA RoundHeads ==
  ASSUME Read \subseteq 0..(Clients - 1), NEW m \in Nat,
         \A i \in Remaining : IsList(chains[i]) /\ pos[i] \in 1..Len(chains[i])
                              /\ Num(chains[i][pos[i]]) = m
  PROVE  /\ Going # {} => m - 1 \in Nat
         /\ \A i \in Going :
              /\ HeadAfter(i) = chains[i][pos[i] + 1] /\ HeadAfter(i) \in Blocks
              /\ Num(HeadAfter(i)) = m - 1 /\ pos[i] + 1 \in 1..Len(chains[i])
         /\ \A i \in Remaining :
              \/ HeadAfter(i) = head /\ \A j \in Going : ~ j <= i
              \/ HeadAfter(i) \in Blocks /\ Num(HeadAfter(i)) = m - 1 /\ Going # {}
         /\ Remaining # {} => /\ Max(Remaining) \in Remaining
                              /\ \A j \in Going : j <= Max(Remaining)
<1> DEFINE asked(i) == {j \in Going : j <= i}
           next(j) == chains[j][pos[j] + 1]
<1>1. Clients \in Nat /\ Remaining \subseteq 0..(Clients - 1) /\ Going \subseteq Remaining
  BY CompareAssumption DEF Remaining, Going
<1>2. ASSUME NEW j \in Going
      PROVE  next(j) \in Blocks /\ Num(next(j)) = m - 1 /\ m - 1 \in Nat
             /\ pos[j] + 1 \in 1..Len(chains[j])
  <2>1. IsList(chains[j]) /\ pos[j] \in 1..Len(chains[j]) /\ pos[j] < Len(chains[j])
        /\ Num(chains[j][pos[j]]) = m
    BY <1>1 DEF Going
  <2>2. Len(chains[j]) \in Nat
    BY <2>1 DEF IsList
  <2>3. pos[j] + 1 \in 1..Len(chains[j])
    BY <2>1, <2>2
  <2> DEFINE u == Num(chains[j][1])
             v == Num(next(j))
             p == pos[j]
  <2>4. next(j) \in Blocks /\ v \in Nat /\ v = u + 1 - (p + 1)
    BY <2>1, <2>3, ListLevels
  <2>5. m = u + 1 - p
    BY <2>1, ListLevels
  <2>6. u \in Nat /\ p \in Int
    <3>1. 1 \in 1..Len(chains[j])
      BY <2>1, <2>2
    <3>2. QED  BY <2>1, <2>2, <3>1, ListLevels
  <2> HIDE DEF u, v, p
  <2>7. v = m - 1 /\ m - 1 \in Nat
    BY <2>4, <2>5, <2>6
  <2>8. QED  BY <2>3, <2>4, <2>7 DEF v
<1>3. ASSUME NEW i \in Remaining, asked(i) # {}
      PROVE  Max(asked(i)) \in Going /\ Max(asked(i)) <= i /\ \A j \in asked(i) : j <= Max(asked(i))
  <2>1. asked(i) \in SUBSET (0..Clients)
    <3>1. \A x \in 0..(Clients - 1) : x \in 0..Clients
      BY <1>1
    <3>2. QED  BY <1>1, <3>1
  <2> DEFINE S == asked(i)
  <2> HIDE DEF S
  <2>2. Max(S) \in S /\ \A y \in S : y <= Max(S)
    BY <1>1, <1>3, <2>1, MaxIn DEF S
  <2>3. QED  BY <2>2 DEF S
<1>4. ASSUME NEW i \in Remaining
      PROVE  HeadAfter(i) = IF asked(i) = {} THEN head ELSE next(Max(asked(i)))
  BY DEF HeadAfter
<1>5. ASSUME NEW i \in Going
      PROVE  HeadAfter(i) = next(i)
  <2>1. i \in Remaining /\ i \in Int
    BY <1>1
  <2>2. i \in asked(i)
    BY <2>1
  <2>3. Max(asked(i)) \in Going /\ Max(asked(i)) <= i /\ i <= Max(asked(i))
    BY <1>3, <2>1, <2>2
  <2> DEFINE x == Max(asked(i))
  <2> HIDE DEF x
  <2>4. x \in Int
    <3>1. x \in 0..(Clients - 1)
      BY <1>1, <2>3 DEF x
    <3>2. QED  BY <3>1
  <2>5. x = i
    BY <2>1, <2>3, <2>4 DEF x
  <2>6. QED  BY <1>4, <2>1, <2>2, <2>5 DEF x
<1>6. ASSUME NEW i \in Remaining
      PROVE  \/ HeadAfter(i) = head /\ \A j \in Going : ~ j <= i
             \/ HeadAfter(i) \in Blocks /\ Num(HeadAfter(i)) = m - 1 /\ Going # {}
  <2>1. CASE asked(i) = {}
    BY <1>4, <2>1
  <2>2. CASE asked(i) # {}
    <3>1. Max(asked(i)) \in Going
      BY <1>3, <2>2
    <3>2. QED  BY <1>2, <1>4, <2>2, <3>1
  <2>3. QED  BY <2>1, <2>2
<1>7. ASSUME Remaining # {}
      PROVE  Max(Remaining) \in Remaining /\ \A j \in Going : j <= Max(Remaining)
  <2>1. Remaining \in SUBSET (0..Clients)
    <3>1. \A x \in 0..(Clients - 1) : x \in 0..Clients
      BY <1>1
    <3>2. QED  BY <1>1, <3>1
  <2>2. QED  BY <1>1, <1>7, <2>1, MaxIn
<1>8. QED  BY <1>2, <1>5, <1>6, <1>7

(* Reading one more block of a list.                                       *)
LEMMA OneMore ==
  ASSUME NEW s, IsList(s), NEW p \in 1..Len(s), p + 1 \in 1..Len(s)
  PROVE  /\ ToSet(SubSeq(s, 1, p + 1)) = ToSet(SubSeq(s, 1, p)) \cup {s[p + 1]}
         /\ s[p + 1] \notin ToSet(SubSeq(s, 1, p))
<1>1. s \in Seq(Blocks) /\ Len(s) \in Nat /\ DOMAIN s = 1..Len(s)
  BY DEF IsList
<1>2. ToSet(SubSeq(s, 1, p)) = {s[k] : k \in 1..p}
      /\ ToSet(SubSeq(s, 1, p + 1)) = {s[k] : k \in 1..(p + 1)}
  BY ListPiece
<1>3. p \in Nat /\ 1..(p + 1) = (1..p) \cup {p + 1}
  BY <1>1
<1>4. {s[k] : k \in 1..(p + 1)} = {s[k] : k \in 1..p} \cup {s[p + 1]}
  BY <1>3
<1>5. s[p + 1] \notin ToSet(SubSeq(s, 1, p))
  <2> DEFINE u == Num(s[1])
             b == s[p + 1]
  <2>1. b \in ToSet(s)
    BY <1>1 DEF ToSet
  <2>2. Num(b) \in Nat /\ Num(b) = u + 1 - (p + 1) /\ Num(s[p]) \in Nat /\ Num(s[p]) = u + 1 - p
    BY ListLevels
  <2>3. u \in Nat
    BY <2>1, ListAt
  <2> DEFINE v == Num(b)
             w == Num(s[p])
  <2>4. v < w
    <3> HIDE DEF u, v, w
    <3>1. v = u + 1 - (p + 1) /\ w = u + 1 - p
      BY <2>2 DEF v, w
    <3>2. QED  BY <1>3, <2>3, <3>1
  <2>5. ~ (v >= w)
    BY <2>2, <2>4
  <2> HIDE DEF b
  <2>6. QED  BY <2>1, <2>5, ListAt DEF b
<1>6. QED  BY <1>2, <1>4, <1>5

(* A round takes all chains that are left one level down.                  *)
LEMMA RoundStep ==
  ASSUME ChainsListed, TailsTaken, AtOneLevel, Round
  PROVE  ChainsListed' /\ TailsTaken' /\ AtOneLevel'
<1> DEFINE R == Remaining
           D == DOMAIN tails
           heads == [i \in R |-> HeadAfter(i)]
           ended == bad \cup (R \ Going)
           adds == [i \in R |-> {heads[i]}]
           added == AddBlocks(graph, adds)
           new == UNION {adds[i] : i \in R}
           all == 0..(Clients - 1)
<1>1. phase = "round" /\ UNCHANGED << format, listing, chains, tails, shown >>
  BY DEF Round
<1>2. Answering' = Answering /\ Read' = Read
  BY <1>1 DEF Answering, Read
<1>3. /\ DOMAIN listing = all /\ \A c \in DOMAIN listing : listing[c] = << >> \/ IsList(listing[c])
      /\ outcome = "" /\ Read # {} /\ Read \subseteq all /\ bad \subseteq Read
      /\ \A i \in Read : IsList(chains[i])
      /\ Answering = all => \A i \in Read : chains[i] = listing[i]
      /\ broken \subseteq (all \ Answering) \cup (D \ Read) \cup bad
  BY <1>1 DEF ChainsListed, Working
<1>4. /\ Read \subseteq D /\ D = 0..(Cardinality(Answering) - 1) /\ DOMAIN pos = D
      /\ \A i \in Read : pos[i] \in 1..Len(chains[i])
      /\ \A i \in D : tails[i] \in Seq(Blocks) \ {<< >>}
      /\ \A i \in Read : Newest(i) = chains[i][1]
  BY <1>1 DEF TailsTaken
<1>5. CASE \E i \in R : heads[i] = 0
  <2>1. phase' = "done"
    BY <1>5 DEF Round, Ends
  <2>2. ChainsListed'
    BY <1>1, <1>2, <1>3, <2>1 DEF ChainsListed, Working
  <2>3. QED  BY <2>1, <2>2 DEF TailsTaken, AtOneLevel
<1>6. CASE ~ \E i \in R : heads[i] = 0
  <2>1. /\ pos' = [i \in DOMAIN pos |-> IF i \in Going THEN pos[i] + 1 ELSE pos[i]]
        /\ head' = IF R = {} THEN head ELSE heads[Max(R)]
        /\ bad' = ended /\ outcome' = outcome
        /\ IF AllEqual(heads)
           THEN graph' = Prune(added, ended) /\ broken' = broken \cup ended /\ phase' = "report"
           ELSE graph' = added /\ broken' = broken /\ phase' = "round"
    BY <1>1, <1>6 DEF Round
  <2>2. PICK m \in Nat : Level(m)
    BY <1>1 DEF AtOneLevel
  <2>3. /\ \A i \in R : /\ Num(chains[i][pos[i]]) = m /\ ReadFrom(i) \subseteq graph.blocks
                        /\ \A b \in Blocks :
                             Copies(i, graph.peers[b]) = IF b \in ReadFrom(i) THEN 1 ELSE 0
        /\ graph.root \in graph.blocks /\ graph.blocks \subseteq Blocks
        /\ \A b \in graph.blocks : Num(b) >= m
        /\ \A b \in Blocks : IsABag(graph.peers[b]) /\ BagToSet(graph.peers[b]) \subseteq D
        /\ head # 0 => head \in Blocks /\ Num(head) = m
        /\ NoneEnded => \A b \in Shared : Num(b) < m
    BY <1>1, <2>2 DEF Level
  <2>4. R \subseteq Read /\ Going \subseteq R /\ R = Read \ bad /\ Read \ ended = Going
        /\ R \subseteq D
        /\ Going \cap ended = {} /\ bad \subseteq ended /\ ended \subseteq Read
    BY <1>3, <1>4 DEF Remaining, Going
  <2>5. /\ Going # {} => m - 1 \in Nat
        /\ \A i \in Going :
             /\ heads[i] = chains[i][pos[i] + 1] /\ heads[i] \in Blocks
             /\ Num(heads[i]) = m - 1 /\ pos[i] + 1 \in 1..Len(chains[i])
        /\ \A i \in R :
             \/ heads[i] = head /\ \A j \in Going : ~ j <= i
             \/ heads[i] \in Blocks /\ Num(heads[i]) = m - 1 /\ Going # {}
        /\ R # {} => Max(R) \in R /\ \A j \in Going : j <= Max(R)
    BY <1>3, <1>4, <2>3, <2>4, RoundHeads
  <2>6. PICK l \in Nat : l <= m /\ (Going # {} => l = m - 1) /\ (Going = {} => l = m)
    <3>1. CASE Going = {}
      BY <3>1
    <3>2. CASE Going # {}
      <4>1. m - 1 \in Nat /\ m - 1 <= m
        BY <2>5, <3>2
      <4>2. QED  BY <3>2, <4>1
    <3>3. QED  BY <3>1, <3>2
  <2>7. \A i \in R : heads[i] \in Blocks /\ Num(heads[i]) \in Nat /\ Num(heads[i]) >= l
    <3>1. ASSUME NEW i \in R
          PROVE  heads[i] \in Blocks /\ (Num(heads[i]) = m \/ (Num(heads[i]) = m - 1 /\ Going # {}))
      <4> HIDE DEF heads
      <4>1. heads[i] # 0
        BY <1>6
      <4>2. \/ heads[i] = head
            \/ heads[i] \in Blocks /\ Num(heads[i]) = m - 1 /\ Going # {}
        BY <2>5
      <4>3. QED  BY <2>3, <4>1, <4>2
    <3>2. QED  BY <2>6, <3>1, NumStep
  <2> HIDE DEF heads
  <2>8. DOMAIN adds = R /\ \A i \in R : adds[i] = {heads[i]}
    OBVIOUS
  <2>9. new = {heads[i] : i \in R}
    OBVIOUS
  <2>10. \A b \in new : b \in Blocks /\ Num(b) \in Nat /\ Num(b) >= l
    BY <2>7, <2>9
  <2>11. adds \in [R -> SUBSET Blocks]
    BY <2>7
  <2>12. /\ added.blocks = graph.blocks \cup new
         /\ \A b \in Blocks : added.peers[b] = graph.peers[b] (+) SetToBag({i \in R : b = heads[i]})
    <3>1. /\ added.blocks = graph.blocks \cup new
          /\ \A b \in Blocks :
               added.peers[b] = graph.peers[b] (+) SetToBag({i \in R : b \in adds[i]})
      BY <2>8 DEF AddBlocks
    <3>2. \A b \in Blocks : {i \in R : b \in adds[i]} = {i \in R : b = heads[i]}
      BY <2>8
    <3>3. QED  BY <3>1, <3>2
  <2>13. IF graph.root # 0 /\ \A b \in new : Num(graph.root) <= Num(b) THEN added.root = graph.root
         ELSE new # {} => added.root \in new /\ \A b \in new : Num(added.root) <= Num(b)
    <3> HIDE DEF adds
    <3>1. R \in SUBSET Nat /\ graph.root \in Blocks \cup {0}
      <4>1. all \subseteq Nat
        BY CompareAssumption
      <4>2. R \subseteq all
        BY <1>3, <2>4
      <4>3. QED  BY <2>3, <4>1, <4>2
    <3>2. LET nw == UNION {adds[i] : i \in R}
              r == AddBlocks(graph, adds).root
          IN  IF graph.root # 0 /\ \A b \in nw : Num(graph.root) <= Num(b) THEN r = graph.root
              ELSE nw # {} => r \in nw /\ \A b \in nw : Num(r) <= Num(b)
      BY <2>11, <3>1, RootAdded
    <3>3. QED  BY <3>2
  <2>14. graph.root \in Blocks /\ graph.root # 0 /\ Num(graph.root) \in Nat /\ Num(graph.root) >= m
    BY <2>3, NumStep, BlockNumbers
  <2> HIDE DEF adds, added, new
  <2>15. added.root \in added.blocks
    <3>1. CASE \A b \in new : Num(graph.root) <= Num(b)
      BY <2>3, <2>12, <2>13, <2>14, <3>1
    <3>2. CASE ~ \A b \in new : Num(graph.root) <= Num(b)
      BY <2>12, <2>13, <3>2
    <3>3. QED  BY <3>1, <3>2
  <2>16. added.blocks \subseteq Blocks /\ \A b \in added.blocks : Num(b) >= l
    <3>1. \A b \in graph.blocks : b \in Blocks /\ Num(b) \in Nat /\ Num(b) >= m
      BY <2>3, NumStep
    <3>2. \A b \in graph.blocks : Num(b) >= l
      BY <2>6, <3>1
    <3>3. QED  BY <2>10, <2>12, <3>1, <3>2
  <2>17. ASSUME NEW i \in Going
         PROVE  /\ Num(chains[i][pos'[i]]) = l /\ chains[i][pos'[i]] = heads[i]
                /\ pos'[i] \in 1..Len(chains[i])
                /\ ToSet(SubSeq(chains[i], 1, pos'[i])) = ReadFrom(i) \cup {heads[i]}
                /\ heads[i] \notin ReadFrom(i)
    <3>1. pos'[i] = pos[i] + 1
      BY <1>4, <2>1, <2>4
    <3>2. Num(heads[i]) = l
      BY <2>5, <2>6
    <3>3. IsList(chains[i]) /\ pos[i] \in 1..Len(chains[i]) /\ pos[i] + 1 \in 1..Len(chains[i])
      BY <1>3, <1>4, <2>4, <2>5
    <3>4. QED  BY <2>5, <3>1, <3>2, <3>3, OneMore DEF ReadFrom
  <2>18. ASSUME NEW b \in Blocks
         PROVE  /\ IsABag(added.peers[b]) /\ BagToSet(added.peers[b]) \subseteq D
                /\ \A i \in Going :
                     Copies(i, added.peers[b]) = IF b \in ReadFrom(i) \cup {heads[i]} THEN 1 ELSE 0
    <3> DEFINE S == {i \in R : b = heads[i]}
               A == graph.peers[b]
    <3>1. added.peers[b] = A (+) SetToBag(S)
      BY <2>12
    <3>2. IsABag(A) /\ BagToSet(A) \subseteq D
      BY <2>3
    <3>3. \A i \in Going : Copies(i, A) = IF b \in ReadFrom(i) THEN 1 ELSE 0
      BY <2>3, <2>4
    <3>4. S \subseteq D /\ \A i \in Going : i \in S <=> b = heads[i]
      BY <2>4
    <3> HIDE DEF S, A
    <3>5. /\ IsABag(A (+) SetToBag(S)) /\ BagToSet(A (+) SetToBag(S)) = BagToSet(A) \cup S
          /\ \A i : /\ Copies(i, A) \in Nat
                    /\ Copies(i, A (+) SetToBag(S)) = Copies(i, A) + IF i \in S THEN 1 ELSE 0
      BY <3>2, CopiesAdded
    <3>6. \A i \in Going : b = heads[i] => b \notin ReadFrom(i)
      BY <2>17
    <3>7. ASSUME NEW i \in Going
          PROVE  Copies(i, added.peers[b]) = IF b \in ReadFrom(i) \cup {heads[i]} THEN 1 ELSE 0
      BY <3>1, <3>3, <3>4, <3>5, <3>6
    <3>8. QED  BY <3>1, <3>2, <3>4, <3>5, <3>7
  <2>19. ASSUME NEW i \in Going
         PROVE  ReadFrom(i) \cup {heads[i]} \subseteq added.blocks
    BY <2>3, <2>4, <2>9, <2>12
  <2>20. Remaining' = Going
    BY <1>2, <2>1, <2>4 DEF Remaining
  <2>21. \A i \in Going : ReadFrom(i)' = ReadFrom(i) \cup {heads[i]}
    BY <1>1, <2>17 DEF ReadFrom
  <2>22. NoneEnded' => NoneEnded /\ Going = Read /\ Read # {} /\ l = m - 1
    BY <1>1, <1>2, <1>3, <2>1, <2>4, <2>6 DEF NoneEnded
  <2>23. Shared' = Shared
    BY <1>1, <1>2 DEF Shared
  <2>24. TailsTaken'
    <3>1. \A i \in Read : pos'[i] \in 1..Len(chains[i])
      BY <1>4, <2>1, <2>17
    <3>2. DOMAIN pos' = D
      BY <1>4, <2>1
    <3>3. \A i \in Read' : Newest(i)' = chains'[i][1]
      BY <1>1, <1>2, <1>4 DEF Newest
    <3>4. QED  BY <1>1, <1>2, <1>4, <3>1, <3>2, <3>3 DEF TailsTaken
  <2>25. ChainsListed'
    <3>1. broken' \subseteq (all \ Answering) \cup (D \ Read) \cup bad'
      BY <1>3, <2>1, <2>4
    <3>2. bad' \subseteq Read /\ outcome' = "" /\ phase' \in {"round", "report"}
      BY <1>3, <2>1, <2>4
    <3>3. QED  BY <1>1, <1>2, <1>3, <3>1, <3>2 DEF ChainsListed, Working
  <2>26. CASE AllEqual(heads)
    <3>1. graph' = Prune(added, ended) /\ phase' = "report"
      BY <2>1, <2>26
    <3>2. graph'.blocks = added.blocks /\ graph'.root = added.root
      BY <3>1 DEF Prune
    <3>3. ASSUME NEW b \in Blocks
          PROVE  \/ graph'.peers[b] = added.peers[b]
                 \/ graph'.peers[b] = added.peers[b] (-) SetToBag(ended)
      BY <3>1 DEF Prune, added, AddBlocks
    <3>4. ASSUME NEW b \in Blocks
          PROVE  /\ IsABag(graph'.peers[b]) /\ BagToSet(graph'.peers[b]) \subseteq D
                 /\ \A i \in Going : Copies(i, graph'.peers[b]) = Copies(i, added.peers[b])
      <4> DEFINE A == added.peers[b]
      <4>1. IsABag(A) /\ BagToSet(A) \subseteq D
        BY <2>18
      <4> HIDE DEF A
      <4>2. /\ IsABag(A (-) SetToBag(ended))
            /\ BagToSet(A (-) SetToBag(ended)) \subseteq BagToSet(A)
            /\ \A i : i \notin ended => Copies(i, A (-) SetToBag(ended)) = Copies(i, A)
        BY <4>1, CopiesKept
      <4>3. \A i \in Going : i \notin ended
        BY <2>4
      <4> HIDE DEF ended
      <4>4. QED  BY <3>3, <4>1, <4>2, <4>3 DEF A
    <3>5. ASSUME NEW i \in Going PROVE chains[i][pos'[i]] = added.root
      <4>1. i \in R /\ heads[i] \in new /\ Num(heads[i]) = m - 1
        BY <2>4, <2>5, <2>9
      <4>2. ~ Num(graph.root) <= Num(heads[i])
        BY <2>14, <4>1
      <4>3. added.root \in new
        BY <2>13, <4>1, <4>2
      <4>4. PICK j \in R : added.root = heads[j]
        BY <2>9, <4>3
      <4>5. heads[j] = heads[i]
        BY <2>26, <4>1, <4>4 DEF AllEqual, heads
      <4>6. QED  BY <2>17, <4>4, <4>5
    <3>6. ASSUME NoneEnded', NEW b \in Shared PROVE Num(b) <= l
      <4>1. Num(b) < m /\ b \in Blocks /\ l = m - 1
        BY <2>3, <2>22, <3>6 DEF Shared
      <4>2. Num(b) \in Nat
        BY <4>1, NumStep
      <4>3. QED  BY <4>1, <4>2
    <3>7. Level(l)'
      <4>1. \A i \in Going :
              /\ Num(chains'[i][pos'[i]]) = l /\ ReadFrom(i)' \subseteq graph'.blocks
              /\ \A b \in Blocks : Copies(i, graph'.peers[b]) = IF b \in ReadFrom(i)' THEN 1 ELSE 0
        BY <1>1, <2>17, <2>18, <2>19, <2>21, <3>2, <3>4
      <4>2. graph'.root \in graph'.blocks /\ graph'.blocks \subseteq Blocks
            /\ \A b \in graph'.blocks : Num(b) >= l
        BY <2>15, <2>16, <3>2
      <4>3. \A b \in Blocks :
              IsABag(graph'.peers[b]) /\ BagToSet(graph'.peers[b]) \subseteq DOMAIN tails'
        BY <1>1, <3>4
      <4>4. \A i \in Going : chains'[i][pos'[i]] = graph'.root
        BY <1>1, <3>2, <3>5
      <4>5. NoneEnded' => \A b \in Shared' : Num(b) <= l
        BY <2>23, <3>6
      <4>6. QED  BY <2>20, <3>1, <4>1, <4>2, <4>3, <4>4, <4>5 DEF Level
    <3>8. QED  BY <2>6, <2>24, <2>25, <3>1, <3>7 DEF AtOneLevel
  <2>27. CASE ~ AllEqual(heads)
    <3>1. graph' = added /\ phase' = "round"
      BY <2>1, <2>27
    <3>2. ASSUME head' # 0 PROVE head' \in Blocks /\ Num(head') = l
      <4>1. CASE R = {}
        <5>1. head' = head /\ Going = {}
          BY <2>1, <2>4, <4>1
        <5>2. QED  BY <2>3, <2>6, <3>2, <5>1
      <4>2. CASE R # {}
        <5>1. head' = heads[Max(R)] /\ Max(R) \in R /\ \A j \in Going : j <= Max(R)
          BY <2>1, <2>5, <4>2
        <5>2. \/ head' = head /\ Going = {}
              \/ head' \in Blocks /\ Num(head') = m - 1 /\ Going # {}
          BY <2>5, <5>1
        <5>3. QED  BY <2>3, <2>6, <3>2, <5>2
      <4>3. QED  BY <4>1, <4>2
    <3>3. ASSUME NoneEnded', NEW b \in Shared PROVE Num(b) < l
      <4>1. NoneEnded /\ Going = Read /\ l = m - 1
        BY <2>22, <3>3
      <4>2. Num(b) < m /\ b \in Blocks /\ Num(b) \in Nat
        BY <2>3, <4>1, NumStep DEF Shared
      <4>3. CASE Num(b) = l
        <5>1. ASSUME NEW i \in R PROVE heads[i] = b
          <6>1. i \in Going /\ i \in Read
            BY <2>4, <4>1
          <6>2. Num(chains[i][pos'[i]]) = l /\ chains[i][pos'[i]] = heads[i]
                /\ pos'[i] \in 1..Len(chains[i])
            BY <2>17, <6>1
          <6>3. IsList(chains[i]) /\ b \in ToSet(chains[i])
            BY <1>3, <6>1 DEF Shared
          <6>4. QED  BY <4>3, <6>2, <6>3, ListAt
        <5>2. DOMAIN heads = R
          BY DEF heads
        <5>3. AllEqual(heads)
          BY <5>1, <5>2 DEF AllEqual
        <5>4. QED  BY <2>27, <5>3
      <4>4. CASE Num(b) # l
        BY <4>1, <4>2, <4>4
      <4>5. QED  BY <4>3, <4>4
    <3>4. Level(l)'
      <4>1. \A i \in Going :
              /\ Num(chains'[i][pos'[i]]) = l /\ ReadFrom(i)' \subseteq graph'.blocks
              /\ \A b \in Blocks : Copies(i, graph'.peers[b]) = IF b \in ReadFrom(i)' THEN 1 ELSE 0
        BY <1>1, <2>17, <2>18, <2>19, <2>21, <3>1
      <4>2. graph'.root \in graph'.blocks /\ graph'.blocks \subseteq Blocks
            /\ \A b \in graph'.blocks : Num(b) >= l
        BY <2>15, <2>16, <3>1
      <4>3. \A b \in Blocks :
              IsABag(graph'.peers[b]) /\ BagToSet(graph'.peers[b]) \subseteq DOMAIN tails'
        BY <1>1, <2>18, <3>1
      <4>4. NoneEnded' => \A b \in Shared' : Num(b) < l
        BY <2>23, <3>3
      <4>5. QED  BY <2>20, <3>1, <3>2, <4>1, <4>2, <4>3, <4>4 DEF Level
    <3>5. QED  BY <2>6, <2>24, <2>25, <3>1, <3>4 DEF AtOneLevel
  <2>28. QED  BY <2>26, <2>27
<1>7. QED  BY <1>5, <1>6

-----------------------------------------------------------------------------
(* What is printed.                                                        *)

(* What the invariant says of the graph that build_fork_graph() returns.   *)
LEMMA GraphReturned ==
  ASSUME ChainsListed, TailsTaken, AtOneLevel, phase = "report"
  PROVE  /\ GraphHoldsChains
         /\ \A i \in Remaining : /\ graph.root = chains[i][pos[i]]
                                 /\ ReadFrom(i) \subseteq graph.blocks
                                 /\ graph.root \in Blocks /\ Num(graph.root) \in Nat
<1>1. PICK m \in Nat : Level(m)
  BY DEF AtOneLevel
<1>2. /\ \A i \in Remaining :
           /\ Num(chains[i][pos[i]]) = m /\ ReadFrom(i) \subseteq graph.blocks
           /\ \A b \in Blocks : Copies(i, graph.peers[b]) = IF b \in ReadFrom(i) THEN 1 ELSE 0
           /\ chains[i][pos[i]] = graph.root
      /\ graph.root \in graph.blocks /\ graph.blocks \subseteq Blocks
      /\ NoneEnded => \A b \in Shared : Num(b) <= m
  BY <1>1 DEF Level
<1>3. /\ Read # {} /\ Remaining \subseteq Read /\ (bad = {} => Remaining = Read)
      /\ \A i \in Read : IsList(chains[i]) /\ pos[i] \in 1..Len(chains[i])
  BY DEF ChainsListed, Working, TailsTaken, Remaining
<1>4. ASSUME NEW i \in Remaining
      PROVE  /\ graph.root \in ToSet(chains[i])
             /\ \A b \in Blocks :
                  b \in ReadFrom(i) <=> b \in ToSet(chains[i]) /\ Num(b) >= Num(graph.root)
  <2>1. IsList(chains[i]) /\ pos[i] \in 1..Len(chains[i]) /\ chains[i][pos[i]] = graph.root
    BY <1>2, <1>3
  <2>2. chains[i] \in Seq(Blocks) /\ DOMAIN chains[i] = 1..Len(chains[i]) /\ Len(chains[i]) \in Nat
    BY <2>1 DEF IsList
  <2>3. ToSet(chains[i]) = {chains[i][k] : k \in 1..Len(chains[i])}
    BY <2>2 DEF ToSet
  <2>4. ReadFrom(i) = {chains[i][k] : k \in 1..pos[i]}
    BY <2>1, ListPiece DEF ReadFrom
  <2>5. 1..pos[i] \subseteq 1..Len(chains[i])
    BY <2>1, <2>2
  <2>6. ReadFrom(i) \subseteq ToSet(chains[i])
    BY <2>3, <2>4, <2>5
  <2>7. ASSUME NEW b \in ToSet(chains[i]) PROVE b \in ReadFrom(i) <=> Num(b) >= Num(graph.root)
    BY <2>1, ListAt DEF ReadFrom
  <2>8. QED  BY <2>1, <2>3, <2>6, <2>7
<1>5. ASSUME NoneEnded, NEW b \in Blocks, \A i \in Read : b \in ToSet(chains[i])
      PROVE  Num(b) <= Num(graph.root)
  <2>1. Num(b) <= m
    BY <1>2, <1>5 DEF Shared
  <2>2. PICK i \in Remaining : TRUE
    BY <1>3, <1>5 DEF NoneEnded
  <2>3. Num(graph.root) = m
    BY <1>2, <2>2
  <2>4. QED  BY <2>1, <2>3
<1>6. GraphHoldsChains
  BY <1>2, <1>4, <1>5 DEF GraphHoldsChains
<1>7. QED  BY <1>2, <1>6, NumStep

(* A block from the root up is reached from the root.                      *)
LEMMA ReachedFromRoot ==
  ASSUME NEW s, IsList(s), NEW v \in 1..Len(s), NEW b \in ToSet(s), graph.root = s[v],
         Num(b) >= Num(s[v]), ToSet(SubSeq(s, 1, v)) \subseteq graph.blocks
  PROVE  b \in Reached(graph)
<1>1. s \in Seq(Blocks) /\ Len(s) \in Nat /\ DOMAIN s = 1..Len(s)
  BY DEF IsList
<1>2. PICK u \in 1..Len(s) : s[u] = b
  BY <1>1 DEF ToSet
<1> DEFINE t == Chain[b]
           top == Num(s[1])
           nb == Num(s[u])
           nr == Num(s[v])
<1>3. b \in Blocks /\ t \in Seq(Blocks) /\ Len(t) \in Nat \ {0} /\ t[1] = b /\ IsList(t)
      /\ DOMAIN t = 1..Len(t)
  <2>1. b \in Blocks
    BY ListAt
  <2>2. /\ t \in Seq(Blocks) /\ Len(t) \in Nat \ {0} /\ t[1] = b
        /\ \A k \in 1..(Len(t) - 1) : t[k + 1] = Parent[t[k]]
    BY <2>1, ChainShape
  <2>3. t # << >>
    BY <2>2
  <2>4. QED  BY <2>1, <2>2, <2>3 DEF IsList
<1>4. nb \in Nat /\ nr \in Nat /\ nb = top + 1 - u /\ nr = top + 1 - v /\ top \in Nat
  <2>1. 1 \in 1..Len(s)
    BY <1>1
  <2>2. QED  BY <1>2, <2>1, ListLevels
<1>5. nb >= nr /\ nb = Len(t) - 1
  BY <1>2 DEF Num
<1> HIDE DEF t, top, nb, nr
<1>6. u \in Nat /\ v \in Nat /\ v - u \in Nat /\ 1 + (v - u) \in 1..Len(t) /\ u >= 1 /\ v <= Len(s)
  BY <1>1, <1>3, <1>4, <1>5
<1> DEFINE k == 1 + (v - u)
<1>7. ASSUME NEW j \in 1..k PROVE t[j] = s[u + (j - 1)] /\ u + (j - 1) \in 1..v
  <2> DEFINE d == j - 1
  <2>1. d \in Nat /\ 1 + d = j /\ 1 + d <= Len(t) /\ u + d <= Len(s) /\ u + d \in 1..v
        /\ 1 \in 1..Len(t)
    BY <1>6
  <2> HIDE DEF d
  <2>2. t[1] = s[u]
    BY <1>2, <1>3
  <2>3. t[1 + d] = s[u + d]
    BY <1>2, <1>3, <2>1, <2>2, ListsAgree
  <2>4. QED  BY <2>1, <2>3 DEF d
<1>8. ToSet(SubSeq(s, 1, v)) = {s[j] : j \in 1..v}
  BY ListPiece
<1>9. \A j \in 1..k : t[j] \in graph.blocks
  BY <1>7, <1>8
<1>10. k \in 1..k /\ u + (k - 1) = v
  BY <1>6
<1>11. t[k] = s[v]
  BY <1>7, <1>10
<1>12. k \in DOMAIN t
  BY <1>3, <1>6
<1> HIDE DEF k
<1>13. Parent[t[k]] = Parent[graph.root] /\ \A j \in 1..k : t[j] \in graph.blocks
  BY <1>9, <1>11
<1>14. QED  BY <1>3, <1>12, <1>13 DEF Reached, t

(* What is printed when every client answers and no list ends.             *)
LEMMA PrintedOfAll ==
  ASSUME ChainsListed, TailsTaken, AtOneLevel, phase = "report",
         Answering = 0..(Clients - 1), NoneEnded
  PROVE  /\ Summary = {<< c, listing[c][1] >> : c \in Answering}
         /\ InGraph = {s \in Answering \X Blocks :
                         s[2] \in ToSet(listing[s[1]]) /\ Num(s[2]) >= Num(graph.root)}
<1> DEFINE all == 0..(Clients - 1)
<1>1. /\ Read # {} /\ Read \subseteq all
      /\ \A i \in Read : chains[i] = listing[i] /\ IsList(chains[i])
      /\ broken \subseteq (all \ Answering) \cup (DOMAIN tails \ Read) \cup bad
      /\ DOMAIN tails = 0..(Cardinality(Answering) - 1) /\ bad = {} /\ Read = DOMAIN tails
      /\ \A i \in Read : Newest(i) = chains[i][1] /\ pos[i] \in 1..Len(chains[i])
  BY DEF ChainsListed, Working, TailsTaken, NoneEnded
<1>2. Answering # {}
  BY <1>1
<1>3. Clients \in Nat /\ Cardinality(Answering) = Clients /\ \A k \in all : Nth(all, k) = k
  BY <1>2, CompareAssumption, AnsweringCounted, NthOfFirst
<1>4. Read = all /\ broken = {} /\ Nodes = all /\ Kept = all /\ Cardinality(Kept) = Clients
  <2>1. Read = all
    BY <1>1, <1>3
  <2>2. broken = {}
    BY <1>1
  <2>3. Nodes = all /\ Kept = all
    BY <1>1, <2>1, <2>2 DEF Nodes, Kept
  <2>4. QED  BY <1>3, <2>1, <2>2, <2>3
<1>5. \A k \in all : NodeId(k) = k /\ KeptTail(k) = k
  BY <1>3, <1>4 DEF NodeId, KeptTail
<1>6. Summary = {<< c, listing[c][1] >> : c \in Answering}
  <2>1. \A k \in all : << NodeId(k), Newest(KeptTail(k)) >> = << k, listing[k][1] >>
    BY <1>1, <1>4, <1>5
  <2>2. Summary = {<< NodeId(k), Newest(KeptTail(k)) >> : k \in all}
    BY <1>4 DEF Summary
  <2>3. QED  BY <2>1, <2>2
<1>7. GraphHoldsChains /\ Remaining = all
  BY <1>1, <1>4, GraphReturned DEF Remaining
<1>8. \A i \in all, b \in Blocks :
        Copies(i, graph.peers[b]) =
          IF b \in ToSet(listing[i]) /\ Num(b) >= Num(graph.root) THEN 1 ELSE 0
  BY <1>1, <1>4, <1>7 DEF GraphHoldsChains, Built
<1>9. \A b \in Blocks : IsABag(graph.peers[b]) /\ BagToSet(graph.peers[b]) \subseteq all
  BY <1>1, <1>4 DEF AtOneLevel, Level
<1>10. \A i \in all, b \in Blocks :
         i \in BagToSet(graph.peers[b]) <=> b \in ToSet(listing[i]) /\ Num(b) >= Num(graph.root)
  <2>1. ASSUME NEW i \in all, NEW b \in Blocks
        PROVE  i \in BagToSet(graph.peers[b]) <=> Copies(i, graph.peers[b]) # 0
    <3> DEFINE A == graph.peers[b]
    <3>1. IsABag(A)
      BY <1>9
    <3> HIDE DEF A
    <3>2. i \in BagToSet(A) <=> Copies(i, A) # 0
      <4>1. \A e \in DOMAIN A : A[e] \in Nat /\ A[e] > 0
        BY <3>1 DEF IsABag
      <4>2. BagToSet(A) = DOMAIN A /\ Copies(i, A) = IF i \in DOMAIN A THEN A[i] ELSE 0
        BY DEF BagToSet, Copies, BagIn
      <4>3. QED  BY <4>1, <4>2
    <3>3. QED  BY <3>2 DEF A
  <2>2. QED  BY <1>8, <2>1
<1>11. ASSUME NEW i \in all, NEW b \in ToSet(listing[i]), Num(b) >= Num(graph.root)
       PROVE  b \in Reached(graph)
  <2>1. IsList(listing[i]) /\ pos[i] \in 1..Len(listing[i]) /\ graph.root = listing[i][pos[i]]
        /\ ToSet(SubSeq(listing[i], 1, pos[i])) \subseteq graph.blocks
    BY <1>1, <1>4, <1>7, GraphReturned DEF ReadFrom
  <2>2. QED  BY <1>11, <2>1, ReachedFromRoot
<1>12. InGraph = {s \in Answering \X Blocks :
                    s[2] \in ToSet(listing[s[1]]) /\ Num(s[2]) >= Num(graph.root)}
  <2> DEFINE T == {s \in all \X Blocks :
                    s[2] \in ToSet(listing[s[1]]) /\ Num(s[2]) >= Num(graph.root)}
  <2>1. Reached(graph) \subseteq Blocks
    BY DEF Reached
  <2>2. ASSUME NEW s \in InGraph PROVE s \in T
    <3>1. PICK b \in Reached(graph) : \E p \in BagToSet(graph.peers[b]) : s = << NodeId(p), b >>
      BY <2>2 DEF InGraph
    <3>2. PICK p \in BagToSet(graph.peers[b]) : s = << NodeId(p), b >>
      BY <3>1
    <3>3. b \in Blocks /\ p \in all /\ s = << p, b >>
      BY <1>5, <1>9, <2>1, <3>2
    <3>4. b \in ToSet(listing[p]) /\ Num(b) >= Num(graph.root)
      BY <1>10, <3>2, <3>3
    <3>5. QED  BY <3>3, <3>4
  <2>3. ASSUME NEW s \in T PROVE s \in InGraph
    <3>1. PICK p \in all, b \in Blocks : s = << p, b >>
      BY <2>3
    <3>2. b \in ToSet(listing[p]) /\ Num(b) >= Num(graph.root)
      BY <2>3, <3>1
    <3>3. b \in Reached(graph) /\ p \in BagToSet(graph.peers[b]) /\ NodeId(p) = p
      BY <1>5, <1>10, <1>11, <3>1, <3>2
    <3>4. QED  BY <3>1, <3>3 DEF InGraph
  <2>4. QED  BY <2>2, <2>3
<1>13. QED  BY <1>6, <1>12

(* What has been printed, and the graph it was printed from.               *)
PrintedTruly == outcome = "printed" => GraphHoldsChains /\ ShownTruly

CompareInvariant == ChainsListed /\ TailsTaken /\ AtOneLevel /\ PrintedTruly

(* Printing: the graph is the one that was returned.                       *)
LEMMA ReportStep ==
  ASSUME CompareInvariant, Report
  PROVE  CompareInvariant'
<1>1. /\ phase = "report" /\ phase' = "done"
      /\ UNCHANGED << format, listing, chains, tails, pos, head, bad, broken, graph >>
      /\ outcome' = "printed" => shown' = IF format = "summary" THEN Summary ELSE InGraph
  BY DEF Report, Ends
<1>2. ChainsListed'
  BY <1>1 DEF CompareInvariant, ChainsListed, Working
<1>3. TailsTaken' /\ AtOneLevel'
  BY <1>1 DEF TailsTaken, AtOneLevel
<1>4. ChainsListed /\ TailsTaken /\ AtOneLevel
  BY DEF CompareInvariant
<1>5. Read' = Read /\ Remaining' = Remaining /\ (NoneEnded' <=> NoneEnded) /\ Answering' = Answering
  BY <1>1 DEF Read, Remaining, NoneEnded, Answering
<1>6. GraphHoldsChains'
  <2>1. GraphHoldsChains /\ Built
    BY <1>1, <1>4, GraphReturned DEF Built
  <2>2. QED  BY <1>1, <1>5, <2>1 DEF GraphHoldsChains
<1>7. ASSUME outcome' = "printed" PROVE ShownTruly'
  <2>1. CASE Answering = 0..(Clients - 1) /\ NoneEnded
    <3>1. /\ Summary = {<< c, listing[c][1] >> : c \in Answering}
          /\ InGraph = {s \in Answering \X Blocks :
                          s[2] \in ToSet(listing[s[1]]) /\ Num(s[2]) >= Num(graph.root)}
      BY <1>1, <1>4, <2>1, PrintedOfAll
    <3>2. shown' = IF format' = "summary" THEN {<< c, listing'[c][1] >> : c \in Answering'}
                   ELSE {s \in Answering' \X Blocks :
                           s[2] \in ToSet(listing'[s[1]]) /\ Num(s[2]) >= Num(graph'.root)}
      BY <1>1, <1>5, <1>7, <3>1
    <3>3. QED  BY <3>2 DEF ShownTruly
  <2>2. CASE ~ (Answering = 0..(Clients - 1) /\ NoneEnded)
    BY <1>5, <2>2 DEF ShownTruly
  <2>3. QED  BY <2>1, <2>2
<1>8. QED  BY <1>2, <1>3, <1>6, <1>7 DEF CompareInvariant, PrintedTruly

(* A step that does not print leaves the command without an outcome, or    *)
(* with another one.                                                       *)
LEMMA NotPrinted ==
  ASSUME ChainsListed, Connect \/ GetTails \/ RequestRaises \/ AddTails \/ Round
  PROVE  outcome' # "printed"
<1>1. phase \in {"connect", "tails", "graph", "round"}
  BY DEF Connect, GetTails, RequestRaises, AddTails, Round
<1>2. outcome = ""
  BY <1>1 DEF ChainsListed
<1>3. outcome' \in {outcome, "no nodes", "raised"}
  BY DEF Connect, GetTails, RequestRaises, AddTails, Round, Ends
<1>4. QED  BY <1>2, <1>3

(* Every step of compare-chains keeps its invariant.                       *)
LEMMA CompareStep ==
  ASSUME CompareInvariant, [CompareNext]_compareVars
  PROVE  CompareInvariant'
<1>1. CASE UNCHANGED compareVars
  <2>1. UNCHANGED << format, listing, phase, chains, tails, pos, head, bad, broken, graph,
                     outcome, shown >>
    BY <1>1 DEF compareVars
  <2>2. Read' = Read /\ Remaining' = Remaining /\ (NoneEnded' <=> NoneEnded)
        /\ Answering' = Answering
        /\ Shared' = Shared
    BY <2>1 DEF Read, Remaining, NoneEnded, Answering, Shared
  <2>3. ChainsListed'
    BY <2>1, <2>2 DEF CompareInvariant, ChainsListed, Working
  <2>4. TailsTaken'
    BY <2>1, <2>2 DEF CompareInvariant, TailsTaken, Newest
  <2>5. AtOneLevel'
    <3>1. \A m \in Nat : Start(m) => Start(m)'
      BY <2>1, <2>2 DEF Start, TailOf
    <3>2. \A m \in Nat : Level(m) => Level(m)'
      BY <2>1, <2>2 DEF Level, ReadFrom
    <3>3. QED  BY <2>1, <3>1, <3>2 DEF CompareInvariant, AtOneLevel
  <2>6. PrintedTruly'
    BY <2>1, <2>2 DEF CompareInvariant, PrintedTruly, GraphHoldsChains, ShownTruly, Built
  <2>7. QED  BY <2>3, <2>4, <2>5, <2>6 DEF CompareInvariant
<1>2. CASE Connect \/ GetTails \/ AddTails \/ Round
  <2>1. ChainsListed' /\ TailsTaken' /\ AtOneLevel'
    BY <1>2, ConnectStep, GetTailsStep, AddTailsStep, RoundStep DEF CompareInvariant
  <2>2. QED  BY <1>2, <2>1, NotPrinted DEF CompareInvariant, PrintedTruly
<1>3. CASE RequestRaises
  <2>1. phase' = "done" /\ UNCHANGED << listing, chains, tails, pos, head, bad, broken, graph >>
    BY <1>3 DEF RequestRaises, Ends
  <2>2. ChainsListed'
    BY <2>1 DEF CompareInvariant, ChainsListed, Working
  <2>3. QED  BY <1>3, <2>1, <2>2, NotPrinted
         DEF CompareInvariant, TailsTaken, AtOneLevel, PrintedTruly
<1>4. CASE Report
  BY <1>4, ReportStep
<1>5. QED  BY <1>1, <1>2, <1>3, <1>4 DEF CompareNext

(* Each list a validator may give is a piece of a chain.                   *)
LEMMA CompareStarts ==
  ASSUME CompareInit \/ CompareIdle
  PROVE  CompareInvariant
<1>1. ASSUME NEW f, NEW l, CompareStart(f, l), DOMAIN l = 0..(Clients - 1),
             \A c \in DOMAIN l : l[c] = << >> \/ IsList(l[c])
      PROVE  CompareInvariant
  BY <1>1 DEF CompareStart, CompareInvariant, ChainsListed, TailsTaken, AtOneLevel, PrintedTruly,
              Working
<1>2. CASE CompareIdle
  <2> DEFINE l == [c \in 0..(Clients - 1) |-> << >>]
  <2>1. CompareStart("summary", l) /\ DOMAIN l = 0..(Clients - 1)
        /\ \A c \in DOMAIN l : l[c] = << >>
    BY <1>2 DEF CompareIdle
  <2> HIDE DEF l
  <2>2. QED  BY <1>1, <2>1
<1>3. CASE CompareInit
  <2>1. ASSUME NEW s \in Listings PROVE s = << >> \/ IsList(s)
    <3>1. CASE s = << >>
      BY <3>1
    <3>2. CASE s # << >>
      <4>1. PICK b \in Blocks : \E k \in 1..Len(Chain[b]) : s = SubSeq(Chain[b], 1, k)
        BY <2>1, <3>2 DEF Listings
      <4>2. PICK k \in 1..Len(Chain[b]) : s = SubSeq(Chain[b], 1, k)
        BY <4>1
      <4>3. IsList(Chain[b])
        <5>1. Chain[b] \in Seq(Blocks) /\ Len(Chain[b]) \in Nat \ {0}
              /\ \A j \in 1..(Len(Chain[b]) - 1) : Chain[b][j + 1] = Parent[Chain[b][j]]
          BY ChainShape
        <5>2. Chain[b] # << >>
          BY <5>1
        <5>3. QED  BY <5>1, <5>2 DEF IsList
      <4>4. QED  BY <4>2, <4>3, ListPiece
    <3>3. QED  BY <3>1, <3>2
  <2>2. PICK f \in Formats, l \in [0..(Clients - 1) -> Listings] : CompareStart(f, l)
    BY <1>3 DEF CompareInit
  <2>3. QED  BY <1>1, <2>1, <2>2
<1>4. QED  BY <1>2, <1>3

-----------------------------------------------------------------------------
(* Arithmetic modulo m.                                                    *)

Cong(a, b, m) == \E t \in Int : a = b + t * m

(* A number differs from its residue by a multiple of m.                   *)
LEMMA ModFacts ==
  ASSUME NEW a \in Int, NEW m \in Nat \ {0}
  PROVE  /\ a % m \in 0..(m - 1) /\ Cong(a % m, a, m)
         /\ a \div m \in Int /\ a = m * (a \div m) + (a % m)
<1>1. a \div m \in Int /\ a % m \in 0..(m - 1) /\ a = m * (a \div m) + (a % m)
  OBVIOUS
<1>2. \E t \in Int : a % m = a + t * m
  <2> DEFINE q == a \div m
             r == a % m
  <2>1. q \in Int /\ r \in 0..(m - 1) /\ a = m * q + r
    BY <1>1
  <2> HIDE DEF q, r
  <2>2. r = a + (0 - q) * m /\ 0 - q \in Int
    BY <2>1
  <2>3. \E t \in Int : r = a + t * m
    BY <2>2
  <2>4. QED  BY <2>3 DEF r
<1>3. QED  BY <1>1, <1>2 DEF Cong

(* Residues that differ by a multiple of m are one.                        *)
LEMMA CongUnique ==
  ASSUME NEW m \in Nat \ {0}, NEW a \in 0..(m - 1), NEW b \in 0..(m - 1), Cong(a, b, m)
  PROVE  a = b
<1>1. PICK t \in Int : a = b + t * m
  BY DEF Cong
<1>2. CASE t = 0
  BY <1>1, <1>2
<1>3. CASE t >= 1
  <2>1. t * m >= m
    <3>1. t * m = (t - 1) * m + m /\ (t - 1) * m >= 0
      BY <1>3
    <3>2. QED  BY <3>1
  <2>2. QED  BY <1>1, <2>1
<1>4. CASE t <= -1
  <2>1. t * m <= 0 - m
    <3>1. t * m = (t + 1) * m - m /\ (t + 1) * m <= 0
      BY <1>4
    <3>2. QED  BY <3>1
  <2>2. QED  BY <1>1, <2>1
<1>5. QED  BY <1>2, <1>3, <1>4

(* Two numbers that differ by a multiple of m have one residue.            *)
LEMMA SameResidue ==
  ASSUME NEW m \in Nat \ {0}, NEW a \in Int, NEW b \in Int, NEW t \in Int, a = b + t * m
  PROVE  a % m = b % m
<1>1. PICK q \in Int : a % m = a + q * m
  BY ModFacts DEF Cong
<1>2. PICK r \in Int : b % m = b + r * m
  BY ModFacts DEF Cong
<1>3. a % m \in 0..(m - 1) /\ b % m \in 0..(m - 1)
  BY ModFacts
<1> DEFINE x == a % m
           y == b % m
           w == t + q - r
<1>4. x = a + q * m /\ y = b + r * m /\ x \in 0..(m - 1) /\ y \in 0..(m - 1)
  BY <1>1, <1>2, <1>3
<1> HIDE DEF x, y
<1>5. x = y + w * m /\ w \in Int
  BY <1>4
<1> HIDE DEF w
<1>6. Cong(x, y, m)
  BY <1>5 DEF Cong
<1>7. x = y
  BY <1>4, <1>6, CongUnique
<1>8. QED  BY <1>7 DEF x, y

(* A number below m is its residue.                                        *)
LEMMA SmallResidue ==
  ASSUME NEW m \in Nat \ {0}, NEW a \in 0..(m - 1)
  PROVE  a % m = a
<1>1. a \in Int
  OBVIOUS
<1>2. a % m \in 0..(m - 1) /\ Cong(a % m, a, m)
  BY <1>1, ModFacts
<1>3. QED  BY <1>2, CongUnique

(* Multiplication modulo m.                                                *)
Mul(a, b, m) == (a * b) % m

(* A product modulo m is a residue.                                        *)
LEMMA MulRange ==
  ASSUME NEW m \in Nat \ {0}, NEW a \in Int, NEW b \in Int
  PROVE  Mul(a, b, m) \in 0..(m - 1) /\ Mul(a, b, m) \in Nat
<1>1. a * b \in Int
  OBVIOUS
<1>2. (a * b) % m \in 0..(m - 1)
  BY <1>1, ModFacts
<1>3. QED  BY <1>2 DEF Mul

(* The factors of a product modulo m may be swapped.                       *)
LEMMA MulSwaps ==
  ASSUME NEW m, NEW a \in Int, NEW b \in Int
  PROVE  Mul(a, b, m) = Mul(b, a, m)
<1>1. a * b = b * a
  OBVIOUS
<1>2. QED  BY <1>1 DEF Mul

(* A factor may be reduced before it is multiplied.                        *)
LEMMA MulReduced ==
  ASSUME NEW m \in Nat \ {0}, NEW a \in Int, NEW b \in Int
  PROVE  Mul(a % m, b, m) = Mul(a, b, m) /\ Mul(b, a % m, m) = Mul(b, a, m)
<1>1. PICK q \in Int : a % m = a + q * m
  BY ModFacts DEF Cong
<1> DEFINE x == a % m
<1>2. x \in Int /\ x = a + q * m
  BY <1>1
<1> HIDE DEF x
<1>3. x * b = a * b + (q * b) * m /\ x * b \in Int /\ a * b \in Int /\ q * b \in Int
  BY <1>2
<1>4. (x * b) % m = (a * b) % m
  BY <1>3, SameResidue
<1>5. b * x = x * b /\ b * a = a * b
  BY <1>2
<1>6. QED  BY <1>4, <1>5 DEF Mul, x

(* They may be grouped in any way.                                         *)
LEMMA MulGroups ==
  ASSUME NEW m \in Nat \ {0}, NEW a \in Int, NEW b \in Int, NEW c \in Int
  PROVE  Mul(Mul(a, b, m), c, m) = Mul(a, Mul(b, c, m), m)
<1>1. a * b \in Int /\ b * c \in Int /\ (a * b) * c = a * (b * c)
  OBVIOUS
<1>2. Mul((a * b) % m, c, m) = Mul(a * b, c, m)
  BY <1>1, MulReduced
<1>3. Mul(a, (b * c) % m, m) = Mul(a, b * c, m)
  BY <1>1, MulReduced
<1>4. Mul(a * b, c, m) = Mul(a, b * c, m)
  BY <1>1 DEF Mul
<1>5. QED  BY <1>2, <1>3, <1>4 DEF Mul

(* A product of two products is one of two others.                         *)
LEMMA MulCrosses ==
  ASSUME NEW m \in Nat \ {0}, NEW a \in Nat, NEW b \in Nat, NEW c \in Nat, NEW d \in Nat
  PROVE  Mul(Mul(a, b, m), Mul(c, d, m), m) = Mul(Mul(a, c, m), Mul(b, d, m), m)
<1> DEFINE M(x, y) == Mul(x, y, m)
<1>1. \A x, y \in Nat : M(x, y) \in Nat /\ M(x, y) = M(y, x)
  BY MulRange, MulSwaps
<1>2. \A x, y, z \in Nat : M(M(x, y), z) = M(x, M(y, z))
  BY MulGroups
<1> HIDE DEF M
<1>3. M(M(a, b), M(c, d)) = M(a, M(b, M(c, d)))
  BY <1>1, <1>2
<1>4. M(b, M(c, d)) = M(c, M(b, d))
  <2>1. M(b, M(c, d)) = M(M(b, c), d)
    BY <1>2
  <2>2. M(c, M(b, d)) = M(M(c, b), d)
    BY <1>2
  <2>3. M(b, c) = M(c, b)
    BY <1>1
  <2>4. QED  BY <2>1, <2>2, <2>3
<1>5. M(a, M(c, M(b, d))) = M(M(a, c), M(b, d))
  BY <1>1, <1>2
<1>6. M(M(a, b), M(c, d)) = M(M(a, c), M(b, d))
  BY <1>3, <1>4, <1>5
<1>7. QED  BY <1>6 DEF M

-----------------------------------------------------------------------------
(* Powers.                                                                 *)

IsPow(b, e, m, f) == f = [i \in 0..e |-> IF i = 0 THEN 1 % m ELSE (f[i - 1] * b) % m]

(* The recursive function of Pow exists.                                   *)
LEMMA PowExists ==
  ASSUME NEW b \in Nat, NEW m \in Nat \ {0}, NEW e \in Nat
  PROVE  \E f : IsPow(b, e, m, f)
<1> DEFINE Not == {n \in Nat : ~\E f : IsPow(b, n, m, f)}
<1> SUFFICES ASSUME Not # {} PROVE FALSE
  OBVIOUS
<1>1. PICK n \in Not : \A j \in Not : n <= j
  BY LeastIn
<1>2. n # 0
  <2> DEFINE f == [i \in 0..0 |-> 1 % m]
  <2>1. f = [i \in 0..0 |-> IF i = 0 THEN 1 % m ELSE (f[i - 1] * b) % m]
    <3>1. \A i \in 0..0 : i = 0
      OBVIOUS
    <3>2. QED  BY <3>1
  <2>2. IsPow(b, 0, m, f)
    BY <2>1 DEF IsPow
  <2>3. QED  BY <2>2
<1>3. n - 1 \in Nat /\ n - 1 \notin Not
  BY <1>1, <1>2
<1>4. PICK f : IsPow(b, n - 1, m, f)
  BY <1>3
<1> DEFINE h == [i \in 0..n |-> IF i < n THEN f[i] ELSE (f[n - 1] * b) % m]
<1>5. ASSUME NEW i \in 0..n
      PROVE  h[i] = IF i = 0 THEN 1 % m ELSE (h[i - 1] * b) % m
  <2>1. CASE i = n
    <3>1. h[n - 1] = f[n - 1] /\ h[n] = (f[n - 1] * b) % m
      BY <1>2, <1>3
    <3>2. QED  BY <1>2, <2>1, <3>1
  <2>2. CASE i < n
    <3>1. i \in 0..(n - 1) /\ h[i] = f[i]
      BY <2>2
    <3>2. f[i] = IF i = 0 THEN 1 % m ELSE (f[i - 1] * b) % m
      BY <1>4, <3>1 DEF IsPow
    <3>3. i # 0 => i - 1 \in 0..n /\ i - 1 < n
      BY <2>2
    <3>4. i # 0 => h[i - 1] = f[i - 1]
      BY <3>3
    <3> HIDE DEF h
    <3>5. QED  BY <3>1, <3>2, <3>4
  <2>3. i = n \/ i < n
    BY <1>1
  <2>4. QED  BY <2>1, <2>2, <2>3
<1>6. h = [i \in 0..n |-> h[i]]
  OBVIOUS
<1> HIDE DEF h
<1>7. IsPow(b, n, m, h)
  BY <1>5, <1>6 DEF IsPow
<1>8. QED  BY <1>1, <1>7

(* Two of them agree.                                                      *)
LEMMA PowsAgree ==
  ASSUME NEW b, NEW m, NEW e \in Nat, NEW d \in Nat, e <= d,
         NEW f, NEW g, IsPow(b, e, m, f), IsPow(b, d, m, g)
  PROVE  f[e] = g[e]
<1> DEFINE Bad == {i \in 0..e : f[i] # g[i]}
<1> SUFFICES ASSUME Bad # {} PROVE FALSE
  OBVIOUS
<1>1. Bad \in SUBSET Nat
  OBVIOUS
<1>2. PICK i \in Bad : \A j \in Bad : i <= j
  BY <1>1, LeastIn
<1>3. i \in 0..e /\ i \in 0..d
  OBVIOUS
<1>4. /\ f[i] = IF i = 0 THEN 1 % m ELSE (f[i - 1] * b) % m
      /\ g[i] = IF i = 0 THEN 1 % m ELSE (g[i - 1] * b) % m
  BY <1>3 DEF IsPow
<1>5. i # 0 => i - 1 \in 0..e /\ i - 1 \notin Bad
  BY <1>2, <1>3
<1>6. QED  BY <1>4, <1>5

(* The power of e + 1 is the power of e, once more multiplied.             *)
LEMMA PowUnfolds ==
  ASSUME NEW b \in Nat, NEW m \in Nat \ {0}, NEW e \in Nat
  PROVE  /\ Pow(b, 0, m) = 1 % m
         /\ Pow(b, e + 1, m) = (Pow(b, e, m) * b) % m
         /\ Pow(b, e, m) \in 0..(m - 1)
<1> DEFINE F(n) == CHOOSE f : IsPow(b, n, m, f)
<1>1. \A n \in Nat : Pow(b, n, m) = F(n)[n]
  BY DEF Pow, IsPow
<1>2. \A n \in Nat : IsPow(b, n, m, F(n))
  BY PowExists
<1> HIDE DEF F
<1>3. \A n \in Nat : \A i \in 0..n : F(n)[i] = IF i = 0 THEN 1 % m ELSE (F(n)[i - 1] * b) % m
  BY <1>2 DEF IsPow
<1>4. F(0)[0] = 1 % m
  BY <1>3
<1>5. F(e + 1)[e + 1] = (F(e + 1)[e] * b) % m
  <2>1. e + 1 \in Nat /\ e + 1 \in 0..(e + 1) /\ e + 1 # 0 /\ (e + 1) - 1 = e
    OBVIOUS
  <2>2. QED  BY <1>3, <2>1
<1>6. F(e + 1)[e] = F(e)[e]
  <2>1. e + 1 \in Nat /\ e <= e + 1
    OBVIOUS
  <2>2. QED  BY <1>2, <2>1, PowsAgree
<1>7. F(e)[e] \in 0..(m - 1)
  <2>1. \A n \in Nat : \A i \in 0..n : F(n)[i] \in 0..(m - 1)
    <3> SUFFICES ASSUME NEW n \in Nat, {i \in 0..n : F(n)[i] \notin 0..(m - 1)} # {} PROVE FALSE
      OBVIOUS
    <3> DEFINE Bad == {i \in 0..n : F(n)[i] \notin 0..(m - 1)}
    <3>1. PICK i \in Bad : \A j \in Bad : i <= j
      <4>1. Bad \in SUBSET Nat /\ Bad # {}
        OBVIOUS
      <4>2. QED  BY <4>1, LeastIn
    <3>2. CASE i = 0
      <4>1. 1 % m \in 0..(m - 1)
        BY ModFacts
      <4>2. QED  BY <1>3, <3>2, <4>1
    <3>3. CASE i # 0
      <4>1. i - 1 \in 0..n /\ i - 1 \notin Bad
        BY <3>1, <3>3
      <4>2. F(n)[i - 1] \in 0..(m - 1)
        BY <4>1
      <4>3. F(n)[i - 1] * b \in Int
        BY <4>2
      <4>4. (F(n)[i - 1] * b) % m \in 0..(m - 1)
        BY <4>3, ModFacts
      <4>5. QED  BY <1>3, <3>3, <4>4
    <3>4. QED  BY <3>2, <3>3
  <2>2. QED  BY <2>1
<1>8. QED  BY <1>1, <1>4, <1>5, <1>6, <1>7

(* Induction over the natural numbers, for a set of them.                  *)
LEMMA FromZero ==
  ASSUME NEW S, 0 \in S, \A i \in Nat : i \in S => i + 1 \in S
  PROVE  \A i \in Nat : i \in S
<1> DEFINE Not == Nat \ S
<1> SUFFICES ASSUME Not # {} PROVE FALSE
  OBVIOUS
<1>1. PICK n \in Not : \A j \in Not : n <= j
  BY LeastIn
<1>2. n # 0
  OBVIOUS
<1>3. n - 1 \in Nat /\ n - 1 \notin Not /\ (n - 1) + 1 = n
  BY <1>1, <1>2
<1>4. QED  BY <1>3

(* A power modulo m is a residue.                                          *)
LEMMA PowRange ==
  ASSUME NEW b \in Nat, NEW m \in Nat \ {0}, NEW e \in Nat
  PROVE  Pow(b, e, m) \in Nat /\ Pow(b, e, m) \in 0..(m - 1)
<1>1. Pow(b, e, m) \in 0..(m - 1)
  BY PowUnfolds
<1> DEFINE x == Pow(b, e, m)
<1> HIDE DEF x
<1>2. x \in 0..(m - 1) => x \in Nat
  OBVIOUS
<1>3. QED  BY <1>1, <1>2 DEF x

(* The power of zero.                                                      *)
LEMMA PowZero ==
  ASSUME NEW b \in Nat, NEW m \in Nat \ {0}
  PROVE  Pow(b, 0, m) = 1 % m
<1>1. 0 \in Nat
  OBVIOUS
<1>2. QED  BY <1>1, PowUnfolds

(* The next power.                                                         *)
LEMMA PowStep ==
  ASSUME NEW b \in Nat, NEW m \in Nat \ {0}, NEW e \in Nat
  PROVE  Pow(b, e + 1, m) = Mul(Pow(b, e, m), b, m)
BY PowUnfolds DEF Mul

(* One is neutral.                                                         *)
LEMMA MulOne ==
  ASSUME NEW m \in Nat \ {0}, NEW a \in 0..(m - 1)
  PROVE  Mul(1 % m, a, m) = a /\ Mul(a, 1 % m, m) = a
<1>1. a \in Int /\ 1 * a = a /\ a * 1 = a /\ a % m = a
  BY SmallResidue
<1>2. Mul(1 % m, a, m) = Mul(1, a, m) /\ Mul(a, 1 % m, m) = Mul(a, 1, m)
  <2>1. \A x \in Int : Mul(x % m, a, m) = Mul(x, a, m) /\ Mul(a, x % m, m) = Mul(a, x, m)
    BY <1>1, MulReduced
  <2>2. 1 \in Int
    OBVIOUS
  <2>3. QED  BY <2>1, <2>2
<1>3. QED  BY <1>1, <1>2 DEF Mul

(* The power of a product is the product of the powers.                    *)
LEMMA PowProduct ==
  ASSUME NEW a \in Nat, NEW c \in Nat, NEW m \in Nat \ {0}, NEW e \in Nat
  PROVE  Pow(Mul(a, c, m), e, m) = Mul(Pow(a, e, m), Pow(c, e, m), m)
<1> DEFINE b == Mul(a, c, m)
           S == {i \in Nat : Pow(b, i, m) = Mul(Pow(a, i, m), Pow(c, i, m), m)}
<1>1. b \in Nat
  BY MulRange
<1>2. 0 \in S
  <2>1. 1 % m \in 0..(m - 1)
    BY ModFacts
  <2>2. Pow(b, 0, m) = 1 % m /\ Pow(a, 0, m) = 1 % m /\ Pow(c, 0, m) = 1 % m
    BY <1>1, PowZero
  <2>3. Mul(1 % m, 1 % m, m) = 1 % m
    BY <2>1, MulOne
  <2>4. QED  BY <2>2, <2>3
<1>3. ASSUME NEW i \in Nat, i \in S PROVE i + 1 \in S
  <2>1. Pow(b, i, m) = Mul(Pow(a, i, m), Pow(c, i, m), m)
    BY <1>3
  <2>2. /\ Pow(b, i + 1, m) = Mul(Pow(b, i, m), b, m)
        /\ Pow(a, i + 1, m) = Mul(Pow(a, i, m), a, m)
        /\ Pow(c, i + 1, m) = Mul(Pow(c, i, m), c, m)
    BY <1>1, PowStep
  <2>3. Pow(a, i, m) \in Nat /\ Pow(c, i, m) \in Nat
    BY PowRange
  <2>4. Mul(Mul(Pow(a, i, m), Pow(c, i, m), m), Mul(a, c, m), m) =
          Mul(Mul(Pow(a, i, m), a, m), Mul(Pow(c, i, m), c, m), m)
    BY <2>3, MulCrosses
  <2>5. QED  BY <2>1, <2>2, <2>4
<1>4. \A i \in Nat : i \in S
  <2> HIDE DEF S
  <2>1. QED  BY <1>2, <1>3, FromZero
<1>5. QED  BY <1>4

(* The powers of one are one.                                              *)
LEMMA PowOfOne ==
  ASSUME NEW m \in Nat \ {0}, NEW e \in Nat
  PROVE  Pow(1 % m, e, m) = 1 % m
<1> DEFINE o == 1 % m
           S == {i \in Nat : Pow(o, i, m) = o}
<1>1. o \in 0..(m - 1)
  BY ModFacts
<1>2. o \in Nat /\ Mul(o, o, m) = o
  BY <1>1, MulOne
<1>3. 0 \in S
  BY <1>2, PowZero
<1>4. ASSUME NEW i \in Nat, i \in S PROVE i + 1 \in S
  <2> HIDE DEF o
  <2>1. QED  BY <1>2, <1>4, PowStep
<1>5. \A i \in Nat : i \in S
  <2> HIDE DEF S
  <2>1. QED  BY <1>3, <1>4, FromZero
<1>6. QED  BY <1>5

(* Two exponents may be swapped.                                           *)
LEMMA PowSwap ==
  ASSUME NEW a \in Nat, NEW m \in Nat \ {0}, NEW i \in Nat, NEW e \in Nat
  PROVE  Pow(Pow(a, e, m), i, m) = Pow(Pow(a, i, m), e, m)
<1> DEFINE b == Pow(a, i, m)
           S == {j \in Nat : Pow(Pow(a, j, m), i, m) = Pow(b, j, m)}
<1>0. b \in Nat
  BY PowRange
<1>1. 0 \in S
  <2>1. Pow(a, 0, m) = 1 % m /\ Pow(b, 0, m) = 1 % m
    BY <1>0, PowZero
  <2>2. QED  BY <2>1, PowOfOne
<1>2. ASSUME NEW j \in Nat, j \in S PROVE j + 1 \in S
  <2> DEFINE x == Pow(a, j, m)
  <2>1. x \in Nat /\ Pow(a, j + 1, m) = Mul(x, a, m)
    BY PowRange, PowStep
  <2>2. Pow(x, i, m) = Pow(b, j, m)
    BY <1>2
  <2> HIDE DEF x
  <2>3. Pow(Mul(x, a, m), i, m) = Mul(Pow(x, i, m), Pow(a, i, m), m)
    BY <2>1, PowProduct
  <2>4. Pow(b, j + 1, m) = Mul(Pow(b, j, m), b, m)
    BY <1>0, PowStep
  <2>5. QED  BY <2>1, <2>2, <2>3, <2>4
<1>3. \A j \in Nat : j \in S
  <2> HIDE DEF S
  <2>1. QED  BY <1>1, <1>2, FromZero
<1>4. QED  BY <1>3

(* A residue modulo a multiple of m, reduced modulo m.                     *)
LEMMA FactorResidue ==
  ASSUME NEW m \in Nat \ {0}, NEW k \in Nat \ {0}, NEW a \in Int
  PROVE  (a % (m * k)) % m = a % m
<1> DEFINE s == m * k
<1>1. s \in Nat \ {0}
  OBVIOUS
<1> HIDE DEF s
<1>2. PICK q \in Int : a % s = a + q * s
  BY <1>1, ModFacts DEF Cong
<1> DEFINE x == a % s
<1>3. x \in Int /\ x = a + q * s
  BY <1>1, <1>2
<1> HIDE DEF x
<1>4. x = a + (q * k) * m /\ q * k \in Int
  <2>1. q * s = (q * k) * m
    BY DEF s
  <2>2. QED  BY <1>3, <2>1
<1>5. x % m = a % m
  BY <1>3, <1>4, SameResidue
<1>6. QED  BY <1>5 DEF x, s

(* A power modulo a multiple of m, reduced modulo m, is the power modulo m.*)
LEMMA PowFactor ==
  ASSUME NEW a \in Nat, NEW m \in Nat \ {0}, NEW k \in Nat \ {0}, NEW e \in Nat
  PROVE  Pow(a, e, m * k) % m = Pow(a, e, m)
<1> DEFINE s == m * k
           S == {i \in Nat : Pow(a, i, s) % m = Pow(a, i, m)}
<1>1. s \in Nat \ {0}
  OBVIOUS
<1>2. \A x \in Int : (x % s) % m = x % m
  BY FactorResidue
<1> HIDE DEF s
<1>3. 0 \in S
  <2>1. Pow(a, 0, s) = 1 % s /\ Pow(a, 0, m) = 1 % m
    BY <1>1, PowZero
  <2>2. (1 % s) % m = 1 % m
    BY <1>2
  <2>3. QED  BY <2>1, <2>2
<1>4. ASSUME NEW i \in Nat, i \in S PROVE i + 1 \in S
  <2> DEFINE x == Pow(a, i, s)
  <2>1. x \in Nat /\ Pow(a, i + 1, s) = Mul(x, a, s)
    BY <1>1, PowRange, PowStep
  <2>2. x % m = Pow(a, i, m) /\ Pow(a, i + 1, m) = Mul(Pow(a, i, m), a, m)
    BY <1>4, PowStep
  <2> HIDE DEF x
  <2>3. x \in Int /\ a \in Int /\ x * a \in Int
    BY <2>1
  <2>4. ((x * a) % s) % m = (x * a) % m
    BY <1>2, <2>3
  <2>5. Mul(x % m, a, m) = Mul(x, a, m)
    BY <2>3, MulReduced
  <2>6. QED  BY <2>1, <2>2, <2>4, <2>5 DEF Mul
<1>5. \A i \in Nat : i \in S
  <2> HIDE DEF S
  <2>1. QED  BY <1>3, <1>4, FromZero
<1>6. QED  BY <1>5 DEF s

(* Modulo n n, factors of the form 1 + n a multiply by adding the a.       *)
LEMMA OnePlusProduct ==
  ASSUME NEW n \in Nat \ {0}, NEW a \in Nat, NEW b \in Nat
  PROVE  Mul((1 + n * a) % (n * n), (1 + n * b) % (n * n), n * n) = (1 + n * (a + b)) % (n * n)
<1> DEFINE s == n * n
           x == 1 + n * a
           y == 1 + n * b
           z == 1 + n * (a + b)
<1>1. s \in Nat \ {0} /\ x \in Int /\ y \in Int /\ z \in Int /\ x * y \in Int /\ a * b \in Int
  OBVIOUS
<1>2. x * y = z + (a * b) * s
  <2>1. x * y = 1 + n * a + n * b + (n * a) * (n * b)
    OBVIOUS
  <2>2. z = 1 + n * a + n * b
    OBVIOUS
  <2>3. (n * a) * (n * b) = (a * b) * s
    OBVIOUS
  <2> HIDE DEF x, y, z, s
  <2>4. QED  BY <1>1, <2>1, <2>2, <2>3
<1> HIDE DEF x, y, z, s
<1>3. (x * y) % s = z % s
  BY <1>1, <1>2, SameResidue
<1>4. Mul(x % s, y % s, s) = Mul(x, y % s, s)
  <2>1. y % s \in Int
    BY <1>1, ModFacts
  <2>2. QED  BY <1>1, <2>1, MulReduced
<1>5. Mul(x, y % s, s) = Mul(x, y, s)
  BY <1>1, MulReduced
<1>6. Mul(x % s, y % s, s) = z % s
  BY <1>3, <1>4, <1>5 DEF Mul
<1>7. QED  BY <1>6 DEF x, y, z, s

(* Modulo n n, the power e of 1 + n h is 1 + n h e.                        *)
LEMMA PowOnePlus ==
  ASSUME NEW n \in Nat \ {0}, NEW h \in Nat, NEW e \in Nat
  PROVE  Pow((1 + n * h) % (n * n), e, n * n) = (1 + n * (h * e)) % (n * n)
<1> DEFINE s == n * n
           P(a) == (1 + n * a) % s
           S == {i \in Nat : Pow(P(h), i, s) = P(h * i)}
<1>1. s \in Nat \ {0}
  OBVIOUS
<1>2. \A a, b \in Nat : Mul(P(a), P(b), s) = P(a + b)
  BY OnePlusProduct
<1>3. P(0) = 1 % s
  OBVIOUS
<1>4. P(h) \in Nat
  <2>1. 1 + n * h \in Int
    OBVIOUS
  <2> HIDE DEF s
  <2>2. QED  BY <1>1, <2>1, ModFacts
<1> HIDE DEF P, s
<1>5. 0 \in S
  <2>1. h * 0 = 0
    OBVIOUS
  <2>2. QED  BY <1>1, <1>3, <1>4, <2>1, PowZero
<1>6. ASSUME NEW i \in Nat, i \in S PROVE i + 1 \in S
  <2>1. h * i \in Nat /\ h * (i + 1) = h * i + h
    OBVIOUS
  <2>2. Pow(P(h), i, s) = P(h * i)
    BY <1>6
  <2>3. Pow(P(h), i + 1, s) = Mul(Pow(P(h), i, s), P(h), s)
    BY <1>1, <1>4, PowStep
  <2>4. Mul(P(h * i), P(h), s) = P(h * i + h)
    BY <1>2, <2>1
  <2>5. QED  BY <2>1, <2>2, <2>3, <2>4
<1>7. \A i \in Nat : i \in S
  <2> HIDE DEF S
  <2>1. QED  BY <1>5, <1>6, FromZero
<1>8. QED  BY <1>7 DEF P, s

-----------------------------------------------------------------------------
(* L, the helper, and the denominator.                                     *)

(* A multiple of n is 0 or as far from 0 as n.                             *)
LEMMA TimesSign ==
  ASSUME NEW n \in Nat \ {0}, NEW t \in Int
  PROVE  (t >= 1 => n * t >= n) /\ (t <= -1 => n * t <= 0 - n)
<1>1. ASSUME t >= 1 PROVE n * t >= n
  <2>1. PICK k \in Nat : t = k + 1
    <3>1. t - 1 \in Nat /\ t = (t - 1) + 1
      BY <1>1
    <3>2. QED  BY <3>1
  <2>2. n * (k + 1) = n * k + n /\ n * k \in Nat
    OBVIOUS
  <2>3. QED  BY <2>1, <2>2
<1>2. ASSUME t <= -1 PROVE n * t <= 0 - n
  <2>1. PICK k \in Nat : t = 0 - (k + 1)
    <3>1. 0 - t - 1 \in Nat /\ t = 0 - ((0 - t - 1) + 1)
      BY <1>2
    <3>2. QED  BY <3>1
  <2>2. n * (0 - (k + 1)) = 0 - n * k - n /\ n * k \in Nat
    OBVIOUS
  <2>3. QED  BY <2>1, <2>2
<1>3. QED  BY <1>1, <1>2

(* The quotient of a multiple.                                             *)
LEMMA DivExact ==
  ASSUME NEW n \in Nat \ {0}, NEW q \in Int
  PROVE  (n * q) \div n = q
<1> DEFINE x == n * q
           r == x % n
           d == x \div n
<1>1. x \in Int /\ x = 0 + q * n /\ 0 \in Int
  OBVIOUS
<1>2. r = 0
  <2> HIDE DEF x
  <2>1. x % n = 0 % n
    BY <1>1, SameResidue
  <2>2. 0 \in 0..(n - 1)
    OBVIOUS
  <2>3. 0 % n = 0
    BY <2>2, SmallResidue
  <2>4. QED  BY <2>1, <2>3
<1>3. d \in Int /\ x = n * d + r
  <2> HIDE DEF x
  <2>1. QED  BY <1>1, ModFacts
<1> HIDE DEF d, r
<1>4. d = q
  <2> DEFINE t == d - q
  <2>1. n * t = 0 /\ t \in Int /\ d \in Int
    BY <1>2, <1>3
  <2>2. t = 0 => d = q
    BY <2>1
  <2> HIDE DEF t
  <2>3. (t >= 1 => n * t >= n) /\ (t <= -1 => n * t <= 0 - n)
    BY <2>1, TimesSign
  <2>4. t = 0
    BY <2>1, <2>3
  <2>5. QED  BY <2>2, <2>4
<1>5. QED  BY <1>4 DEF d

(* L of 1 + n r is r.                                                      *)
LEMMA LOfOnePlus ==
  ASSUME NEW n \in Nat \ {0}, NEW r \in Nat
  PROVE  L(1 + n * r, n) = r
<1>1. 1 + n * r # 0 /\ (1 + n * r) - 1 = n * r
  <2>1. n * r \in Nat
    OBVIOUS
  <2>2. QED  BY <2>1
<1>2. (n * r) \div n = r
  BY DivExact
<1>3. QED  BY <1>1, <1>2 DEF L

(* A power that is 1 modulo n is 1 + n L modulo n n.                       *)
LEMMA PowOfOrder ==
  ASSUME NEW n \in Nat \ {0, 1}, NEW a \in Nat, NEW e \in Nat, Pow(a, e, n) = 1
  PROVE  /\ L(Pow(a, e, n * n), n) \in Nat
         /\ Pow(a, e, n * n) = (1 + n * L(Pow(a, e, n * n), n)) % (n * n)
<1> DEFINE s == n * n
           u == Pow(a, e, s)
           q == u \div n
<1>1. s \in Nat \ {0}
  OBVIOUS
<1>2. u \in 0..(s - 1) /\ u \in Int /\ u \in Nat
  <2> HIDE DEF s
  <2>1. u \in 0..(s - 1) /\ u \in Nat
    BY <1>1, PowRange
  <2>2. QED  BY <2>1
<1>3. u % n = 1
  BY PowFactor
<1> HIDE DEF u, s
<1>4. q \in Int /\ u = n * q + (u % n)
  BY <1>2, ModFacts
<1> HIDE DEF q
<1>5. u = 1 + n * q
  BY <1>3, <1>4
<1>6. q \in Nat
  <2>1. CASE q <= -1
    <3>1. n * q <= 0 - n /\ n * q \in Int
      BY <1>4, <2>1, TimesSign
    <3>2. QED  BY <1>2, <1>5, <3>1
  <2>2. QED  BY <1>4, <2>1
<1>7. L(u, n) = q
  BY <1>5, <1>6, LOfOnePlus
<1>8. u % s = u
  BY <1>1, <1>2, SmallResidue
<1>9. QED  BY <1>5, <1>6, <1>7, <1>8 DEF u, s

(* The inverse of the helper, when it has no factor of n.                  *)
LEMMA DenominatorExists ==
  ASSUME NEW n \in Nat \ {0, 1}, NEW h \in Nat, Gcd(h, n) = 1
  PROVE  \E u \in 1..n : (u * h) % n = 1
<1> DEFINE S == {v \in Nat \ {0} : \E x, y \in Int : v = x * h + y * n}
<1>1. PICK d \in S : \A v \in S : d <= v
  <2>1. n = 0 * h + 1 * n /\ n \in Nat \ {0}
    OBVIOUS
  <2>2. n \in S
    BY <2>1
  <2>3. S \in SUBSET Nat /\ S # {}
    BY <2>2
  <2> HIDE DEF S
  <2>4. QED  BY <2>3, LeastIn
<1>2. PICK x \in Int, y \in Int : d = x * h + y * n
  OBVIOUS
<1>3. d \in Nat \ {0}
  OBVIOUS
<1>4. ASSUME NEW a \in Nat, NEW v \in Int, NEW w \in Int, a = v * h + w * n
      PROVE  a % d = 0
  <2>0. a \in Int /\ d \in Nat \ {0}
    BY <1>3
  <2> HIDE DEF S
  <2>1. PICK q \in Int : a % d = a + q * d
    BY <2>0, ModFacts DEF Cong
  <2>2. a % d \in 0..(d - 1)
    BY <2>0, ModFacts
  <2> DEFINE r == a % d
  <2>3. r \in 0..(d - 1) /\ r = a + q * d
    BY <2>1, <2>2
  <2> HIDE DEF r
  <2>4. r = (v + q * x) * h + (w + q * y) * n /\ v + q * x \in Int /\ w + q * y \in Int
    <3>1. q * d = (q * x) * h + (q * y) * n
      BY <1>2, <1>3
    <3>2. QED  BY <1>4, <2>3, <3>1
  <2>5. r # 0 => r \in S
    <3>1. r # 0 => r \in Nat \ {0}
      BY <1>3, <2>3
    <3>2. \E z, t \in Int : r = z * h + t * n
      BY <2>4
    <3>3. QED  BY <3>1, <3>2 DEF S
  <2>6. r \in S => d <= r
    BY <1>1
  <2>7. r = 0
    BY <1>3, <2>3, <2>5, <2>6
  <2>8. QED  BY <2>7 DEF r
<1>5. h % d = 0 /\ n % d = 0
  <2>1. h = 1 * h + 0 * n /\ n = 0 * h + 1 * n /\ 0 \in Int /\ 1 \in Int
    OBVIOUS
  <2>2. QED  BY <1>4, <2>1
<1>6. d <= n
  <2>1. n = 0 * h + 1 * n /\ n \in Nat \ {0}
    OBVIOUS
  <2>2. n \in S
    BY <2>1
  <2>3. QED  BY <1>1, <2>2
<1> DEFINE D == {c \in 1..n : Divides(c, h) /\ Divides(c, n)}
<1>7. d \in D
  BY <1>3, <1>5, <1>6 DEF Divides
<1>8. \A c \in D : c <= Max(D)
  <2>1. D \in SUBSET (1..n) /\ D # {}
    BY <1>7
  <2> HIDE DEF D
  <2>2. QED  BY <2>1, LastPlace
<1>9. Max(D) = 1
  BY DEF Gcd
<1>10. d = 1
  BY <1>3, <1>7, <1>8, <1>9
<1> DEFINE u == x % n
<1>0. n \in Nat \ {0} /\ h \in Int /\ 1 \in 0..(n - 1) /\ 0 \in 0..(n - 1)
  OBVIOUS
<1>11. u \in 0..(n - 1) /\ u \in Int
  <2>1. u \in 0..(n - 1)
    BY <1>0, ModFacts
  <2>2. QED  BY <2>1
<1>12. (u * h) % n = 1
  <2>1. Mul(x % n, h, n) = Mul(x, h, n)
    BY <1>0, MulReduced
  <2>2. x * h = 1 + (0 - y) * n /\ 0 - y \in Int /\ x * h \in Int
    BY <1>2, <1>10
  <2>3. (x * h) % n = 1 % n
    <3>1. \E t \in Int : x * h = 1 + t * n
      BY <2>2
    <3>2. \A a, b, t \in Int : a = b + t * n => a % n = b % n
      BY <1>0, SameResidue
    <3>3. 1 \in Int
      OBVIOUS
    <3>4. QED  BY <2>2, <3>1, <3>2, <3>3
  <2>4. 1 % n = 1
    BY <1>0, SmallResidue
  <2>5. QED  BY <2>1, <2>3, <2>4 DEF Mul
<1>13. u # 0
  <2> SUFFICES ASSUME u = 0 PROVE FALSE
    OBVIOUS
  <2>1. u * h = 0
    BY <1>11
  <2>2. 0 % n = 0
    BY <1>0, SmallResidue
  <2> HIDE DEF u
  <2>3. QED  BY <1>12, <2>1, <2>2
<1> HIDE DEF u
<1>14. u \in 1..n
  BY <1>11, <1>13
<1>15. QED  BY <1>12, <1>14

OnePlus(n, a) == (1 + n * a) % (n * n)

(* Decryption of a power of the form 1 + n h M, with the inverse u of h.   *)
LEMMA Decrypted ==
  ASSUME NEW n \in Nat \ {0, 1}, NEW h \in Nat, NEW u \in Nat, NEW M \in Nat, Mul(u, h, n) = 1
  PROVE  Mul(L(OnePlus(n, h * M), n), u, n) = M % n
<1> DEFINE s == n * n
           a == h * M
           r == a % n
           x == 1 + n * r
<1>1. s \in Nat \ {0} /\ a \in Nat /\ a \in Int /\ n \in Nat \ {0}
  OBVIOUS
<1>2. PICK q \in Int : r = a + q * n
  <2> HIDE DEF a
  <2>1. QED  BY <1>1, ModFacts DEF Cong
<1>3. r \in 0..(n - 1) /\ r \in Nat
  <2> HIDE DEF a
  <2>1. r \in 0..(n - 1)
    BY <1>1, ModFacts
  <2>2. QED  BY <2>1
<1> HIDE DEF a, r
<1>4. x \in 0..(s - 1)
  <2>1. PICK k \in Nat : n - 1 = r + k
    <3>1. (n - 1) - r \in Nat /\ n - 1 = r + ((n - 1) - r)
      BY <1>3
    <3>2. QED  BY <3>1
  <2>2. n * (n - 1) = n * r + n * k /\ n * k \in Nat /\ n * r \in Nat
    BY <1>3, <2>1
  <2>3. n * (n - 1) = s - n
    OBVIOUS
  <2> HIDE DEF s
  <2>4. QED  BY <1>1, <2>2, <2>3
<1>5. 1 + n * a = x + (0 - q) * s /\ 1 + n * a \in Int /\ 0 - q \in Int
  <2>1. n * r = n * a + n * (q * n) /\ n * (q * n) = q * s
    BY <1>1, <1>2, <1>3
  <2>2. n * a \in Int /\ n * r \in Int /\ q * s \in Int
    BY <1>1, <1>3
  <2>3. QED  BY <2>1, <2>2
<1> HIDE DEF s, x
<1>6. (1 + n * a) % s = x
  <2> DEFINE y == 1 + n * a
  <2>0. y \in Int /\ x \in Int /\ y = x + (0 - q) * s /\ 0 - q \in Int
    BY <1>4, <1>5
  <2> HIDE DEF y
  <2>3. y % s = x % s
    BY <1>1, <2>0, SameResidue
  <2>1. (1 + n * a) % s = x % s
    BY <2>3 DEF y
  <2>2. QED  BY <1>1, <1>4, <2>1, SmallResidue
<1>7. L(x, n) = r
  BY <1>3, LOfOnePlus DEF x
<1>8. (r * u) % n = M % n
  <2>1. Mul(r, u, n) = Mul(a, u, n)
    <3>1. a \in Int /\ u \in Int
      BY <1>1
    <3>2. QED  BY <3>1, MulReduced DEF r
  <2>2. a * u = M * (u * h)
    BY DEF a
  <2>3. Mul(M, (u * h) % n, n) = Mul(M, u * h, n)
    <3>1. u * h \in Int /\ M \in Int
      OBVIOUS
    <3>2. QED  BY <1>1, <3>1, MulReduced
  <2>4. M * 1 = M
    OBVIOUS
  <2>5. QED  BY <2>1, <2>2, <2>3, <2>4 DEF Mul
<1>9. QED  BY <1>6, <1>7, <1>8 DEF s, a, Mul, OnePlus

-----------------------------------------------------------------------------
(* The folds of the tally.                                                 *)

FoldOf(n, base, G, f) ==
  f = [P \in SUBSET (1..n) |-> IF P = {} THEN base ELSE G[Max(P)][f[P \ {Max(P)}]]]

(* The function of a fold exists, for a step that is a function of a set.  *)
LEMMA FoldExists ==
  ASSUME NEW S, NEW base \in S, NEW n \in Nat, NEW G, \A i \in 1..n : G[i] \in [S -> S]
  PROVE  \E f \in [SUBSET (1..n) -> S] : FoldOf(n, base, G, f)
<1> DEFINE Known == {k \in Nat : k > n \/ \E f \in [SUBSET (1..k) -> S] : FoldOf(k, base, G, f)}
<1>1. 0 \in Known
  <2> DEFINE f == [P \in SUBSET (1..0) |-> base]
  <2>1. \A P \in SUBSET (1..0) : P = {}
    OBVIOUS
  <2>2. f = [P \in SUBSET (1..0) |-> IF P = {} THEN base ELSE G[Max(P)][f[P \ {Max(P)}]]]
    BY <2>1
  <2>3. f \in [SUBSET (1..0) -> S]
    OBVIOUS
  <2>4. QED  BY <2>2, <2>3 DEF FoldOf
<1>2. ASSUME NEW k \in Nat, k \in Known, k + 1 <= n
      PROVE  \E f \in [SUBSET (1..(k + 1)) -> S] : FoldOf(k + 1, base, G, f)
  <2>1. PICK f \in [SUBSET (1..k) -> S] : FoldOf(k, base, G, f)
    <3>1. ~(k > n)
      BY <1>2
    <3> HIDE DEF FoldOf
    <3>2. QED  BY <1>2, <3>1
  <2> DEFINE c == k + 1
             h == [P \in SUBSET (1..c) |-> IF c \in P THEN G[c][f[P \ {c}]] ELSE f[P]]
  <2>2. c \in 1..n /\ G[c] \in [S -> S]
    BY <1>2
  <2>3. ASSUME NEW P \in SUBSET (1..c) PROVE P \ {c} \in SUBSET (1..k)
    OBVIOUS
  <2>4. h \in [SUBSET (1..c) -> S]
    <3>1. ASSUME NEW P \in SUBSET (1..c)
          PROVE  (IF c \in P THEN G[c][f[P \ {c}]] ELSE f[P]) \in S
      <4>1. f[P \ {c}] \in S
        BY <2>3
      <4>2. c \notin P => P = P \ {c}
        OBVIOUS
      <4> HIDE DEF c
      <4>3. QED  BY <2>2, <4>1, <4>2
    <3> HIDE DEF c
    <3>2. QED  BY <3>1
  <2>5. ASSUME NEW P \in SUBSET (1..c)
        PROVE  h[P] = IF P = {} THEN base ELSE G[Max(P)][h[P \ {Max(P)}]]
    <3>1. CASE c \in P
      <4>1. Max(P) = c
        <5>1. Max(P) \in P /\ c <= Max(P) /\ Max(P) \in 1..c
          <6>1. c \in Nat /\ P \in SUBSET (1..c) /\ P # {}
            BY <3>1
          <6>2. QED  BY <3>1, <6>1, LastPlace
        <5>2. QED  BY <5>1
      <4>2. P \ {c} \in SUBSET (1..c) /\ c \notin P \ {c}
        OBVIOUS
      <4> HIDE DEF c
      <4>3. h[P \ {c}] = f[P \ {c}] /\ h[P] = G[c][f[P \ {c}]]
        BY <3>1, <4>2
      <4>4. QED  BY <3>1, <4>1, <4>3
    <3>2. CASE c \notin P
      <4>1. P \in SUBSET (1..k) /\ h[P] = f[P]
        <5>1. P = P \ {c}
          BY <3>2
        <5>2. QED  BY <2>3, <3>2, <5>1
      <4>2. f[P] = IF P = {} THEN base ELSE G[Max(P)][f[P \ {Max(P)}]]
        BY <2>1, <4>1 DEF FoldOf
      <4>3. P \ {Max(P)} \in SUBSET (1..c) /\ c \notin P \ {Max(P)}
        BY <3>2
      <4> HIDE DEF c
      <4>4. h[P \ {Max(P)}] = f[P \ {Max(P)}]
        BY <4>3
      <4> HIDE DEF h
      <4>5. QED  BY <4>1, <4>2, <4>4
    <3>3. QED  BY <3>1, <3>2
  <2>6. h = [P \in SUBSET (1..c) |-> h[P]]
    OBVIOUS
  <2> HIDE DEF h
  <2>7. FoldOf(c, base, G, h)
    <3> HIDE DEF c
    <3>1. QED  BY <2>5, <2>6 DEF FoldOf
  <2>8. QED  BY <2>4, <2>7
<1>3. ASSUME NEW k \in Nat, k \in Known PROVE k + 1 \in Known
  <2>1. k + 1 \in Nat /\ (k + 1 > n \/ k + 1 <= n)
    OBVIOUS
  <2>2. QED  BY <1>2, <1>3, <2>1
<1>4. \A k \in Nat : k \in Known
  <2> HIDE DEF Known
  <2>1. QED  BY <1>1, <1>3, FromZero
<1>5. ~(n > n)
  OBVIOUS
<1>6. n \in Known
  <2> HIDE DEF Known
  <2>1. QED  BY <1>4
<1>7. QED  BY <1>5, <1>6

ProductFold(s, base, m, f) ==
  f = [P \in SUBSET DOMAIN s |->
         IF P = {} THEN base ELSE Mul(f[P \ {Max(P)}], s[Max(P)], m)]
SumFold(s, k, f) ==
  f = [P \in SUBSET DOMAIN s |->
         IF P = {} THEN 0 ELSE f[P \ {Max(P)}] + Decrypt(k, s[Max(P)].text)]

(* The product of numbers modulo m, number by number.                      *)
LEMMA ProductUnfolds ==
  ASSUME NEW m \in Nat \ {0}, NEW s \in Seq(Nat), NEW base \in Nat
  PROVE  \E F : /\ (CHOOSE f : ProductFold(s, base, m, f)) = F
                /\ F[{}] = base
                /\ \A k \in 0..Len(s) : F[1..k] \in Nat
                /\ \A k \in 0..(Len(s) - 1) : F[1..(k + 1)] = Mul(F[1..k], s[k + 1], m)
<1> DEFINE n == Len(s)
           G == [i \in 1..n |-> [a \in Nat |-> Mul(a, s[i], m)]]
<1>1. n \in Nat /\ DOMAIN s = 1..n /\ \A i \in 1..n : s[i] \in Nat
  OBVIOUS
<1> HIDE DEF n
<1>2. \A i \in 1..n : G[i] \in [Nat -> Nat]
  <2>1. ASSUME NEW i \in 1..n, NEW a \in Nat PROVE Mul(a, s[i], m) \in Nat
    <3>1. a \in Int /\ s[i] \in Int
      BY <1>1
    <3>2. QED  BY <3>1, MulRange
  <2>2. QED  BY <2>1
<1>3. PICK g \in [SUBSET (1..n) -> Nat] : FoldOf(n, base, G, g)
  <2> HIDE DEF G
  <2>1. QED  BY <1>1, <1>2, FoldExists
<1>4. ASSUME NEW P \in SUBSET (1..n), P # {}
      PROVE  /\ Max(P) \in 1..n /\ P \ {Max(P)} \in SUBSET (1..n)
             /\ g[P] = Mul(g[P \ {Max(P)}], s[Max(P)], m)
  <2>1. Max(P) \in 1..n
    BY <1>1, <1>4, LastPlace
  <2>2. P \ {Max(P)} \in SUBSET (1..n)
    OBVIOUS
  <2>3. g[P \ {Max(P)}] \in Nat
    BY <2>2
  <2>4. g[P] = G[Max(P)][g[P \ {Max(P)}]]
    <3> HIDE DEF G
    <3>1. QED  BY <1>3, <1>4 DEF FoldOf
  <2>5. QED  BY <2>1, <2>2, <2>3, <2>4
<1>5. g[{}] = base
  <2> HIDE DEF G
  <2>1. QED  BY <1>3 DEF FoldOf
<1> HIDE DEF G
<1>6. ProductFold(s, base, m, g)
  <2>1. g = [P \in SUBSET (1..n) |-> g[P]]
    OBVIOUS
  <2>2. \A P \in SUBSET (1..n) :
          g[P] = IF P = {} THEN base ELSE Mul(g[P \ {Max(P)}], s[Max(P)], m)
    BY <1>4, <1>5
  <2>3. QED  BY <1>1, <2>1, <2>2 DEF ProductFold
<1> DEFINE F == CHOOSE f : ProductFold(s, base, m, f)
<1>7. ProductFold(s, base, m, F)
  BY <1>6
<1> HIDE DEF F
<1>8. F[{}] = base
  BY <1>7 DEF ProductFold
<1>9. ASSUME NEW k \in 0..(n - 1)
      PROVE  F[1..(k + 1)] = Mul(F[1..k], s[k + 1], m) /\ s[k + 1] \in Nat
  <2>1. k \in Nat /\ k + 1 \in 1..n /\ 1..(k + 1) \in SUBSET (1..n)
    BY <1>1
  <2>2. Max(1..(k + 1)) = k + 1 /\ (1..(k + 1)) \ {k + 1} = 1..k /\ 1..(k + 1) # {}
    BY <2>1, LastOfFirst
  <2>3. QED  BY <1>1, <1>7, <2>1, <2>2 DEF ProductFold
<1>10. \A k \in 0..n : F[1..k] \in Nat
  <2> DEFINE T == {k \in Nat : k > n \/ F[1..k] \in Nat}
  <2>1. 0 \in T
    <3>1. 1..0 = {}
      OBVIOUS
    <3>2. QED  BY <1>8, <3>1
  <2>2. ASSUME NEW k \in Nat, k \in T PROVE k + 1 \in T
    <3>1. CASE k + 1 > n
      BY <3>1
    <3>2. CASE k + 1 <= n
      <4>1. k \in 0..(n - 1) /\ F[1..k] \in Nat
        BY <1>1, <2>2, <3>2
      <4>2. Mul(F[1..k], s[k + 1], m) \in Nat
        <5>1. F[1..k] \in Int /\ s[k + 1] \in Int
          BY <1>9, <4>1
        <5>2. QED  BY <5>1, MulRange
      <4>3. QED  BY <1>9, <4>1, <4>2
    <3>3. QED  BY <1>1, <3>1, <3>2
  <2>3. \A k \in Nat : k \in T
    <3> HIDE DEF T
    <3>1. QED  BY <2>1, <2>2, FromZero
  <2>4. QED  BY <1>1, <2>3
<1>11. /\ F[{}] = base /\ \A k \in 0..n : F[1..k] \in Nat
       /\ \A k \in 0..(n - 1) : F[1..(k + 1)] = Mul(F[1..k], s[k + 1], m)
  BY <1>8, <1>9, <1>10
<1>12. QED  BY <1>11 DEF F, n

(* The sum of what the votes decrypt to, vote by vote.                     *)
LEMMA SumUnfolds ==
  ASSUME NEW k, NEW T, NEW s \in Seq(T), \A w \in T : Decrypt(k, w.text) \in Nat
  PROVE  \E F : /\ (CHOOSE f : SumFold(s, k, f)) = F
                /\ F[{}] = 0
                /\ \A j \in 0..Len(s) : F[1..j] \in Nat
                /\ \A j \in 0..(Len(s) - 1) : F[1..(j + 1)] = F[1..j] + Decrypt(k, s[j + 1].text)
<1> DEFINE n == Len(s)
           G == [i \in 1..n |-> [a \in Nat |-> a + Decrypt(k, s[i].text)]]
<1>1. n \in Nat /\ DOMAIN s = 1..n /\ \A i \in 1..n : Decrypt(k, s[i].text) \in Nat
  <2>1. n \in Nat /\ DOMAIN s = 1..n /\ \A i \in 1..n : s[i] \in T
    OBVIOUS
  <2>2. QED  BY <2>1
<1> HIDE DEF n
<1>2. \A i \in 1..n : G[i] \in [Nat -> Nat]
  <2>1. \A i \in 1..n : \A a \in Nat : a + Decrypt(k, s[i].text) \in Nat
    BY <1>1
  <2>2. QED  BY <2>1
<1>3. PICK g \in [SUBSET (1..n) -> Nat] : FoldOf(n, 0, G, g)
  <2> HIDE DEF G
  <2>1. 0 \in Nat
    OBVIOUS
  <2>2. QED  BY <1>1, <1>2, <2>1, FoldExists
<1>4. ASSUME NEW P \in SUBSET (1..n), P # {}
      PROVE  /\ Max(P) \in 1..n /\ P \ {Max(P)} \in SUBSET (1..n)
             /\ g[P] = g[P \ {Max(P)}] + Decrypt(k, s[Max(P)].text)
  <2>1. Max(P) \in 1..n
    BY <1>1, <1>4, LastPlace
  <2>2. P \ {Max(P)} \in SUBSET (1..n)
    OBVIOUS
  <2>3. g[P \ {Max(P)}] \in Nat
    BY <2>2
  <2>4. g[P] = G[Max(P)][g[P \ {Max(P)}]]
    <3> HIDE DEF G
    <3>1. QED  BY <1>3, <1>4 DEF FoldOf
  <2>5. QED  BY <2>1, <2>2, <2>3, <2>4
<1>5. g[{}] = 0
  <2> HIDE DEF G
  <2>1. QED  BY <1>3 DEF FoldOf
<1> HIDE DEF G
<1>6. SumFold(s, k, g)
  <2>1. g = [P \in SUBSET (1..n) |-> g[P]]
    OBVIOUS
  <2>2. \A P \in SUBSET (1..n) :
          g[P] = IF P = {} THEN 0 ELSE g[P \ {Max(P)}] + Decrypt(k, s[Max(P)].text)
    BY <1>4, <1>5
  <2>3. QED  BY <1>1, <2>1, <2>2 DEF SumFold
<1> DEFINE F == CHOOSE f : SumFold(s, k, f)
<1>7. SumFold(s, k, F)
  BY <1>6
<1> HIDE DEF F
<1>8. F[{}] = 0
  BY <1>7 DEF SumFold
<1>9. ASSUME NEW j \in 0..(n - 1)
      PROVE  F[1..(j + 1)] = F[1..j] + Decrypt(k, s[j + 1].text) /\ Decrypt(k, s[j + 1].text) \in Nat
  <2>1. j \in Nat /\ j + 1 \in 1..n /\ 1..(j + 1) \in SUBSET (1..n)
    BY <1>1
  <2>2. Max(1..(j + 1)) = j + 1 /\ (1..(j + 1)) \ {j + 1} = 1..j /\ 1..(j + 1) # {}
    BY <2>1, LastOfFirst
  <2>3. QED  BY <1>1, <1>7, <2>1, <2>2 DEF SumFold
<1>10. \A j \in 0..n : F[1..j] \in Nat
  <2> DEFINE U == {j \in Nat : j > n \/ F[1..j] \in Nat}
  <2>1. 0 \in U
    <3>1. 1..0 = {}
      OBVIOUS
    <3>2. QED  BY <1>8, <3>1
  <2>2. ASSUME NEW j \in Nat, j \in U PROVE j + 1 \in U
    <3>1. CASE j + 1 > n
      BY <3>1
    <3>2. CASE j + 1 <= n
      <4>1. j \in 0..(n - 1) /\ F[1..j] \in Nat
        BY <1>1, <2>2, <3>2
      <4>2. F[1..j] + Decrypt(k, s[j + 1].text) \in Nat
        BY <1>9, <4>1
      <4>3. QED  BY <1>9, <4>1, <4>2
    <3>3. QED  BY <1>1, <3>1, <3>2
  <2>3. \A j \in Nat : j \in U
    <3> HIDE DEF U
    <3>1. QED  BY <2>1, <2>2, FromZero
  <2>4. QED  BY <1>1, <2>3
<1>11. /\ F[{}] = 0 /\ \A j \in 0..n : F[1..j] \in Nat
       /\ \A j \in 0..(n - 1) : F[1..(j + 1)] = F[1..j] + Decrypt(k, s[j + 1].text)
  BY <1>8, <1>9, <1>10
<1>12. QED  BY <1>11 DEF F, n

-----------------------------------------------------------------------------
(* The election's keys.                                                    *)

(* lambda is a number.                                                     *)
LEMMA LambdaIsNat ==
  ASSUME NEW k \in DOMAIN Primes
  PROVE  Lambda(k) \in Nat
<1> DEFINE p == Primes[k].p - 1
           q == Primes[k].q - 1
           S == {l \in 1..(p * q) : Divides(p, l) /\ Divides(q, l)}
<1>1. p \in Nat \ {0} /\ q \in Nat \ {0}
  <2> DEFINE T == [p : Nat \ {0, 1}, q : Nat \ {0, 1}, g : Nat]
  <2>0. Primes \in Seq(T)
    BY RingAssumption
  <2> HIDE DEF T
  <2>3. Primes[k] \in T
    BY <2>0
  <2>1. Primes[k] \in [p : Nat \ {0, 1}, q : Nat \ {0, 1}, g : Nat]
    BY <2>3 DEF T
  <2>2. Primes[k].p \in Nat \ {0, 1} /\ Primes[k].q \in Nat \ {0, 1}
    BY <2>1
  <2>4. QED  BY <2>2
<1>2. Lambda(k) = Min(S)
  BY DEF Lambda
<1> HIDE DEF p, q
<1>3. p * q \in S
  <2>1. p * q \in Nat \ {0} /\ p * q \in Int
    BY <1>1, TimesSign
  <2>2. (p * q) % p = 0 /\ (p * q) % q = 0
    <3>1. ASSUME NEW a \in Nat \ {0}, NEW b \in Nat \ {0} PROVE (b * a) % a = 0
      <4>1. b * a = 0 + b * a /\ 0 \in Int /\ b * a \in Int /\ b \in Int /\ 0 \in 0..(a - 1)
        OBVIOUS
      <4>2. (b * a) % a = 0 % a
        BY <4>1, SameResidue
      <4>3. 0 % a = 0
        BY <4>1, SmallResidue
      <4>4. QED  BY <4>2, <4>3
    <3>2. p * q = q * p
      BY <1>1
    <3>3. QED  BY <1>1, <3>1, <3>2
  <2>3. p * q \in 1..(p * q)
    BY <2>1
  <2>4. QED  BY <2>2, <2>3 DEF Divides
<1>4. S \in SUBSET Nat /\ S # {}
  BY <1>3
<1> HIDE DEF S
<1>5. PICK x \in S : \A y \in S : x <= y
  BY <1>4, LeastIn
<1>6. Min(S) \in S
  <2>1. \E z \in S : \A y \in S : z =< y
    BY <1>5
  <2>2. QED  BY <2>1 DEF Min
<1>7. QED  BY <1>2, <1>4, <1>6

(* n, its square, and the generator.                                       *)
LEMMA KeyNumbers ==
  ASSUME NEW k \in DOMAIN Primes
  PROVE  /\ N(k) \in Nat \ {0, 1} /\ N(k) \in Nat \ {0} /\ NSquared(k) \in Nat \ {0}
         /\ NSquared(k) = N(k) * N(k) /\ Primes[k].g \in Nat
<1>1. Primes[k] \in [p : Nat \ {0, 1}, q : Nat \ {0, 1}, g : Nat]
  <2> DEFINE T == [p : Nat \ {0, 1}, q : Nat \ {0, 1}, g : Nat]
  <2>1. Primes \in Seq(T)
    BY RingAssumption
  <2> HIDE DEF T
  <2>2. Primes[k] \in T
    BY <2>1
  <2>3. QED  BY <2>2 DEF T
<1> DEFINE p == Primes[k].p
           q == Primes[k].q
<1>2. p \in Nat \ {0, 1} /\ q \in Nat \ {0, 1} /\ Primes[k].g \in Nat /\ N(k) = p * q
  BY <1>1 DEF N
<1> HIDE DEF p, q
<1>3. p * q \in Nat /\ p * q >= p
  BY <1>2, TimesSign
<1> DEFINE n == N(k)
<1>4. n \in Nat \ {0, 1}
  BY <1>2, <1>3
<1>5. NSquared(k) = n * n
  BY DEF NSquared
<1> HIDE DEF n
<1>6. n * n \in Nat \ {0}
  BY <1>4
<1>7. QED  BY <1>2, <1>4, <1>5, <1>6 DEF n

(* The power lambda of an encryption of a vote, with units.                *)
LEMMA BallotPower ==
  ASSUME NEW k \in DOMAIN Primes, NEW m \in Nat, NEW r \in Rands,
         Unit(k, Primes[k].g), Unit(k, r)
  PROVE  /\ Helper(k) \in Nat
         /\ Pow(Encrypt(k, m, r), Lambda(k), NSquared(k)) =
              (1 + N(k) * (Helper(k) * m)) % NSquared(k)
<1> DEFINE n == N(k)
           s == n * n
           l == Lambda(k)
           g == Primes[k].g
           h == Helper(k)
           P(x, e) == Pow(x, e, s)
<1>1. /\ n \in Nat \ {0, 1} /\ n \in Nat \ {0} /\ s \in Nat \ {0} /\ NSquared(k) = s
      /\ g \in Nat /\ l \in Nat /\ r \in Nat
  BY KeyNumbers, LambdaIsNat, RingAssumption
<1>2. Pow(g, l, n) = 1 /\ Pow(r, l, n) = 1
  BY UnitsAssumption
<1>3. h = L(Pow(g, l, s), n)
  BY <1>1 DEF Helper
<1>4. Encrypt(k, m, r) = Mul(Pow(g, m, s), Pow(r, n, s), s)
  BY <1>1 DEF Encrypt, Mul
<1> HIDE DEF n, l, g, h
<1>5. h \in Nat /\ Pow(g, l, s) = (1 + n * h) % s
  BY <1>1, <1>2, <1>3, PowOfOrder
<1> DEFINE t == L(Pow(r, l, s), n)
<1>6. t \in Nat /\ Pow(r, l, s) = (1 + n * t) % s
  BY <1>1, <1>2, PowOfOrder
<1> HIDE DEF t
<1>7. Pow(Pow(g, m, s), l, s) = (1 + n * (h * m)) % s
  <2>1. Pow(Pow(g, m, s), l, s) = Pow(Pow(g, l, s), m, s)
    <3> HIDE DEF s
    <3>1. QED  BY <1>1, PowSwap
  <2>2. Pow((1 + n * h) % s, m, s) = (1 + n * (h * m)) % s
    BY <1>1, <1>5, PowOnePlus
  <2>3. QED  BY <1>5, <2>1, <2>2
<1>8. Pow(Pow(r, n, s), l, s) = (1 + n * 0) % s
  <2>1. Pow(Pow(r, n, s), l, s) = Pow(Pow(r, l, s), n, s)
    <3> HIDE DEF s
    <3>1. QED  BY <1>1, PowSwap
  <2>2. Pow((1 + n * t) % s, n, s) = (1 + n * (t * n)) % s
    BY <1>1, <1>6, PowOnePlus
  <2>3. (1 + n * (t * n)) % s = (1 + n * 0) % s
    <3>1. 1 + n * (t * n) = (1 + n * 0) + t * s /\ 1 + n * (t * n) \in Int /\ 1 + n * 0 \in Int
          /\ t \in Int
      BY <1>1, <1>6
    <3> DEFINE a == 1 + n * (t * n)
               b == 1 + n * 0
    <3>2. a = b + t * s /\ a \in Int /\ b \in Int /\ t \in Int
      BY <3>1
    <3> HIDE DEF a, b, s
    <3>4. a % s = b % s
      BY <1>1, <3>2, SameResidue
    <3>5. QED  BY <3>4 DEF a, b
  <2>4. QED  BY <1>6, <2>1, <2>2, <2>3
<1>9. Pow(Encrypt(k, m, r), l, s) = Mul((1 + n * (h * m)) % s, (1 + n * 0) % s, s)
  <2> HIDE DEF s
  <2>1. Pow(g, m, s) \in Nat /\ Pow(r, n, s) \in Nat
    BY <1>1, PowRange
  <2>2. Pow(Encrypt(k, m, r), l, s) =
          Mul(Pow(Pow(g, m, s), l, s), Pow(Pow(r, n, s), l, s), s)
    BY <1>1, <1>4, <2>1, PowProduct
  <2>3. QED  BY <1>7, <1>8, <2>2
<1>10. Mul((1 + n * (h * m)) % s, (1 + n * 0) % s, s) = (1 + n * (h * m)) % s
  <2>1. h * m \in Nat /\ 0 \in Nat /\ h * m + 0 = h * m
    BY <1>5
  <2> DEFINE a == h * m
  <2> HIDE DEF a
  <2>2. a \in Nat /\ 0 \in Nat /\ a + 0 = a
    BY <2>1 DEF a
  <2>3. Mul((1 + n * a) % s, (1 + n * 0) % s, s) = (1 + n * (a + 0)) % s
    BY <1>1, <2>2, OnePlusProduct
  <2>4. QED  BY <2>2, <2>3 DEF a
<1>11. Pow(Encrypt(k, m, r), l, s) = (1 + n * (h * m)) % s
  BY <1>9, <1>10
<1> HIDE DEF s
<1>12. QED  BY <1>1, <1>5, <1>11 DEF n, h, l

(* L of a number is one.                                                   *)
LEMMA LIsNat ==
  ASSUME NEW n \in Nat \ {0}, NEW u \in Nat
  PROVE  L(u, n) \in Nat
<1>1. CASE u = 0
  BY <1>1 DEF L
<1>2. CASE u # 0
  <2> DEFINE v == u - 1
             q == v \div n
             r == v % n
  <2>1. v \in Nat /\ v \in Int
    BY <1>2
  <2> HIDE DEF v
  <2>2. q \in Int /\ r \in 0..(n - 1) /\ v = n * q + r
    BY <2>1, ModFacts
  <2> HIDE DEF q, r
  <2>3. q \in Nat
    <3>1. CASE q <= -1
      <4>1. n * q <= 0 - n /\ n * q \in Int
        BY <2>2, <3>1, TimesSign
      <4>2. QED  BY <2>1, <2>2, <4>1
    <3>2. QED  BY <2>2, <3>1
  <2>4. L(u, n) = q
    BY <1>2 DEF L, q, v
  <2>5. QED  BY <2>3, <2>4
<1>3. QED  BY <1>1, <1>2

(* Sums of numbers that differ by multiples of m do.                       *)
LEMMA CongSum ==
  ASSUME NEW m \in Nat \ {0}, NEW a \in Int, NEW b \in Int, NEW c \in Int, NEW d \in Int,
         Cong(a, c, m), Cong(b, d, m)
  PROVE  Cong(a + b, c + d, m)
<1>1. PICK q \in Int : a = c + q * m
  BY DEF Cong
<1>2. PICK r \in Int : b = d + r * m
  BY DEF Cong
<1> DEFINE v == q * m
           w == r * m
           z == q + r
<1>3. z * m = v + w /\ v \in Int /\ w \in Int /\ z \in Int
  OBVIOUS
<1>4. a = c + v /\ b = d + w
  BY <1>1, <1>2
<1> HIDE DEF v, w, z
<1>5. a + b = (c + d) + z * m
  <2>1. a + b = (c + d) + (v + w)
    BY <1>3, <1>4
  <2>2. QED  BY <1>3, <2>1
<1>6. QED  BY <1>3, <1>5 DEF Cong

(* Numbers that differ by a multiple of m have one residue, and a residue  *)
(* differs from its number by one.                                         *)
LEMMA CongResidue ==
  ASSUME NEW m \in Nat \ {0}, NEW a \in Int, NEW b \in Int
  PROVE  /\ Cong(a, b, m) => a % m = b % m
         /\ Cong(a, a % m, m)
<1>1. ASSUME Cong(a, b, m) PROVE a % m = b % m
  <2>1. PICK t \in Int : a = b + t * m
    BY <1>1 DEF Cong
  <2>2. QED  BY <2>1, SameResidue
<1>2. Cong(a, a % m, m)
  <2> DEFINE r == a % m
  <2>1. r \in 0..(m - 1) /\ Cong(r, a, m)
    BY ModFacts
  <2> HIDE DEF r
  <2>2. PICK t \in Int : r = a + t * m
    BY <2>1 DEF Cong
  <2>3. (0 - t) * m = 0 - t * m /\ t * m \in Int /\ 0 - t \in Int
    OBVIOUS
  <2>4. a = r + (0 - t) * m
    BY <2>1, <2>2, <2>3
  <2>5. Cong(a, r, m)
    BY <2>3, <2>4 DEF Cong
  <2>6. QED  BY <2>5 DEF r
<1>3. QED  BY <1>1, <1>2

(* The key's helper and its inverse.                                       *)
LEMMA KeyDenominator ==
  ASSUME NEW k \in DOMAIN Primes
  PROVE  /\ Helper(k) \in Nat /\ Denominator(k) \in Nat
         /\ Mul(Denominator(k), Helper(k), N(k)) = 1
<1> DEFINE n == N(k)
           s == NSquared(k)
           x == Pow(Primes[k].g, Lambda(k), s)
           h == Helper(k)
<1>1. n \in Nat \ {0, 1} /\ n \in Nat \ {0} /\ s \in Nat \ {0} /\ Primes[k].g \in Nat
      /\ Lambda(k) \in Nat
  BY KeyNumbers, LambdaIsNat
<1> HIDE DEF s
<1>2. x \in Nat
  BY <1>1, PowRange
<1>3. h = L(x, n)
  BY DEF Helper, s
<1> HIDE DEF x, n
<1>4. h \in Nat
  BY <1>1, <1>2, <1>3, LIsNat
<1>5. Gcd(h, n) = 1
  BY KeysAssumption DEF n
<1> HIDE DEF h
<1>6. \E u \in 1..n : (u * h) % n = 1
  BY <1>1, <1>4, <1>5, DenominatorExists
<1>7. Denominator(k) \in 1..n /\ (Denominator(k) * h) % n = 1
  BY <1>6 DEF Denominator, h, n
<1>8. QED  BY <1>1, <1>4, <1>7 DEF Mul, h, n

(* What a number decrypts to whose power lambda is 1 + n X.                *)
LEMMA PowerOpens ==
  ASSUME NEW k \in DOMAIN Primes, NEW c \in Nat, NEW X \in Nat,
         Pow(c, Lambda(k), NSquared(k)) = OnePlus(N(k), X)
  PROVE  Decrypt(k, c) = Mul(X, Denominator(k), N(k))
<1> DEFINE n == N(k)
           u == Denominator(k)
           y == OnePlus(n, X)
           z == L(y, n)
<1>1. n \in Nat \ {0, 1} /\ n \in Nat \ {0} /\ u \in Nat /\ u \in Int /\ X \in Int
  BY KeyNumbers, KeyDenominator
<1>2. Decrypt(k, c) = Mul(z, u, n)
  BY DEF Decrypt, Mul
<1> HIDE DEF n, u
<1>3. y \in Nat
  <2> DEFINE a == 1 + n * X
             s == n * n
  <2>1. a \in Int /\ s \in Nat \ {0}
    BY <1>1
  <2>2. y = a % s
    BY DEF OnePlus
  <2> HIDE DEF a, s
  <2>3. a % s \in 0..(s - 1)
    BY <2>1, ModFacts
  <2>4. QED  BY <2>1, <2>2, <2>3
<1> HIDE DEF y
<1>4. z \in Nat /\ z \in Int
  BY <1>1, <1>3, LIsNat
<1>5. z % n = X % n
  <2>1. 1 * X = X /\ 1 \in Nat /\ Mul(1, 1, n) = 1
    <3>1. 1 \in 0..(n - 1) /\ 1 * 1 = 1 /\ 1 * X = X
      BY <1>1
    <3>2. 1 % n = 1
      BY <1>1, <3>1, SmallResidue
    <3>3. QED  BY <3>1, <3>2 DEF Mul
  <2>2. Mul(L(OnePlus(n, 1 * X), n), 1, n) = X % n
    BY <1>1, <2>1, Decrypted
  <2>3. z * 1 = z
    BY <1>4
  <2>4. QED  BY <2>1, <2>2, <2>3 DEF Mul, y
<1> HIDE DEF z
<1>6. Mul(z % n, u, n) = Mul(z, u, n) /\ Mul(X % n, u, n) = Mul(X, u, n)
  BY <1>1, <1>4, MulReduced
<1>7. QED  BY <1>2, <1>5, <1>6 DEF n, u

(* An encryption with units decrypts to what was encrypted.                *)
LEMMA CiphersOpened ==
  ASSUME VotesAreNumbers
  PROVE  CiphersOpen
<1> SUFFICES ASSUME key # 0, Unit(key, Primes[key].g), NEW m \in Votes, NEW r \in Rands,
                    Unit(key, r)
             PROVE  Decrypt(key, Encrypt(key, m, r)) = m % N(key)
  BY DEF CiphersOpen
<1> DEFINE n == N(key)
           h == Helper(key)
           u == Denominator(key)
           c == Encrypt(key, m, r)
<1>1. key \in DOMAIN Primes /\ m \in Nat
  BY RingAssumption DEF VotesAreNumbers
<1>2. n \in Nat \ {0, 1} /\ NSquared(key) = n * n /\ h \in Nat /\ u \in Nat /\ Mul(u, h, n) = 1
  BY <1>1, KeyNumbers, KeyDenominator
<1>3. Pow(c, Lambda(key), NSquared(key)) = OnePlus(n, h * m)
  <2>1. Pow(c, Lambda(key), NSquared(key)) = (1 + n * (h * m)) % NSquared(key)
    BY <1>1, BallotPower
  <2>2. QED  BY <1>2, <2>1 DEF OnePlus
<1>4. Decrypt(key, c) = Mul(L(OnePlus(n, h * m), n), u, n)
  BY <1>3 DEF Decrypt, Mul
<1> HIDE DEF n, h, u, c
<1>5. Mul(L(OnePlus(n, h * m), n), u, n) = m % n
  BY <1>1, <1>2, Decrypted
<1>6. QED  BY <1>4, <1>5 DEF n, c

(* The product of a file's votes decrypts to the sum of what they decrypt  *)
(* to: the powers lambda of the votes are of the form 1 + n X, and the X   *)
(* of a product is the sum of the X of its factors.                        *)
LEMMA ProductDecrypts ==
  ASSUME key \in DOMAIN Primes, lines \in Seq([text : Votes, keys : Seq(RingKeys)]),
         lines # << >>, \A i \in DOMAIN lines : Unit(key, lines[i].text)
  PROVE  Decrypt(key, Product) =
           FoldLeft(LAMBDA s, l : s + Decrypt(key, l.text), 0, lines) % N(key)
<1> DEFINE n == N(key)
           s == n * n
           l == Lambda(key)
           u == Denominator(key)
           len == Len(lines)
           texts == [i \in 1..(len - 1) |-> lines[i + 1].text]
           first == lines[1].text
           Opens(c, X) == Pow(c, l, s) = OnePlus(n, X)
<1>1. /\ n \in Nat \ {0, 1} /\ n \in Nat \ {0} /\ s \in Nat \ {0} /\ NSquared(key) = s
      /\ l \in Nat /\ u \in Nat
  BY KeyNumbers, LambdaIsNat, KeyDenominator
<1>2. len \in Nat \ {0} /\ DOMAIN lines = 1..len /\ \A i \in 1..len : lines[i].text \in Votes
  <2> DEFINE T == [text : Votes, keys : Seq(RingKeys)]
  <2>1. lines \in Seq(T) /\ \A w \in T : w.text \in Votes
    OBVIOUS
  <2> HIDE DEF T
  <2>2. QED  BY <2>1
<1> HIDE DEF len
<1>3. ASSUME NEW i \in 1..len
      PROVE  /\ lines[i].text \in Nat
             /\ \E X \in Nat : Opens(lines[i].text, X)
  <2> DEFINE t == lines[i].text
             X == L(Pow(t, l, s), n)
  <2>1. t \in Votes /\ t \in Nat /\ Pow(t, l, n) = 1
    BY <1>2, UnitsAssumption, RingAssumption
  <2> HIDE DEF t, l, n
  <2>2. X \in Nat /\ Pow(t, l, s) = OnePlus(n, X)
    BY <1>1, <2>1, PowOfOrder DEF OnePlus
  <2>3. QED  BY <2>1, <2>2 DEF t
<1>4. \A c, X \in Nat : Opens(c, X) => Decrypt(key, c) = Mul(X, u, n)
  BY <1>1, PowerOpens
<1>5. first \in Nat /\ \A i \in 1..len : lines[i].text \in Nat
  <2>1. \A i \in 1..len : lines[i].text \in Nat
    BY <1>3
  <2>2. 1 \in 1..len
    BY <1>2
  <2>3. QED  BY <2>1, <2>2
<1>6. ASSUME NEW i \in 1..len PROVE Decrypt(key, lines[i].text) \in Nat
  <2>1. PICK X \in Nat : Opens(lines[i].text, X)
    BY <1>3
  <2>2. Decrypt(key, lines[i].text) = Mul(X, u, n)
    BY <1>3, <1>4, <2>1
  <2> HIDE DEF u, n
  <2>3. X \in Int /\ u \in Int
    BY <1>1
  <2>4. QED  BY <1>1, <2>2, <2>3, MulRange
<1>7. /\ texts \in Seq(Nat) /\ Len(texts) = len - 1
      /\ \A i \in 1..(len - 1) : texts[i] = lines[i + 1].text
  <2>1. len - 1 \in Nat /\ \A i \in 1..(len - 1) : i + 1 \in 1..len
    BY <1>2
  <2>2. \A i \in 1..(len - 1) : lines[i + 1].text \in Nat
    BY <1>5, <2>1
  <2>3. texts \in [1..(len - 1) -> Nat] /\ \A i \in 1..(len - 1) : texts[i] = lines[i + 1].text
    BY <2>2
  <2> HIDE DEF texts
  <2>4. QED  BY <2>1, <2>3
<1>8. PICK F : /\ (CHOOSE f : ProductFold(texts, first, s, f)) = F
               /\ F[{}] = first
               /\ \A i \in 0..(len - 1) : F[1..i] \in Nat
               /\ \A i \in 0..(len - 1 - 1) : F[1..(i + 1)] = Mul(F[1..i], texts[i + 1], s)
  <2> HIDE DEF s, texts, first
  <2>1. \E F : /\ (CHOOSE f : ProductFold(texts, first, s, f)) = F
               /\ F[{}] = first
               /\ \A i \in 0..Len(texts) : F[1..i] \in Nat
               /\ \A i \in 0..(Len(texts) - 1) : F[1..(i + 1)] = Mul(F[1..i], texts[i + 1], s)
    BY <1>1, <1>5, <1>7, ProductUnfolds
  <2>2. QED  BY <1>7, <2>1
<1>9. PICK H : /\ (CHOOSE f : SumFold(lines, key, f)) = H
               /\ H[{}] = 0
               /\ \A i \in 0..len : H[1..i] \in Nat
               /\ \A i \in 0..(len - 1) :
                    H[1..(i + 1)] = H[1..i] + Decrypt(key, lines[i + 1].text)
  <2> DEFINE R == [text : Votes, keys : Seq(RingKeys)]
             T == {w \in R : Decrypt(key, w.text) \in Nat}
  <2>1. \A w \in T : Decrypt(key, w.text) \in Nat
    OBVIOUS
  <2>2. \A i \in 1..Len(lines) : lines[i] \in R /\ Decrypt(key, lines[i].text) \in Nat
    <3> HIDE DEF R
    <3>1. lines \in Seq(R)
      BY DEF R
    <3>2. QED  BY <1>6, <3>1 DEF len
  <2>3. lines \in Seq(R) /\ \A i \in 1..Len(lines) : lines[i] \in T
    BY <2>2
  <2> HIDE DEF R, T
  <2>4. lines \in Seq(T)
    BY <2>3
  <2>5. QED  BY <2>1, <2>4, SumUnfolds DEF len
<1>10. Product = F[1..(len - 1)]
  <2>1. Product = (CHOOSE f : ProductFold(texts, first, s, f))[DOMAIN texts]
    BY <1>1 DEF Product, FoldLeft, MapThenFoldSet, ProductFold, HomomorphicAdd, Mul, len
  <2>2. DOMAIN texts = 1..(len - 1)
    OBVIOUS
  <2>3. QED  BY <1>8, <2>1, <2>2
<1>11. FoldLeft(LAMBDA x, w : x + Decrypt(key, w.text), 0, lines) = H[1..len]
  <2>1. FoldLeft(LAMBDA x, w : x + Decrypt(key, w.text), 0, lines) =
          (CHOOSE f : SumFold(lines, key, f))[DOMAIN lines]
    BY DEF FoldLeft, MapThenFoldSet, SumFold
  <2>2. QED  BY <1>2, <1>9, <2>1
<1>12. ASSUME NEW c \in Nat, NEW d \in Nat, NEW X \in Nat, NEW Y \in Nat,
              Opens(c, X), Opens(d, Y)
       PROVE  Opens(Mul(c, d, s), X + Y)
  <2>1. Pow(Mul(c, d, s), l, s) = Mul(OnePlus(n, X), OnePlus(n, Y), s)
    <3> HIDE DEF s
    <3>1. QED  BY <1>1, <1>12, PowProduct
  <2>2. Mul(OnePlus(n, X), OnePlus(n, Y), s) = OnePlus(n, X + Y)
    <3> HIDE DEF n
    <3>1. QED  BY <1>1, OnePlusProduct DEF OnePlus
  <2>3. QED  BY <2>1, <2>2
<1>13. ASSUME NEW X \in Nat, NEW Y \in Nat, NEW a \in Nat, NEW b \in Nat,
              Cong(X * u, a, n), Mul(Y, u, n) = b
       PROVE  Cong((X + Y) * u, a + b, n)
  <2> HIDE DEF n, u
  <2>1. (X + Y) * u = X * u + Y * u /\ X * u \in Int /\ Y * u \in Int
    BY <1>1
  <2> DEFINE v == X * u
             w == Y * u
  <2>2. v \in Int /\ w \in Int /\ (X + Y) * u = v + w /\ b = w % n /\ Cong(v, a, n)
    BY <1>13, <2>1 DEF Mul
  <2> HIDE DEF v, w
  <2>3. Cong(w, b, n)
    BY <1>1, <2>2, CongResidue
  <2>4. a \in Int /\ b \in Int
    OBVIOUS
  <2>5. Cong(v + w, a + b, n)
    BY <1>1, <2>2, <2>3, <2>4, CongSum
  <2>6. QED  BY <2>2, <2>5
<1> HIDE DEF s, Opens, texts, first, l, n, u
<1> DEFINE T == {i \in Nat : \/ i > len - 1
                             \/ \E X \in Nat : Opens(F[1..i], X)
                                               /\ Cong(X * u, H[1..(i + 1)], n)}
<1>14. 0 \in T
  <2>1. 1..0 = {} /\ 1 \in 1..len /\ 0 \in 0..(len - 1) /\ 0 + 1 = 1 /\ 1 \in 0..len
    BY <1>2
  <2>2. PICK X \in Nat : Opens(first, X)
    BY <1>3, <2>1 DEF first
  <2>3. Decrypt(key, first) = Mul(X, u, n) /\ Decrypt(key, first) \in Nat
    BY <1>4, <1>5, <1>6, <2>1, <2>2 DEF first
  <2>4. H[1..1] = Decrypt(key, first)
    <3>1. H[1..(0 + 1)] = H[1..0] + Decrypt(key, lines[0 + 1].text)
      BY <1>9, <2>1
    <3>2. H[1..1] = 0 + Decrypt(key, lines[1].text)
      BY <1>9, <2>1, <3>1
    <3>3. QED  BY <2>3, <3>2 DEF first
  <2>5. Cong(X * u, H[1..1], n)
    <3> DEFINE v == X * u
    <3>1. v \in Int /\ H[1..1] = v % n
      BY <1>1, <2>3, <2>4 DEF Mul
    <3> HIDE DEF v
    <3>2. Cong(v, v % n, n)
      BY <1>1, <3>1, CongResidue
    <3>3. QED  BY <3>1, <3>2 DEF v
  <2>6. QED  BY <1>8, <2>1, <2>2, <2>5
<1>15. ASSUME NEW i \in Nat, i \in T PROVE i + 1 \in T
  <2>1. CASE i + 1 > len - 1
    BY <2>1
  <2>2. CASE i + 1 <= len - 1
    <3>1. i \in 0..(len - 1 - 1) /\ i \in 0..(len - 1) /\ i + 1 \in 0..(len - 1)
          /\ i + 2 \in 1..len /\ i + 1 \in 1..(len - 1) /\ (i + 1) + 1 = i + 2 /\ i + 1 \in 0..len
      BY <1>2, <2>2
    <3> DEFINE t == texts[i + 1]
               a == H[1..(i + 1)]
               b == Decrypt(key, t)
    <3>2. PICK X \in Nat : Opens(F[1..i], X) /\ Cong(X * u, a, n)
      BY <1>2, <1>15, <2>2
    <3>3. t = lines[i + 2].text
      BY <1>7, <3>1
    <3>4. PICK Y \in Nat : Opens(t, Y)
      BY <1>3, <3>1, <3>3
    <3>5. t \in Nat /\ F[1..i] \in Nat /\ a \in Nat /\ b \in Nat
      BY <1>3, <1>6, <1>8, <1>9, <3>1, <3>3
    <3>6. b = Mul(Y, u, n)
      BY <1>4, <3>4, <3>5
    <3>7. F[1..(i + 1)] = Mul(F[1..i], t, s)
      BY <1>8, <3>1
    <3>8. H[1..(i + 2)] = a + b
      BY <1>9, <3>1, <3>3
    <3> HIDE DEF t, a, b
    <3>9. Opens(F[1..(i + 1)], X + Y)
      BY <1>12, <3>2, <3>4, <3>5, <3>7
    <3>10. Cong((X + Y) * u, H[1..(i + 2)], n)
      BY <1>13, <3>2, <3>5, <3>6, <3>8
    <3>11. X + Y \in Nat
      OBVIOUS
    <3>12. QED  BY <3>1, <3>9, <3>10, <3>11
  <2>3. QED  BY <1>2, <2>1, <2>2
<1>16. \A i \in Nat : i \in T
  <2> HIDE DEF T
  <2>1. QED  BY <1>14, <1>15, FromZero
<1>17. PICK X \in Nat : Opens(Product, X) /\ Cong(X * u, H[1..len], n)
  <2>1. len - 1 \in Nat /\ ~(len - 1 > len - 1) /\ (len - 1) + 1 = len
    BY <1>2
  <2>2. len - 1 \in T
    <3> HIDE DEF T
    <3>1. QED  BY <1>16, <2>1
  <2>3. QED  BY <1>10, <2>1, <2>2
<1>18. Product \in Nat
  <2>1. len - 1 \in 0..(len - 1)
    BY <1>2
  <2>2. QED  BY <1>8, <1>10, <2>1
<1>19. Decrypt(key, Product) = (X * u) % n
  BY <1>4, <1>17, <1>18 DEF Mul
<1>20. (X * u) % n = H[1..len] % n
  <2> DEFINE v == X * u
             w == H[1..len]
  <2>1. v \in Int /\ w \in Int /\ Cong(v, w, n)
    <3>1. len \in 0..len
      BY <1>2
    <3>2. QED  BY <1>1, <1>9, <1>17, <3>1
  <2> HIDE DEF v, w
  <2>2. v % n = w % n
    BY <1>1, <2>1, CongResidue
  <2>3. QED  BY <2>2 DEF v, w
<1>21. QED  BY <1>11, <1>19, <1>20 DEF n

(* An answer stays the product of the file it was made of.                 *)
LEMMA TotalStep ==
  ASSUME TotalIsProduct, [RingNext]_ringVars
  PROVE  TotalIsProduct'
<1>1. CASE TallyVotes
  <2>1. key # 0 /\ UNCHANGED << key, lines >> /\ total' = IF lines = << >> THEN -1 ELSE Product
    BY <1>1 DEF TallyVotes
  <2>2. Product' = Product
    BY <2>1 DEF Product, HomomorphicAdd, FoldLeft, MapThenFoldSet
  <2>3. QED  BY <2>1, <2>2 DEF TotalIsProduct
<1>2. CASE total' = -1
  BY <1>2 DEF TotalIsProduct
<1>3. CASE UNCHANGED << key, lines, total >>
  <2>1. Product' = Product
    BY <1>3 DEF Product, HomomorphicAdd, FoldLeft, MapThenFoldSet
  <2>2. QED  BY <1>3, <2>1 DEF TotalIsProduct
<1>4. CASE NewElection \/ OpenElection \/ \E v \in Voters : AddVote(v)
  BY <1>2, <1>4 DEF NewElection, OpenElection, AddVote
<1>5. CASE (\E v \in Voters : NewRing(v)) \/ UNCHANGED ringVars
           \/ \E v \in Voters, m \in Votes : Sign(v, m)
  BY <1>3, <1>5 DEF NewRing, Sign, ringVars
<1>6. QED  BY <1>1, <1>4, <1>5 DEF RingNext

(* What an answer that is the product decrypts to.                         *)
LEMMA ProductIsSum ==
  ASSUME VotesAreNumbers, TotalIsProduct
  PROVE  TallyIsSum
<1> SUFFICES ASSUME total # -1, \A i \in DOMAIN lines : Unit(key, lines[i].text)
             PROVE  Decrypt(key, total) =
                      FoldLeft(LAMBDA s, l : s + Decrypt(key, l.text), 0, lines) % N(key)
  BY DEF TallyIsSum
<1>1. /\ key \in DOMAIN Primes /\ lines # << >> /\ total = Product
      /\ lines \in Seq([text : Votes, keys : Seq(RingKeys)])
  BY DEF VotesAreNumbers, TotalIsProduct
<1>2. QED  BY <1>1, ProductDecrypts

-----------------------------------------------------------------------------
(* The programs together: each step is a step of the command that runs.    *)

(* A step of one command changes the variables of no other.                *)
LEMMA OneCommand ==
  ASSUME [Next]_programVars
  PROVE  /\ [SubmitNext]_submitVars /\ [RingNext]_ringVars
         /\ [GenesisNext]_genesisVars /\ [CompareNext]_compareVars
BY DEF Next, Submits, Compares, MakesGenesis, Elects, Exited, programVars

(* A command that submits, or does not run, starts as SubmitStart says.    *)
LEMMA SubmitFromStart ==
  Init => \E n \in Nat, l \in Int : \E w : SubmitStart(n, l, w)
<1> SUFFICES ASSUME Init PROVE \E n \in Nat, l \in Int : \E w : SubmitStart(n, l, w)
  OBVIOUS
<1>1. CASE SubmitIdle
  BY <1>1 DEF SubmitIdle
<1>2. CASE SubmitInit
  <2>1. ASSUME NEW w, PolicyCreate(w) \/ RoleCreate(w)
        PROVE  \E n \in Nat, l \in Int : \E u : SubmitStart(n, l, u)
    BY <2>1 DEF PolicyCreate, RoleCreate
  <2>2. ASSUME ProposalCreate PROVE \E n \in Nat, l \in Int : \E u : SubmitStart(n, l, u)
    BY <2>2 DEF ProposalCreate
  <2>3. ASSUME NEW n \in FileSizes, NEW l \in Limits, NEW w, SubmitStart(n, l, w)
        PROVE  \E i \in Nat, j \in Int : \E u : SubmitStart(i, j, u)
    BY <2>3, SubmitAssumption
  <2>4. QED  BY <1>2, <2>1, <2>2, <2>3 DEF SubmitInit
<1>3. QED  BY <1>1, <1>2 DEF Init

(* The validator took the lists that were sent, whatever command is run.   *)
THEOREM SubmitInvariant == Spec => []ReceivedLists
<1>1. Init => ReceivedLists
  BY SubmitFromStart, SubmitStarts
<1>2. ReceivedLists /\ [Next]_programVars => ReceivedLists'
  BY OneCommand, SubmitStep
<1>3. QED  BY <1>1, <1>2, PTL DEF Spec

(* The validator takes the file's batches in their order, each once, and a *)
(* command that does not raise has submitted all of them.                  *)
THEOREM BatchesSubmittedOnce == Spec => []SubmittedOnce
BY SubmitInvariant, ListsInOrder, PTL

(* `batch submit --wait` says that all batches are committed only when     *)
(* there was a moment at which all of them were, for any number of batches *)
(* and questions and any forks before, between and after the answers.      *)
THEOREM ToldWhenCommitted == Spec => []CommittedTogether
<1>1. Init => AnswersHeld
  BY SubmitFromStart, AnswersStart
<1>2. AnswersHeld /\ [Next]_programVars => AnswersHeld'
  BY OneCommand, AnswersStep
<1>3. AnswersHeld => CommittedTogether
  BY DEF AnswersHeld, CommittedTogether
<1>4. QED  BY <1>1, <1>2, <1>3, PTL DEF Spec

(* The static vote is the last signer's, and verified until a ring is made;*)
(* the file holds what was signed, and an answer is its product.           *)
THEOREM RingInvariant ==
  Spec => [](RingLists /\ StaticsAreLast /\ VotesAreNumbers /\ TotalIsProduct)
<1>1. Init => RingLists /\ StaticsAreLast /\ VotesAreNumbers /\ TotalIsProduct
  BY RingStarts DEF Init
<1>2. RingLists /\ StaticsAreLast /\ VotesAreNumbers /\ TotalIsProduct /\ [Next]_programVars
        => (RingLists /\ StaticsAreLast /\ VotesAreNumbers /\ TotalIsProduct)'
  BY OneCommand, RingListsStep, StaticsStep, NumbersStep, TotalStep
<1>3. QED  BY <1>1, <1>2, PTL DEF Spec

(* Whichever vote is added, the one recorded is the one signed last, and   *)
(* it is refused only when a ring was made since, for any voters, any      *)
(* rings of any sizes, and any elections.                                  *)
THEOREM LastVoteCounts == Spec => LastVoteRecorded
<1>1. ASSUME RingLists, StaticsAreLast, VotesAreNumbers, [Next]_programVars
      PROVE  [/\ Len(lines') > Len(lines) => lines' = Append(lines, own[signer])
              /\ accepted' = "no" => replaced']_ringVars
  BY <1>1, OneCommand, LastVoteAdded
<1>2. QED  BY <1>1, RingInvariant, PTL DEF Spec, LastVoteRecorded

(* The tally decrypts to the sum of what its votes decrypt to modulo n, for*)
(* any key pairs and any file of numbers without a factor of n             *)
(* (tallyVotes, decrypt).                                                  *)
THEOREM TallyIsRight == Spec => []TallyIsSum
BY RingInvariant, ProductIsSum, PTL

(* What the election's key encrypts with units it decrypts modulo n, for   *)
(* any key pairs and numbers (encrypt, decrypt).                           *)
THEOREM CiphersAreOpened == Spec => []CiphersOpen
BY RingInvariant, CiphersOpened, PTL

(* The arguments and what the genesis commands have made of them.          *)
THEOREM GenesisInvariant == Spec => [](GenesisArguments /\ GenesisMade)
<1>1. Init => GenesisArguments /\ GenesisMade
  BY GenesisStarts DEF Init
<1>2. GenesisArguments /\ GenesisMade /\ [Next]_programVars => (GenesisArguments /\ GenesisMade)'
  BY OneCommand, GenesisStep
<1>3. QED  BY <1>1, <1>2, PTL DEF Spec

(* The genesis commands make a genesis that can be executed and whose      *)
(* settings can be changed, and refuse no other, for any keys, threshold,  *)
(* dependencies and order of the files.                                    *)
THEOREM GenesisIsSound == Spec => []GenesisSound
<1>1. GenesisArguments /\ GenesisMade => GenesisSound
  BY ChecksDecide, ThresholdReached DEF GenesisSound, GenesisMade
<1>2. QED  BY <1>1, GenesisInvariant, PTL

(* The chains that compare-chains has read are at one level in every       *)
(* round, for any number of clients and any forest of blocks.              *)
THEOREM ChainsInvariant == Spec => []CompareInvariant
<1>1. Init => CompareInvariant
  BY CompareStarts DEF Init
<1>2. CompareInvariant /\ [Next]_programVars => CompareInvariant'
  BY OneCommand, CompareStep
<1>3. QED  BY <1>1, <1>2, PTL DEF Spec

(* The fork graph has the chains that are left, each block once, and its   *)
(* root is their common ancestor.                                          *)
THEOREM ForkGraphIsRight == Spec => []GraphHoldsChains
<1>1. CompareInvariant => GraphHoldsChains
  BY GraphReturned DEF CompareInvariant, PrintedTruly, GraphHoldsChains, Built
<1>2. QED  BY <1>1, ChainsInvariant, PTL

(* When all clients answer and no list ends, each node is printed with its *)
(* own blocks from the common ancestor up, and no other.                   *)
THEOREM NodesAreShown == Spec => []ShownTruly
<1>1. CompareInvariant => ShownTruly
  BY DEF CompareInvariant, PrintedTruly, ShownTruly
<1>2. QED  BY <1>1, ChainsInvariant, PTL

=============================================================================
