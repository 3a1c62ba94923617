------------------------- MODULE ExpenseClaimsProofs -------------------------
(***************************************************************************)
(* Proofs about ExpenseClaims, for any sets of claims, members, sessions   *)
(* and evidence objects.  The services never look at a claim again after   *)
(* loading it; what they rely on must therefore be true for good.  The     *)
(* inductive invariant says what that is (ClaimKnown): who the claimant    *)
(* is, and that a proper approval is on record; the status is not part of  *)
(* it.  Payments are serialised by the rows they insert (PayExclusive),    *)
(* and a stored object has one owner (FilesOwned).                         *)
(***************************************************************************)
EXTENDS ExpenseClaims, SequenceTheorems, TLAPS

\* Requests are well formed: only payments wait to insert, only requests with
\* files store them, and they commit with at least one.
RequestShape(r) ==
    /\ r.op = "none" => r = Idle
    /\ r.op # "none" => r.claim \in Claims /\ r.actor \in Members
    /\ r.pc = "insert" => r.op = "pay" /\ r.left # 0
    /\ r.pc = "store" => r.op \in {"submit", "pay", "attach"} /\ r.left # 0
    /\ r.op \in {"none", "review", "withdraw"} \/ r.pc = "insert" => r.files = {}
    /\ r.op \in {"submit", "pay", "attach"} => r.arg \in Purposes
    /\ r.op \in {"submit", "pay", "attach"} /\ r.pc = "commit" => r.files # {}
    /\ r.op = "pay" => r.arg = "payment_evidence"
    /\ r.op = "review" => r.arg \in {"approved", "rejected"} /\ r.actor \in Reviewers

RequestOK == \A s \in Sessions : RequestShape(sess[s])

Exists(c) == claims[c].status # "absent"

\* Somebody who may review, and is not the claimant, approved the claim.
Approved(c) == \E m \in Reviewers : m # claims[c].claimant /\ ApprovedBy(c, m)

\* What a request found when it loaded its claim and may rely on for good.
ClaimKnown ==
    \A s \in Sessions :
        /\ sess[s].op = "submit"
              => /\ ~Exists(sess[s].claim)
                 /\ \A t \in Sessions \ {s} : sess[t].claim # sess[s].claim
        /\ sess[s].op \in {"review", "pay", "withdraw", "attach"}
              => Exists(sess[s].claim)
        /\ sess[s].op \in {"review", "pay"}
              => sess[s].actor # claims[sess[s].claim].claimant
        /\ sess[s].op = "pay" => Approved(sess[s].claim)

\* Reviews and attachments belong to claims that were submitted, and nobody
\* reviews a claim of their own.
RecordsOK ==
    /\ \A r \in reviews : /\ Exists(r.claim)
                          /\ r.reviewer \in Reviewers
                          /\ r.reviewer # claims[r.claim].claimant
    /\ \A l \in links : Exists(l.claim)

\* One open payment per claim, and none when the claim has been paid.
PayExclusive ==
    \A s \in Sessions, c \in Claims : PayingNow(s, c) =>
        /\ \A t \in Sessions : PayingNow(t, c) => s = t
        /\ \A i \in DOMAIN payments : payments[i].claim # c

\* The files of a running request are in the store and nobody else's.
FilesOwned ==
    \A s \in Sessions :
        /\ sess[s].files \subseteq objects \ lost
        /\ \A t \in Sessions \ {s} : sess[s].files \cap sess[t].files = {}
        /\ \A l \in links : l.object \notin sess[s].files

IInv ==
    /\ TypeOK
    /\ RequestOK
    /\ ClaimKnown
    /\ RecordsOK
    /\ PayExclusive
    /\ FilesOwned
    /\ PaidOnceAfterApproval
    /\ StatusJustified
    /\ EvidenceMatchesRows

ClaimRecord ==
    [status : AwaitingReview \cup {"approved", "rejected", "paid", "withdrawn"},
     claimant : Members] \cup {NoSuchClaim}

SessionRecord ==
    [pc : {"idle", "insert", "store", "commit"},
     op : {"none", "submit", "review", "pay", "withdraw", "attach"},
     claim : Claims \cup {NoClaim}, actor : Members \cup {NoMember},
     arg : Purposes \cup {"none", "approved", "rejected"},
     source : Objects \cup {NoObject}, left : Nat,
     files : SUBSET Objects]

Link == [object : Objects, claim : Claims, purpose : Purposes,
         source : Objects \cup {NoObject}]

Review == [claim : Claims, reviewer : Members, decision : {"approved", "rejected"}]

\* What the type invariant says, in these names.
LEMMA Typed ==
    ASSUME TypeOK
    PROVE  /\ claims \in [Claims -> ClaimRecord]
           /\ reviews \subseteq Review
           /\ payments \in Seq([claim : Claims, payer : Members])
           /\ withdrawals \subseteq Claims
           /\ links \subseteq Link
           /\ objects \subseteq Objects
           /\ lost \subseteq objects
           /\ sess \in [Sessions -> SessionRecord]
BY DEF TypeOK, ClaimRecord, Review, Link, SessionRecord

-----------------------------------------------------------------------------
(* Sessions. *)

\* What a request that begins may rely on.
Fresh(r) ==
    /\ r \in SessionRecord
    /\ RequestShape(r)
    /\ r.files = {}
    /\ r.op # "none"
    /\ r.pc \in {"insert", "store", "commit"}
    /\ r.op = "pay" => r.pc = "insert"
    /\ r.op = "submit" => /\ ~Exists(r.claim)
                          /\ \A t \in Sessions : sess[t].claim # r.claim
    /\ r.op # "submit" => Exists(r.claim)
    /\ r.op \in {"review", "pay"} => r.actor # claims[r.claim].claimant
    /\ r.op = "pay" => Approved(r.claim)

\* The fields of a new request.
LEMMA RequestFields ==
    ASSUME NEW pc, NEW op, NEW c, NEW m, NEW arg, NEW source, NEW left
    PROVE  LET r == Request(pc, op, c, m, arg, source, left)
           IN  /\ r.pc = pc /\ r.op = op /\ r.claim = c /\ r.actor = m
               /\ r.arg = arg /\ r.source = source /\ r.left = left /\ r.files = {}
BY DEF Request

\* A new request has the type of a session.
LEMMA RequestTyped ==
    ASSUME NEW pc \in {"insert", "store", "commit"},
           NEW op \in {"submit", "review", "pay", "withdraw", "attach"},
           NEW c \in Claims, NEW m \in Members,
           NEW arg \in Purposes \cup {"none", "approved", "rejected"},
           NEW source \in Objects \cup {NoObject}, NEW left \in Nat
    PROVE  Request(pc, op, c, m, arg, source, left) \in SessionRecord
BY DEF Request, SessionRecord

\* The claim is loaded and checked by exactly these requests.
Begins(s) == BeginSubmit(s) \/ BeginReview(s) \/ BeginPay(s) \/ BeginWithdraw(s)
             \/ BeginPublish(s) \/ BeginCorrect(s)

\* Whatever the requests check when they load the claim is what they rely on.
LEMMA BeginFresh ==
    ASSUME IInv, NEW s \in Sessions, Begins(s)
    PROVE  \E r : Begin(s, r) /\ Fresh(r)
<1>0. /\ claims \in [Claims -> ClaimRecord] /\ links \subseteq Link
      /\ MaxFiles \in Nat
      /\ Claimants \cup Reviewers \cup Payers \cup Publishers \cup Readers \subseteq Members
  BY Typed, ClaimsAssumption DEF IInv
<1>1. CASE BeginSubmit(s)
  <2>1. PICK c \in Claims, m \in Claimants, n \in 1..MaxFiles :
          /\ claims[c].status = "absent"
          /\ \A t \in Sessions : sess[t].claim # c
          /\ Begin(s, Request("store", "submit", c, m, "expense_evidence", NoObject, n))
    BY <1>1 DEF BeginSubmit
  <2> DEFINE r == Request("store", "submit", c, m, "expense_evidence", NoObject, n)
  <2>2. /\ r.pc = "store" /\ r.op = "submit" /\ r.claim = c /\ r.actor = m
        /\ r.arg = "expense_evidence" /\ r.left = n /\ r.files = {}
    BY RequestFields
  <2>3. r \in SessionRecord /\ n # 0 /\ m \in Members
    <3>1. n \in Nat /\ n # 0 /\ m \in Members
      BY <1>0
    <3>2. "expense_evidence" \in Purposes
      BY DEF Purposes
    <3> QED
      BY <3>1, <3>2, RequestTyped
  <2> HIDE DEF r
  <2>4. Fresh(r)
    BY <2>1, <2>2, <2>3 DEF Fresh, RequestShape, Exists, Purposes
  <2> QED
    BY <2>1, <2>4 DEF r
<1>2. CASE BeginReview(s)
  <2>1. PICK c \in Claims, m \in Reviewers, d \in {"approved", "rejected"} :
          /\ claims[c].claimant # m
          /\ claims[c].status \in AwaitingReview
          /\ Begin(s, Request("commit", "review", c, m, d, NoObject, 0))
    BY <1>2 DEF BeginReview
  <2> DEFINE r == Request("commit", "review", c, m, d, NoObject, 0)
  <2>2. /\ r.pc = "commit" /\ r.op = "review" /\ r.claim = c /\ r.actor = m
        /\ r.arg = d /\ r.files = {}
    BY RequestFields
  <2>3. r \in SessionRecord /\ m \in Members
    BY <1>0, RequestTyped
  <2> HIDE DEF r
  <2>4. Fresh(r)
    BY <2>1, <2>2, <2>3 DEF Fresh, RequestShape, Exists, AwaitingReview
  <2> QED
    BY <2>1, <2>4 DEF r
<1>3. CASE BeginPay(s)
  <2>1. PICK c \in Claims, m \in Payers, n \in 1..MaxFiles :
          /\ claims[c].claimant # m
          /\ claims[c].status = "approved"
          /\ Begin(s, Request("insert", "pay", c, m, "payment_evidence", NoObject, n))
    BY <1>3 DEF BeginPay
  <2> DEFINE r == Request("insert", "pay", c, m, "payment_evidence", NoObject, n)
  <2>2. /\ r.pc = "insert" /\ r.op = "pay" /\ r.claim = c /\ r.actor = m
        /\ r.arg = "payment_evidence" /\ r.left = n /\ r.files = {}
    BY RequestFields
  <2>3. r \in SessionRecord /\ n # 0 /\ m \in Members
    <3>1. n \in Nat /\ n # 0 /\ m \in Members
      BY <1>0
    <3>2. "payment_evidence" \in Purposes
      BY DEF Purposes
    <3> QED
      BY <3>1, <3>2, RequestTyped
  <2> HIDE DEF r
  <2>4. Approved(c)
    <3>1. PICK v \in reviews : v.claim = c /\ v.decision = "approved"
      BY <2>1 DEF IInv, StatusJustified
    <3>2. /\ v.reviewer \in Reviewers /\ v.reviewer # claims[c].claimant
          /\ v = [claim |-> c, reviewer |-> v.reviewer, decision |-> "approved"]
      BY <3>1, Typed DEF IInv, RecordsOK, Review
    <3> QED
      BY <3>1, <3>2 DEF Approved, ApprovedBy
  <2>5. Fresh(r)
    BY <2>1, <2>2, <2>3, <2>4 DEF Fresh, RequestShape, Exists, Purposes
  <2> QED
    BY <2>1, <2>5 DEF r
<1>4. CASE BeginWithdraw(s)
  <2>1. PICK c \in Claims :
          /\ claims[c].status \in AwaitingReview
          /\ Begin(s, Request("commit", "withdraw", c, claims[c].claimant, "none",
                              NoObject, 0))
    BY <1>4 DEF BeginWithdraw
  <2> DEFINE r == Request("commit", "withdraw", c, claims[c].claimant, "none",
                          NoObject, 0)
  <2>2. /\ r.pc = "commit" /\ r.op = "withdraw" /\ r.claim = c
        /\ r.actor = claims[c].claimant /\ r.files = {}
    BY RequestFields
  <2>3. claims[c].claimant \in Members
    BY <1>0, <2>1 DEF ClaimRecord, NoSuchClaim, AwaitingReview
  <2>4. r \in SessionRecord
    BY <2>3, RequestTyped
  <2> HIDE DEF r
  <2>5. Fresh(r)
    BY <2>1, <2>2, <2>3, <2>4 DEF Fresh, RequestShape, Exists, AwaitingReview
  <2> QED
    BY <2>1, <2>5 DEF r
<1>5. ASSUME NEW l \in links, NEW m \in Members, NEW p \in Purposes,
             Begin(s, Request("store", "attach", l.claim, m, p, l.object, 1))
      PROVE  \E r : Begin(s, r) /\ Fresh(r)
  <2> DEFINE r == Request("store", "attach", l.claim, m, p, l.object, 1)
  <2>1. /\ r.pc = "store" /\ r.op = "attach" /\ r.claim = l.claim /\ r.actor = m
        /\ r.arg = p /\ r.left = 1 /\ r.files = {}
    BY RequestFields
  <2>2. l.claim \in Claims /\ l.object \in Objects /\ Exists(l.claim)
    BY <1>0 DEF Link, IInv, RecordsOK
  <2>3. r \in SessionRecord
    BY <2>2, RequestTyped
  <2> HIDE DEF r
  <2>4. Fresh(r)
    BY <2>1, <2>2, <2>3 DEF Fresh, RequestShape
  <2> QED
    BY <1>5, <2>4 DEF r
<1>6. CASE BeginPublish(s)
  <2>1. "public_material" \in Purposes
    BY DEF Purposes
  <2> QED
    BY <1>0, <1>5, <1>6, <2>1 DEF BeginPublish
<1>7. CASE BeginCorrect(s)
  <2>1. \A l \in links : l.purpose \in Purposes
    BY <1>0 DEF Link
  <2> QED
    BY <1>5, <1>7, <2>1 DEF BeginCorrect
<1> QED
  BY <1>1, <1>2, <1>3, <1>4, <1>6, <1>7 DEF Begins

-----------------------------------------------------------------------------
(* The steps that end a request. *)

\* The links a request is about to write.
LEMMA NewLinksFacts ==
    ASSUME IInv, NEW s \in Sessions, sess[s].op \in {"submit", "pay", "attach"}
    PROVE  /\ NewLinks(sess[s]) \subseteq Link
           /\ \A l \in NewLinks(sess[s]) : /\ l.object \in sess[s].files
                                           /\ l.claim = sess[s].claim
                                           /\ l.purpose = sess[s].arg
           /\ \A k \in sess[s].files : \E l \in NewLinks(sess[s]) : l.object = k
<1>1. /\ sess[s].claim \in Claims /\ sess[s].arg \in Purposes
      /\ sess[s].files \subseteq Objects /\ sess[s].source \in Objects \cup {NoObject}
  BY Typed DEF IInv, RequestOK, RequestShape, SessionRecord
<1>2. \A k \in sess[s].files :
        LET l == [object |-> k, claim |-> sess[s].claim, purpose |-> sess[s].arg,
                  source |-> sess[s].source]
        IN  /\ l \in Link /\ l.object = k /\ l.claim = sess[s].claim
            /\ l.purpose = sess[s].arg
  BY <1>1 DEF Link
<1> QED
  BY <1>2 DEF NewLinks

\* How the step that ends a request may change the rest of the state: its own
\* claim, more rows, its own files.
Ends(s) ==
    /\ Finish(s)
    /\ sess[s].op # "none"
    /\ claims' \in [Claims -> ClaimRecord]
    /\ \A c \in Claims \ {sess[s].claim} : claims'[c] = claims[c]
    /\ Exists(sess[s].claim)
          => claims'[sess[s].claim].claimant = claims[sess[s].claim].claimant
    /\ \/ claims'[sess[s].claim].status # "absent"
       \/ claims'[sess[s].claim] = claims[sess[s].claim] /\ links' = links
    /\ reviews \subseteq reviews'
    /\ \/ payments' = payments
       \/ /\ PayingNow(s, sess[s].claim)
          /\ payments' = Append(payments, [claim |-> sess[s].claim, payer |-> sess[s].actor])
    /\ withdrawals \subseteq withdrawals' /\ withdrawals' \subseteq Claims
    /\ \/ links' = links
       \/ links' = links \cup NewLinks(sess[s]) /\ sess[s].op \in {"submit", "pay", "attach"}
    /\ objects' \in {objects, objects \ sess[s].files}
    /\ \/ lost' = lost
       \/ lost' = lost \cup sess[s].files /\ objects' = objects

\* What an appended payment looks like.
LEMMA PaymentFacts ==
    ASSUME IInv, NEW s \in Sessions, Ends(s)
    PROVE  /\ payments' \in Seq([claim : Claims, payer : Members])
           /\ DOMAIN payments \subseteq DOMAIN payments'
           /\ \A i \in DOMAIN payments : payments'[i] = payments[i]
           /\ payments' # payments =>
                /\ PayingNow(s, sess[s].claim)
                /\ DOMAIN payments' = DOMAIN payments \cup {Len(payments) + 1}
                /\ Len(payments) + 1 \notin DOMAIN payments
                /\ payments'[Len(payments) + 1].claim = sess[s].claim
                /\ payments'[Len(payments) + 1].payer = sess[s].actor
<1>0. payments \in Seq([claim : Claims, payer : Members])
  BY Typed DEF IInv
<1>1. CASE payments' = payments
  BY <1>0, <1>1
<1>2. CASE /\ PayingNow(s, sess[s].claim)
           /\ payments' = Append(payments, [claim |-> sess[s].claim,
                                            payer |-> sess[s].actor])
  <2> DEFINE p == [claim |-> sess[s].claim, payer |-> sess[s].actor]
  <2>1. p \in [claim : Claims, payer : Members]
    BY <1>2 DEF IInv, RequestOK, RequestShape, PayingNow
  <2>2. p.claim = sess[s].claim /\ p.payer = sess[s].actor
    OBVIOUS
  <2> HIDE DEF p
  <2>3. payments' = Append(payments, p)
    BY <1>2 DEF p
  <2>4. /\ payments' \in Seq([claim : Claims, payer : Members])
        /\ Len(payments) \in Nat
        /\ DOMAIN payments = 1..Len(payments)
        /\ DOMAIN payments' = 1..(Len(payments) + 1)
        /\ \A i \in 1..Len(payments) : payments'[i] = payments[i]
        /\ payments'[Len(payments) + 1] = p
    BY <1>0, <2>1, <2>3
  <2>5. /\ DOMAIN payments' = DOMAIN payments \cup {Len(payments) + 1}
        /\ Len(payments) + 1 \notin DOMAIN payments
    BY <2>4
  <2>6. \A i \in DOMAIN payments : payments'[i] = payments[i]
    BY <2>4
  <2> QED
    BY <1>2, <2>2, <2>4, <2>5, <2>6
<1> QED
  BY <1>1, <1>2 DEF Ends

\* The end of one request takes nothing from the others.
LEMMA EndsKeeps ==
    ASSUME IInv, NEW s \in Sessions, Ends(s), reviews' \subseteq Review
    PROVE  TypeOK' /\ RequestOK' /\ ClaimKnown' /\ PayExclusive' /\ FilesOwned'
<1>0. /\ sess \in [Sessions -> SessionRecord] /\ Idle \in SessionRecord
      /\ sess' = [sess EXCEPT ![s] = Idle]
      /\ sess'[s] = Idle /\ \A t \in Sessions \ {s} : sess'[t] = sess[t]
      /\ sess[s].claim \in Claims
  BY Typed DEF IInv, Ends, Finish, Idle, SessionRecord, RequestOK, RequestShape
<1>1. TypeOK'
  <2>1. links' \subseteq Link
    BY NewLinksFacts, Typed DEF Ends, IInv
  <2>2. objects' \subseteq Objects /\ lost' \subseteq objects'
    <3>1. /\ objects \subseteq Objects /\ lost \subseteq objects
          /\ sess[s].files \subseteq objects \ lost
      BY Typed DEF IInv, FilesOwned
    <3> QED
      BY <3>1 DEF Ends
  <2>3. sess' \in [Sessions -> SessionRecord]
    BY <1>0
  <2> QED
    <3>1. /\ claims' \in [Claims -> ClaimRecord]
          /\ payments' \in Seq([claim : Claims, payer : Members])
          /\ withdrawals' \subseteq Claims
      BY PaymentFacts DEF Ends
    <3> QED
      BY <2>1, <2>2, <2>3, <3>1
      DEF TypeOK, ClaimRecord, NoSuchClaim, Link, Review, SessionRecord
<1>2. RequestOK'
  <2>1. RequestShape(Idle)
    BY DEF RequestShape, Idle
  <2>2. ASSUME NEW t \in Sessions PROVE RequestShape(sess'[t])
    BY <1>0, <2>1 DEF IInv, RequestOK
  <2>3. RequestOK' <=> \A t \in Sessions : RequestShape(sess'[t])
    BY DEF RequestOK, RequestShape, Idle
  <2> QED
    BY <2>2, <2>3
<1>3. ClaimKnown'
  <2> SUFFICES ASSUME NEW t \in Sessions
               PROVE  /\ sess'[t].op = "submit"
                            => /\ claims'[sess'[t].claim].status = "absent"
                               /\ \A u \in Sessions \ {t} : sess'[u].claim # sess'[t].claim
                      /\ sess'[t].op \in {"review", "pay", "withdraw", "attach"}
                            => claims'[sess'[t].claim].status # "absent"
                      /\ sess'[t].op \in {"review", "pay"}
                            => sess'[t].actor # claims'[sess'[t].claim].claimant
                      /\ sess'[t].op = "pay"
                            => \E m \in Reviewers :
                                 /\ m # claims'[sess'[t].claim].claimant
                                 /\ [claim |-> sess'[t].claim, reviewer |-> m,
                                     decision |-> "approved"] \in reviews'
    BY DEF ClaimKnown, Exists, Approved, ApprovedBy
  <2>1. CASE t = s
    BY <1>0, <2>1 DEF Idle
  <2>2. CASE t # s /\ sess[t].op = "submit"
    <3>1. sess'[t] = sess[t] /\ sess[t].claim \in Claims
      BY <1>0, <2>2 DEF IInv, RequestOK, RequestShape
    <3>2. /\ claims[sess[t].claim].status = "absent"
          /\ \A u \in Sessions \ {t} : sess[u].claim # sess[t].claim
      BY <2>2 DEF IInv, ClaimKnown, Exists
    <3>3. claims'[sess[t].claim] = claims[sess[t].claim]
      BY <2>2, <3>1, <3>2 DEF Ends
    <3>4. \A u \in Sessions \ {t} : sess'[u].claim # sess[t].claim
      BY <1>0, <3>1, <3>2, ClaimsAssumption DEF Idle
    <3> QED
      BY <2>2, <3>1, <3>2, <3>3, <3>4
  <2>3. CASE t # s /\ sess[t].op # "submit" /\ sess[t].op # "none"
    <3> DEFINE c == sess[t].claim
    <3>1. /\ sess'[t] = sess[t] /\ c \in Claims
          /\ sess[t].op \in {"review", "pay", "withdraw", "attach"}
      BY <1>0, <2>3 DEF IInv, RequestOK, RequestShape, SessionRecord
    <3>2. claims[c].status # "absent"
      BY <3>1 DEF IInv, ClaimKnown, Exists
    <3>3. claims'[c].status # "absent" /\ claims'[c].claimant = claims[c].claimant
      BY <3>1, <3>2 DEF Ends, Exists
    <3>4. sess[t].op \in {"review", "pay"} => sess[t].actor # claims[c].claimant
      BY DEF IInv, ClaimKnown
    <3>5. sess[t].op = "pay"
            => \E m \in Reviewers :
                 /\ m # claims[c].claimant
                 /\ [claim |-> c, reviewer |-> m, decision |-> "approved"] \in reviews
      BY DEF IInv, ClaimKnown, Approved, ApprovedBy
    <3>6. reviews \subseteq reviews'
      BY DEF Ends
    <3> QED
      BY <2>3, <3>1, <3>2, <3>3, <3>4, <3>5, <3>6
  <2>4. CASE t # s /\ sess[t].op = "none"
    BY <1>0, <2>4
  <2> QED
    BY <2>1, <2>2, <2>3, <2>4
<1>4. PayExclusive'
  <2> SUFFICES ASSUME NEW t \in Sessions, NEW c \in Claims, PayingNow(t, c)'
               PROVE  /\ \A u \in Sessions : PayingNow(u, c)' => t = u
                      /\ \A i \in DOMAIN payments' : payments'[i].claim # c
    BY DEF PayExclusive
  <2>1. t # s
    BY <1>0 DEF PayingNow, Idle
  <2>2. PayingNow(t, c)
    BY <1>0, <2>1 DEF PayingNow
  <2>3. \A u \in Sessions : PayingNow(u, c)' => PayingNow(u, c)
    BY <1>0 DEF PayingNow, Idle
  <2>4. /\ \A u \in Sessions : PayingNow(u, c) => t = u
        /\ \A i \in DOMAIN payments : payments[i].claim # c
    BY <2>2 DEF IInv, PayExclusive
  <2>5. \A i \in DOMAIN payments' : payments'[i].claim # c
    <3>1. CASE payments' = payments
      BY <2>4, <3>1
    <3>2. CASE payments' # payments
      <4>1. c # sess[s].claim
        BY <2>1, <2>4, <3>2, PaymentFacts
      <4> QED
        BY <2>4, <3>2, <4>1, PaymentFacts
    <3> QED
      BY <3>1, <3>2
  <2> QED
    BY <2>3, <2>4, <2>5
<1>5. FilesOwned'
  <2> SUFFICES ASSUME NEW t \in Sessions
               PROVE  /\ sess'[t].files \subseteq objects' \ lost'
                      /\ \A u \in Sessions \ {t} : sess'[t].files \cap sess'[u].files = {}
                      /\ \A l \in links' : l.object \notin sess'[t].files
    BY DEF FilesOwned
  <2>1. CASE t = s
    BY <1>0, <2>1 DEF Idle
  <2>2. CASE t # s
    <3>1. /\ sess'[t] = sess[t]
          /\ sess[t].files \subseteq objects \ lost
          /\ \A u \in Sessions \ {t} : sess[t].files \cap sess[u].files = {}
          /\ \A l \in links : l.object \notin sess[t].files
      BY <1>0, <2>2 DEF IInv, FilesOwned
    <3>2. sess[t].files \cap sess[s].files = {}
      BY <2>2, <3>1
    <3>3. sess[t].files \subseteq objects' \ lost'
      BY <3>1, <3>2 DEF Ends
    <3>4. \A u \in Sessions \ {t} : sess[t].files \cap sess'[u].files = {}
      BY <1>0, <3>1 DEF Idle
    <3>5. \A l \in links' : l.object \notin sess[t].files
      BY <3>1, <3>2, NewLinksFacts DEF Ends
    <3> QED
      BY <3>1, <3>3, <3>4, <3>5
  <2> QED
    BY <2>1, <2>2
<1> QED
  BY <1>1, <1>2, <1>3, <1>4, <1>5

\* Claims that exist stay, with their claimant.
LEMMA ClaimsStay ==
    ASSUME IInv, NEW s \in Sessions, Ends(s), NEW c \in Claims, Exists(c)
    PROVE  claims'[c].status # "absent" /\ claims'[c].claimant = claims[c].claimant
BY DEF Ends, Exists

\* The end of a request leaves proper records of reviews and attachments.
LEMMA EndsRecords ==
    ASSUME IInv, NEW s \in Sessions, Ends(s),
           \/ reviews' = reviews
           \/ /\ sess[s].op = "review"
              /\ reviews' = reviews \cup {[claim |-> sess[s].claim,
                    reviewer |-> sess[s].actor, decision |-> sess[s].arg]}
    PROVE  RecordsOK' /\ reviews' \subseteq Review
<1>1. ASSUME NEW r \in reviews
      PROVE  /\ r \in Review
             /\ claims'[r.claim].status # "absent"
             /\ r.reviewer \in Reviewers /\ r.reviewer # claims'[r.claim].claimant
  <2>1. r \in Review /\ r.claim \in Claims
    BY Typed DEF IInv, Review
  <2>2. Exists(r.claim) /\ r.reviewer \in Reviewers /\ r.reviewer # claims[r.claim].claimant
    BY DEF IInv, RecordsOK
  <2> QED
    BY <2>1, <2>2, ClaimsStay
<1>2. ASSUME sess[s].op = "review"
      PROVE  LET r == [claim |-> sess[s].claim, reviewer |-> sess[s].actor,
                       decision |-> sess[s].arg]
             IN  /\ r \in Review
                 /\ claims'[r.claim].status # "absent"
                 /\ r.reviewer \in Reviewers /\ r.reviewer # claims'[r.claim].claimant
  <2>1. /\ sess[s].claim \in Claims /\ sess[s].actor \in Reviewers
        /\ sess[s].actor \in Members /\ sess[s].arg \in {"approved", "rejected"}
    BY <1>2 DEF IInv, RequestOK, RequestShape
  <2>2. Exists(sess[s].claim) /\ sess[s].actor # claims[sess[s].claim].claimant
    BY <1>2 DEF IInv, ClaimKnown
  <2> QED
    BY <2>1, <2>2, ClaimsStay DEF Review
<1>3. \A r \in reviews' : /\ r \in Review
                          /\ claims'[r.claim].status # "absent"
                          /\ r.reviewer \in Reviewers
                          /\ r.reviewer # claims'[r.claim].claimant
  BY <1>1, <1>2
<1>4. ASSUME NEW l \in links' PROVE claims'[l.claim].status # "absent"
  <2>1. CASE l \in links
    <3>1. l.claim \in Claims /\ Exists(l.claim)
      BY <2>1, Typed DEF IInv, Link, RecordsOK
    <3> QED
      BY <3>1, ClaimsStay
  <2>2. CASE l \notin links
    <3>1. l.claim = sess[s].claim /\ links' # links
      BY <2>2, NewLinksFacts DEF Ends
    <3> QED
      BY <3>1 DEF Ends
  <2> QED
    BY <2>1, <2>2
<1> QED
  BY <1>3, <1>4 DEF RecordsOK, Exists

\* Payments keep what makes them right, and a new one has it.
LEMMA EndsPaid ==
    ASSUME IInv, NEW s \in Sessions, Ends(s),
           payments' # payments =>
              Ready(s, "pay") /\ links' = links \cup NewLinks(sess[s])
    PROVE  PaidOnceAfterApproval'
<1> DEFINE c0 == sess[s].claim
           n == Len(payments) + 1
<1>0. /\ reviews \subseteq reviews' /\ links \subseteq links'
  BY DEF Ends
<1>1. ASSUME NEW c \in Claims, Exists(c), Approved(c)
      PROVE  \E m \in Reviewers :
               /\ m # claims'[c].claimant
               /\ [claim |-> c, reviewer |-> m, decision |-> "approved"] \in reviews'
  BY <1>0, <1>1, ClaimsStay DEF Approved, ApprovedBy
<1>2. ASSUME NEW i \in DOMAIN payments, NEW c \in Claims, c = payments[i].claim
      PROVE  /\ \A j \in DOMAIN payments : payments[j].claim = c => i = j
             /\ payments[i].payer # claims'[c].claimant
             /\ \E m \in Reviewers :
                  /\ m # claims'[c].claimant
                  /\ [claim |-> c, reviewer |-> m, decision |-> "approved"] \in reviews'
             /\ \E l \in links' : l.claim = c /\ l.purpose = "payment_evidence"
  <2>1. /\ \A j \in DOMAIN payments : payments[j].claim = c => i = j
        /\ payments[i].payer # claims[c].claimant
        /\ Approved(c)
        /\ \E l \in links : l.claim = c /\ l.purpose = "payment_evidence"
    BY <1>2 DEF IInv, PaidOnceAfterApproval, Approved
  <2>2. Exists(c)
    <3>1. PICK m \in Reviewers : [claim |-> c, reviewer |-> m, decision |-> "approved"] \in reviews
      BY <2>1 DEF Approved, ApprovedBy
    <3> QED
      BY <3>1 DEF IInv, RecordsOK
  <2> QED
    BY <1>0, <1>1, <2>1, <2>2, ClaimsStay
<1>3. \A i \in DOMAIN payments : payments[i].claim \in Claims
  <2> DEFINE Payment == [claim : Claims, payer : Members]
  <2>1. payments \in Seq(Payment)
    BY Typed DEF IInv
  <2>2. \A x \in Payment : x.claim \in Claims
    OBVIOUS
  <2> HIDE DEF Payment
  <2>3. \A i \in DOMAIN payments : payments[i] \in Payment
    BY <2>1
  <2> QED
    BY <2>2, <2>3
<1>4. CASE payments' = payments
  <2>1. ASSUME NEW i \in DOMAIN payments
        PROVE  /\ \A j \in DOMAIN payments : payments[j].claim = payments[i].claim => i = j
               /\ payments[i].payer # claims'[payments[i].claim].claimant
               /\ \E m \in Reviewers :
                    /\ m # claims'[payments[i].claim].claimant
                    /\ [claim |-> payments[i].claim, reviewer |-> m,
                        decision |-> "approved"] \in reviews'
               /\ \E l \in links' : /\ l.claim = payments[i].claim
                                    /\ l.purpose = "payment_evidence"
    BY <1>2, <1>3
  <2> QED
    BY <1>4, <2>1 DEF PaidOnceAfterApproval, ApprovedBy
<1>5. CASE payments' # payments
  <2>0. /\ PayingNow(s, c0)
        /\ DOMAIN payments' = DOMAIN payments \cup {n} /\ n \notin DOMAIN payments
        /\ payments'[n].claim = c0 /\ payments'[n].payer = sess[s].actor
        /\ \A i \in DOMAIN payments : payments'[i] = payments[i]
    BY <1>5, PaymentFacts
  <2>1. sess[s].op = "pay" /\ sess[s].pc = "commit"
    BY <1>5 DEF Ready
  <2>2. /\ c0 \in Claims /\ sess[s].arg = "payment_evidence" /\ sess[s].files # {}
    BY <2>1 DEF IInv, RequestOK, RequestShape
  <2>3. Exists(c0) /\ sess[s].actor # claims[c0].claimant /\ Approved(c0)
    BY <2>1 DEF IInv, ClaimKnown
  <2>4. \A i \in DOMAIN payments : payments[i].claim # c0
    BY <2>0, <2>2 DEF IInv, PayExclusive
  <2>5. \E l \in links' : l.claim = c0 /\ l.purpose = "payment_evidence"
    BY <1>5, <2>1, <2>2, NewLinksFacts
  <2>6. claims'[c0].claimant = claims[c0].claimant
    BY <2>2, <2>3, ClaimsStay
  <2> HIDE DEF c0, n
  <2>7. ASSUME NEW i \in DOMAIN payments'
        PROVE  /\ \A j \in DOMAIN payments' :
                     payments'[j].claim = payments'[i].claim => i = j
               /\ payments'[i].payer # claims'[payments'[i].claim].claimant
               /\ \E m \in Reviewers :
                    /\ m # claims'[payments'[i].claim].claimant
                    /\ [claim |-> payments'[i].claim, reviewer |-> m,
                        decision |-> "approved"] \in reviews'
               /\ \E l \in links' : /\ l.claim = payments'[i].claim
                                    /\ l.purpose = "payment_evidence"
    <3>1. CASE i = n
      BY <1>1, <2>0, <2>2, <2>3, <2>4, <2>5, <2>6, <3>1
    <3>2. CASE i \in DOMAIN payments
      <4>1. PICK c \in Claims : c = payments[i].claim
        BY <1>3, <3>2
      <4>2. /\ \A j \in DOMAIN payments : payments[j].claim = c => i = j
            /\ payments[i].payer # claims'[c].claimant
            /\ \E m \in Reviewers :
                 /\ m # claims'[c].claimant
                 /\ [claim |-> c, reviewer |-> m, decision |-> "approved"] \in reviews'
            /\ \E l \in links' : l.claim = c /\ l.purpose = "payment_evidence"
        BY <1>2, <3>2, <4>1
      <4> QED
        BY <2>0, <2>4, <3>2, <4>1, <4>2
    <3> QED
      BY <2>0, <3>1, <3>2
  <2> QED
    BY <2>7 DEF PaidOnceAfterApproval, ApprovedBy
<1> QED
  BY <1>4, <1>5

\* Statuses keep their justification.
LEMMA EndsJustified ==
    ASSUME IInv, NEW s \in Sessions, Ends(s),
           \/ claims' = claims
           \/ claims'[sess[s].claim].status = "submitted"
           \/ /\ claims'[sess[s].claim].status \in {"approved", "rejected"}
              /\ \E r \in reviews' : /\ r.claim = sess[s].claim
                                     /\ r.decision = claims'[sess[s].claim].status
           \/ /\ claims'[sess[s].claim].status = "paid"
              /\ \E i \in DOMAIN payments' : payments'[i].claim = sess[s].claim
           \/ /\ claims'[sess[s].claim].status = "withdrawn"
              /\ sess[s].claim \in withdrawals'
    PROVE  StatusJustified'
<1>1. reviews \subseteq reviews' /\ withdrawals \subseteq withdrawals'
  BY DEF Ends
<1>2. /\ DOMAIN payments \subseteq DOMAIN payments'
      /\ \A i \in DOMAIN payments : payments'[i] = payments[i]
  BY PaymentFacts
<1>3. ASSUME NEW c \in Claims, claims'[c] = claims[c]
      PROVE  /\ claims'[c].status \in {"approved", "rejected"}
                   => \E r \in reviews' : r.claim = c /\ r.decision = claims'[c].status
             /\ claims'[c].status = "paid"
                   => \E i \in DOMAIN payments' : payments'[i].claim = c
             /\ claims'[c].status = "withdrawn" => c \in withdrawals'
  <2>1. claims[c].status \in {"approved", "rejected"}
          => \E r \in reviews : r.claim = c /\ r.decision = claims[c].status
    BY DEF IInv, StatusJustified
  <2>2. claims[c].status = "paid" => \E i \in DOMAIN payments : payments[i].claim = c
    BY DEF IInv, StatusJustified
  <2>3. claims[c].status = "withdrawn" => c \in withdrawals
    BY DEF IInv, StatusJustified
  <2> QED
    BY <1>1, <1>2, <1>3, <2>1, <2>2, <2>3
<1>4. \A c \in Claims : claims'[c] = claims[c] \/ c = sess[s].claim
  BY DEF Ends
<1> QED
  BY <1>3, <1>4 DEF StatusJustified

\* Objects and rows still match: the files are linked, deleted or lost.
LEMMA EndsEvidence ==
    ASSUME IInv, NEW s \in Sessions, Ends(s),
           \/ /\ links' = links \cup NewLinks(sess[s])
              /\ sess[s].op \in {"submit", "pay", "attach"}
              /\ UNCHANGED <<objects, lost>>
           \/ sess[s].files = {} /\ UNCHANGED <<links, objects, lost>>
           \/ objects' = objects \ sess[s].files /\ UNCHANGED <<links, lost>>
           \/ lost' = lost \cup sess[s].files /\ UNCHANGED <<links, objects>>
    PROVE  EvidenceMatchesRows'
<1>0. /\ \A l \in links : l.object \in objects /\ l.object \notin sess[s].files
      /\ sess[s].files \subseteq objects
      /\ \A t \in Sessions \ {s} : sess'[t] = sess[t]
  BY Typed DEF IInv, FilesOwned, EvidenceMatchesRows, Ends, Finish
<1>1. \A l \in links' : l.object \in objects'
  BY <1>0, NewLinksFacts
<1>2. ASSUME NEW k \in objects'
      PROVE  \/ \E l \in links' : l.object = k
             \/ \E t \in Sessions : k \in sess'[t].files
             \/ k \in lost'
  <2>1. k \in objects /\ links \subseteq links' /\ lost \subseteq lost'
    BY <1>2 DEF Ends
  <2>2. \/ \E l \in links : l.object = k
        \/ \E t \in Sessions : k \in sess[t].files
        \/ k \in lost
    BY <2>1 DEF IInv, EvidenceMatchesRows
  <2>3. CASE k \in sess[s].files
    BY <1>2, <2>3, NewLinksFacts
  <2>4. CASE k \notin sess[s].files
    BY <1>0, <2>1, <2>2, <2>4
  <2> QED
    BY <2>3, <2>4
<1> QED
  BY <1>1, <1>2 DEF EvidenceMatchesRows

\* Every step that ends a request keeps the invariant.
LEMMA EndsStep ==
    ASSUME IInv, NEW s \in Sessions,
           \/ CommitSubmit(s) \/ CommitReview(s) \/ CommitPay(s) \/ CommitWithdraw(s)
           \/ CommitAttach(s) \/ Fail(s) \/ Crash(s)
    PROVE  IInv'
<1>0. /\ claims \in [Claims -> ClaimRecord]
      /\ sess[s] \in SessionRecord
      /\ RequestShape(sess[s])
      /\ sess[s].op # "none" => sess[s].claim \in Claims /\ sess[s].actor \in Members
      /\ withdrawals \subseteq Claims
  BY Typed DEF IInv, RequestOK, RequestShape
<1>1. ASSUME Ends(s), EvidenceMatchesRows', StatusJustified', PaidOnceAfterApproval',
             RecordsOK', reviews' \subseteq Review
      PROVE  IInv'
  BY <1>1, EndsKeeps DEF IInv
<1>2. CASE CommitSubmit(s)
  <2> DEFINE c == sess[s].claim
  <2>1. /\ sess[s].op = "submit" /\ c \in Claims /\ sess[s].actor \in Members
        /\ ~Exists(c)
        /\ claims' = [claims EXCEPT ![c] =
                        [status |-> "submitted", claimant |-> sess[s].actor]]
        /\ links' = links \cup NewLinks(sess[s])
        /\ Finish(s)
        /\ UNCHANGED <<reviews, payments, withdrawals, objects, lost>>
    BY <1>0, <1>2 DEF CommitSubmit, Ready, IInv, ClaimKnown
  <2>2. [status |-> "submitted", claimant |-> sess[s].actor] \in ClaimRecord
    BY <2>1 DEF ClaimRecord, AwaitingReview
  <2>3. Ends(s) /\ claims'[c].status = "submitted"
    BY <1>0, <2>1, <2>2 DEF Ends
  <2>4. RecordsOK' /\ reviews' \subseteq Review
    BY <2>1, <2>3, EndsRecords
  <2>5. PaidOnceAfterApproval'
    BY <2>1, <2>3, EndsPaid
  <2>6. StatusJustified'
    BY <2>3, EndsJustified
  <2>7. EvidenceMatchesRows'
    BY <2>1, <2>3, EndsEvidence
  <2> QED
    BY <1>1, <2>3, <2>4, <2>5, <2>6, <2>7
<1>3. ASSUME sess[s].op \in {"review", "pay", "withdraw"},
             NEW st \in {"approved", "rejected", "paid", "withdrawn"},
             claims' = [claims EXCEPT ![sess[s].claim].status = st]
      PROVE  /\ claims' \in [Claims -> ClaimRecord]
             /\ claims'[sess[s].claim].status = st
             /\ claims'[sess[s].claim].claimant = claims[sess[s].claim].claimant
             /\ \A c \in Claims \ {sess[s].claim} : claims'[c] = claims[c]
  <2>1. /\ sess[s].claim \in Claims /\ claims[sess[s].claim] # NoSuchClaim
    BY <1>0, <1>3 DEF IInv, ClaimKnown, Exists, NoSuchClaim
  <2>2. /\ [claims[sess[s].claim] EXCEPT !.status = st] \in ClaimRecord
        /\ [claims[sess[s].claim] EXCEPT !.status = st].status = st
        /\ [claims[sess[s].claim] EXCEPT !.status = st].claimant
              = claims[sess[s].claim].claimant
    BY <1>0, <2>1 DEF ClaimRecord
  <2> QED
    BY <1>0, <1>3, <2>1, <2>2
<1>4. CASE CommitReview(s)
  <2>1. /\ sess[s].op = "review" /\ sess[s].arg \in {"approved", "rejected"}
        /\ claims' = [claims EXCEPT ![sess[s].claim].status = sess[s].arg]
        /\ reviews' = reviews \cup {[claim |-> sess[s].claim,
                reviewer |-> sess[s].actor, decision |-> sess[s].arg]}
        /\ sess[s].files = {}
        /\ Finish(s)
        /\ UNCHANGED <<payments, withdrawals, links, objects, lost>>
    BY <1>0, <1>4 DEF CommitReview, Ready, RequestShape
  <2>2. /\ claims' \in [Claims -> ClaimRecord]
        /\ claims'[sess[s].claim].status = sess[s].arg
        /\ claims'[sess[s].claim].claimant = claims[sess[s].claim].claimant
        /\ \A c \in Claims \ {sess[s].claim} : claims'[c] = claims[c]
    BY <1>3, <2>1
  <2>3. Ends(s)
    BY <1>0, <2>1, <2>2 DEF Ends
  <2>4. RecordsOK' /\ reviews' \subseteq Review
    BY <2>1, <2>3, EndsRecords
  <2>5. PaidOnceAfterApproval'
    BY <2>1, <2>3, EndsPaid
  <2>6. StatusJustified'
    <3>1. \E r \in reviews' : r.claim = sess[s].claim /\ r.decision = sess[s].arg
      <4> DEFINE v == [claim |-> sess[s].claim, reviewer |-> sess[s].actor,
                       decision |-> sess[s].arg]
      <4>1. v \in reviews' /\ v.claim = sess[s].claim /\ v.decision = sess[s].arg
        BY <2>1
      <4> HIDE DEF v
      <4> QED
        BY <4>1
    <3> QED
      BY <2>1, <2>2, <2>3, <3>1, EndsJustified
  <2>7. EvidenceMatchesRows'
    BY <2>1, <2>3, EndsEvidence
  <2> QED
    BY <1>1, <2>3, <2>4, <2>5, <2>6, <2>7
<1>5. CASE CommitPay(s)
  <2>1. /\ sess[s].op = "pay" /\ Ready(s, "pay")
        /\ claims' = [claims EXCEPT ![sess[s].claim].status = "paid"]
        /\ payments' = Append(payments, [claim |-> sess[s].claim, payer |-> sess[s].actor])
        /\ links' = links \cup NewLinks(sess[s])
        /\ PayingNow(s, sess[s].claim)
        /\ Finish(s)
        /\ UNCHANGED <<reviews, withdrawals, objects, lost>>
    BY <1>0, <1>5 DEF CommitPay, Ready, PayingNow
  <2>2. /\ claims' \in [Claims -> ClaimRecord]
        /\ claims'[sess[s].claim].status = "paid"
        /\ claims'[sess[s].claim].claimant = claims[sess[s].claim].claimant
        /\ \A c \in Claims \ {sess[s].claim} : claims'[c] = claims[c]
    BY <1>3, <2>1
  <2>3. Ends(s)
    BY <1>0, <2>1, <2>2 DEF Ends
  <2>4. RecordsOK' /\ reviews' \subseteq Review
    BY <2>1, <2>3, EndsRecords
  <2>5. PaidOnceAfterApproval'
    BY <2>1, <2>3, EndsPaid
  <2>6. StatusJustified'
    <3>1. payments' # payments
      <4> DEFINE Payment == [claim : Claims, payer : Members]
                 p == [claim |-> sess[s].claim, payer |-> sess[s].actor]
      <4>1. payments \in Seq(Payment) /\ p \in Payment /\ payments' = Append(payments, p)
        BY <1>0, <2>1, Typed DEF IInv
      <4> HIDE DEF Payment, p
      <4>2. Len(payments') = Len(payments) + 1 /\ Len(payments) \in Nat
        BY <4>1
      <4> QED
        BY <4>2
    <3>2. \E i \in DOMAIN payments' : payments'[i].claim = sess[s].claim
      BY <2>3, <3>1, PaymentFacts
    <3> QED
      BY <2>2, <2>3, <3>2, EndsJustified
  <2>7. EvidenceMatchesRows'
    BY <2>1, <2>3, EndsEvidence
  <2> QED
    BY <1>1, <2>3, <2>4, <2>5, <2>6, <2>7
<1>6. CASE CommitWithdraw(s)
  <2>1. /\ sess[s].op = "withdraw"
        /\ claims' = [claims EXCEPT ![sess[s].claim].status = "withdrawn"]
        /\ withdrawals' = withdrawals \cup {sess[s].claim}
        /\ sess[s].files = {}
        /\ Finish(s)
        /\ UNCHANGED <<reviews, payments, links, objects, lost>>
    BY <1>0, <1>6 DEF CommitWithdraw, Ready, RequestShape
  <2>2. /\ claims' \in [Claims -> ClaimRecord]
        /\ claims'[sess[s].claim].status = "withdrawn"
        /\ claims'[sess[s].claim].claimant = claims[sess[s].claim].claimant
        /\ \A c \in Claims \ {sess[s].claim} : claims'[c] = claims[c]
    BY <1>3, <2>1
  <2>3. Ends(s)
    BY <1>0, <2>1, <2>2 DEF Ends
  <2>4. RecordsOK' /\ reviews' \subseteq Review
    BY <2>1, <2>3, EndsRecords
  <2>5. PaidOnceAfterApproval'
    BY <2>1, <2>3, EndsPaid
  <2>6. StatusJustified'
    BY <2>1, <2>2, <2>3, EndsJustified
  <2>7. EvidenceMatchesRows'
    BY <2>1, <2>3, EndsEvidence
  <2> QED
    BY <1>1, <2>3, <2>4, <2>5, <2>6, <2>7
<1>7. CASE CommitAttach(s)
  <2>1. /\ sess[s].op = "attach" /\ Exists(sess[s].claim)
        /\ links' = links \cup NewLinks(sess[s])
        /\ Finish(s)
        /\ UNCHANGED <<claims, reviews, payments, withdrawals, objects, lost>>
    BY <1>0, <1>7 DEF CommitAttach, Ready, IInv, ClaimKnown
  <2>3. Ends(s)
    BY <1>0, <2>1 DEF Ends, Exists
  <2>4. RecordsOK' /\ reviews' \subseteq Review
    BY <2>1, <2>3, EndsRecords
  <2>5. PaidOnceAfterApproval'
    BY <2>1, <2>3, EndsPaid
  <2>6. StatusJustified'
    BY <2>1, <2>3, EndsJustified
  <2>7. EvidenceMatchesRows'
    BY <2>1, <2>3, EndsEvidence
  <2> QED
    BY <1>1, <2>3, <2>4, <2>5, <2>6, <2>7
<1>8. CASE Fail(s) \/ Crash(s)
  <2>1. /\ sess[s].op # "none"
        /\ UNCHANGED dbVars /\ Finish(s)
        /\ \/ objects' = objects \ sess[s].files /\ lost' = lost
           \/ objects' = objects /\ lost' = lost \cup sess[s].files
    BY <1>0, <1>8 DEF Fail, Crash, RequestShape
  <2>2. UNCHANGED <<claims, reviews, payments, withdrawals, links>>
    BY <2>1 DEF dbVars
  <2>3. Ends(s)
    BY <1>0, <2>1, <2>2 DEF Ends
  <2>4. RecordsOK' /\ reviews' \subseteq Review
    BY <2>2, <2>3, EndsRecords
  <2>5. PaidOnceAfterApproval'
    BY <2>2, <2>3, EndsPaid
  <2>6. StatusJustified'
    BY <2>2, <2>3, EndsJustified
  <2>7. EvidenceMatchesRows'
    BY <2>1, <2>2, <2>3, EndsEvidence
  <2> QED
    BY <1>1, <2>3, <2>4, <2>5, <2>6, <2>7
<1> QED
  BY <1>2, <1>4, <1>5, <1>6, <1>7, <1>8

-----------------------------------------------------------------------------
(* The steps before the commit: no row changes. *)

\* Rows that do not change keep their invariants.
LEMMA RowsUnchanged ==
    ASSUME IInv, UNCHANGED dbVars
    PROVE  RecordsOK' /\ PaidOnceAfterApproval' /\ StatusJustified'
<1>1. UNCHANGED <<claims, reviews, payments, withdrawals, links>>
  BY DEF dbVars
<1>2. RecordsOK'
  BY <1>1 DEF IInv, RecordsOK, Exists
<1>3. PaidOnceAfterApproval'
  BY <1>1 DEF IInv, PaidOnceAfterApproval, ApprovedBy
<1>4. StatusJustified'
  BY <1>1 DEF IInv, StatusJustified
<1> QED
  BY <1>2, <1>3, <1>4

\* A request loads its claim and begins.
LEMMA BeginStep ==
    ASSUME IInv, NEW s \in Sessions, NEW r, Begin(s, r), Fresh(r)
    PROVE  IInv'
<1>0. /\ sess \in [Sessions -> SessionRecord] /\ sess[s] = Idle
      /\ sess' = [sess EXCEPT ![s] = r]
      /\ sess'[s] = r /\ \A t \in Sessions \ {s} : sess'[t] = sess[t]
      /\ UNCHANGED <<dbVars, objects, lost>>
      /\ UNCHANGED <<claims, reviews, payments, withdrawals, links>>
  BY Typed DEF IInv, Begin, dbVars
<1>1. TypeOK'
  BY <1>0, Typed DEF IInv, Fresh, TypeOK, SessionRecord
<1>2. RequestOK'
  <2>1. \A t \in Sessions : RequestShape(sess[t])'
    BY <1>0 DEF IInv, RequestOK, Fresh, RequestShape, Idle
  <2> QED
    BY <2>1 DEF RequestOK
<1>3. ClaimKnown'
  <2> SUFFICES ASSUME NEW t \in Sessions
               PROVE  /\ sess'[t].op = "submit"
                            => /\ ~Exists(sess'[t].claim)
                               /\ \A u \in Sessions \ {t} : sess'[u].claim # sess'[t].claim
                      /\ sess'[t].op \in {"review", "pay", "withdraw", "attach"}
                            => Exists(sess'[t].claim)
                      /\ sess'[t].op \in {"review", "pay"}
                            => sess'[t].actor # claims[sess'[t].claim].claimant
                      /\ sess'[t].op = "pay" => Approved(sess'[t].claim)
    BY <1>0 DEF ClaimKnown, Exists, Approved, ApprovedBy
  <2>1. CASE t = s
    BY <1>0, <2>1 DEF Fresh
  <2>2. CASE t # s
    <3>1. /\ sess[t].op = "submit"
                => /\ ~Exists(sess[t].claim)
                   /\ \A u \in Sessions \ {t} : sess[u].claim # sess[t].claim
          /\ sess[t].op \in {"review", "pay", "withdraw", "attach"}
                => Exists(sess[t].claim)
          /\ sess[t].op \in {"review", "pay"}
                => sess[t].actor # claims[sess[t].claim].claimant
          /\ sess[t].op = "pay" => Approved(sess[t].claim)
      BY DEF IInv, ClaimKnown
    <3>2. sess[t].op = "submit" => r.claim # sess[t].claim
      BY <3>1 DEF Fresh
    <3> QED
      BY <1>0, <2>2, <3>1, <3>2
  <2> QED
    BY <2>1, <2>2
<1>4. PayExclusive'
  <2>1. \A t \in Sessions, c \in Claims : PayingNow(t, c)' => PayingNow(t, c)
    BY <1>0 DEF PayingNow, Fresh
  <2> QED
    BY <1>0, <2>1 DEF IInv, PayExclusive
<1>5. FilesOwned' /\ EvidenceMatchesRows'
  <2>0. r.files = {} /\ sess[s].files = {}
    BY <1>0 DEF Fresh, Idle
  <2>1. \A t \in Sessions : sess'[t].files = sess[t].files
    BY <1>0, <2>0
  <2> QED
    BY <1>0, <2>1 DEF IInv, FilesOwned, EvidenceMatchesRows
<1> QED
  BY <1>0, <1>1, <1>2, <1>3, <1>4, <1>5, RowsUnchanged DEF IInv

\* A session that moves on without a commit keeps its claim.
LEMMA MoveKnown ==
    ASSUME IInv, UNCHANGED <<claims, reviews>>,
           \A t \in Sessions : /\ sess'[t].op = sess[t].op
                               /\ sess'[t].claim = sess[t].claim
                               /\ sess'[t].actor = sess[t].actor
    PROVE  ClaimKnown'
<1>1. ASSUME NEW t \in Sessions
      PROVE  /\ sess'[t].op = "submit"
                   => /\ ~Exists(sess[t].claim)
                      /\ \A u \in Sessions \ {t} : sess'[u].claim # sess'[t].claim
             /\ sess'[t].op \in {"review", "pay", "withdraw", "attach"}
                   => Exists(sess[t].claim)
             /\ sess'[t].op \in {"review", "pay"}
                   => sess'[t].actor # claims[sess[t].claim].claimant
             /\ sess'[t].op = "pay" => Approved(sess[t].claim)
             /\ sess'[t].claim = sess[t].claim
  BY DEF IInv, ClaimKnown
<1>2. \A c : (Exists(c)' <=> Exists(c)) /\ (Approved(c)' <=> Approved(c))
  BY DEF Exists, Approved, ApprovedBy
<1> QED
  BY <1>1, <1>2 DEF ClaimKnown, Exists, Approved, ApprovedBy

\* mark_expense_claim_paid inserts the payment rows: the one-to-one column lets
\* one transaction through.
LEMMA InsertStep ==
    ASSUME IInv, NEW s \in Sessions, InsertPayment(s)
    PROVE  IInv'
<1>0. /\ sess \in [Sessions -> SessionRecord] /\ sess[s].pc = "insert"
      /\ sess' = [sess EXCEPT ![s].pc = "store"]
      /\ UNCHANGED <<dbVars, objects, lost>>
      /\ UNCHANGED <<claims, reviews, payments, withdrawals, links>>
      /\ RowFree(sess[s].claim)
      /\ \A i \in DOMAIN payments : payments[i].claim # sess[s].claim
  BY Typed DEF IInv, InsertPayment, dbVars
<1>1. /\ sess'[s] = [sess[s] EXCEPT !.pc = "store"]
      /\ sess' \in [Sessions -> SessionRecord]
      /\ \A t \in Sessions \ {s} : sess'[t] = sess[t]
      /\ \A t \in Sessions : /\ sess'[t].op = sess[t].op
                             /\ sess'[t].claim = sess[t].claim
                             /\ sess'[t].actor = sess[t].actor
                             /\ sess'[t].files = sess[t].files
                             /\ sess'[t].arg = sess[t].arg
                             /\ sess'[t].left = sess[t].left
      /\ sess'[s].pc = "store"
  BY <1>0 DEF SessionRecord
<1>2. TypeOK'
  BY <1>0, <1>1, Typed DEF IInv, TypeOK, SessionRecord
<1>3. RequestOK'
  <2>1. sess[s].op = "pay" /\ sess[s].left # 0
    BY <1>0 DEF IInv, RequestOK, RequestShape
  <2>2. RequestShape(sess[s])'
    BY <1>0, <1>1, <2>1 DEF IInv, RequestOK, RequestShape
  <2>3. \A t \in Sessions \ {s} : RequestShape(sess[t])'
    BY <1>1 DEF IInv, RequestOK, RequestShape, Idle
  <2> QED
    BY <2>2, <2>3 DEF RequestOK
<1>4. ClaimKnown'
  BY <1>0, <1>1, MoveKnown
<1>5. PayExclusive'
  <2>1. \A t \in Sessions, c \in Claims :
          PayingNow(t, c)' => PayingNow(t, c) \/ (t = s /\ c = sess[s].claim)
    BY <1>0, <1>1 DEF PayingNow
  <2>2. \A t \in Sessions : ~PayingNow(t, sess[s].claim)
    BY <1>0 DEF RowFree
  <2> QED
    BY <1>0, <2>1, <2>2 DEF IInv, PayExclusive
<1>6. FilesOwned' /\ EvidenceMatchesRows'
  BY <1>0, <1>1 DEF IInv, FilesOwned, EvidenceMatchesRows
<1> QED
  BY <1>0, <1>2, <1>3, <1>4, <1>5, <1>6, RowsUnchanged DEF IInv

\* save_immutable: the object is new, so it is nobody else's.
LEMMA StoreStep ==
    ASSUME IInv, NEW s \in Sessions, StoreObject(s)
    PROVE  IInv'
<1>0. PICK k \in Objects \ objects :
        /\ sess[s].pc = "store"
        /\ objects' = objects \cup {k}
        /\ sess' = [sess EXCEPT ![s].files = @ \cup {k}, ![s].left = @ - 1,
                        ![s].pc = IF sess[s].left = 1 THEN "commit" ELSE "store"]
        /\ UNCHANGED <<dbVars, lost>>
  BY DEF StoreObject
<1>a. /\ sess \in [Sessions -> SessionRecord]
      /\ UNCHANGED <<claims, reviews, payments, withdrawals, links, lost>>
      /\ sess[s].left \in Nat \ {0} /\ sess[s].op \in {"submit", "pay", "attach"}
  BY <1>0, Typed DEF IInv, dbVars, RequestOK, RequestShape, SessionRecord
<1>1. /\ sess'[s] = [sess[s] EXCEPT !.files = @ \cup {k}, !.left = @ - 1,
                        !.pc = IF sess[s].left = 1 THEN "commit" ELSE "store"]
      /\ \A t \in Sessions \ {s} : sess'[t] = sess[t]
  BY <1>0, <1>a
<1>2. /\ sess'[s] \in SessionRecord
      /\ sess'[s].op = sess[s].op /\ sess'[s].claim = sess[s].claim
      /\ sess'[s].actor = sess[s].actor /\ sess'[s].arg = sess[s].arg
      /\ sess'[s].files = sess[s].files \cup {k}
      /\ sess'[s].left = sess[s].left - 1
      /\ sess'[s].pc = IF sess[s].left = 1 THEN "commit" ELSE "store"
  <2> DEFINE p == IF sess[s].left = 1 THEN "commit" ELSE "store"
             f == sess[s].files \cup {k}
             n == sess[s].left - 1
  <2>1. sess[s] \in SessionRecord /\ sess[s].files \in SUBSET Objects
    BY <1>a DEF SessionRecord
  <2>2. p \in {"store", "commit"} /\ f \in SUBSET Objects /\ n \in Nat
    BY <1>a, <2>1
  <2>3. sess'[s] = [sess[s] EXCEPT !.files = f, !.left = n, !.pc = p]
    BY <1>1
  <2> HIDE DEF p, f, n
  <2>4. /\ sess'[s] \in SessionRecord
        /\ sess'[s].op = sess[s].op /\ sess'[s].claim = sess[s].claim
        /\ sess'[s].actor = sess[s].actor /\ sess'[s].arg = sess[s].arg
        /\ sess'[s].files = f /\ sess'[s].left = n /\ sess'[s].pc = p
    BY <2>1, <2>2, <2>3 DEF SessionRecord
  <2> QED
    BY <2>4 DEF p, f, n
<1>3. TypeOK'
  <2>1. sess' \in [Sessions -> SessionRecord]
    BY <1>0, <1>a, <1>1, <1>2
  <2>2. objects' \subseteq Objects /\ lost' \subseteq objects'
    BY <1>0, <1>a, Typed DEF IInv
  <2> QED
    BY <1>a, <2>1, <2>2 DEF IInv, TypeOK, SessionRecord
<1>4. RequestOK'
  <2>1. RequestShape(sess[s])
    BY DEF IInv, RequestOK
  <2>2. sess'[s].pc = "store" => sess'[s].left # 0
    BY <1>a, <1>2
  <2>3. sess'[s].pc \in {"commit", "store"}
    BY <1>2
  <2>4. RequestShape(sess[s])'
    BY <1>a, <1>2, <2>1, <2>2, <2>3 DEF RequestShape
  <2>5. \A t \in Sessions \ {s} : RequestShape(sess[t])'
    BY <1>1 DEF IInv, RequestOK, RequestShape, Idle
  <2> QED
    BY <2>4, <2>5 DEF RequestOK
<1>5. ClaimKnown'
  BY <1>a, <1>1, <1>2, MoveKnown
<1>6. PayExclusive'
  <2>1. \A t \in Sessions, c \in Claims : PayingNow(t, c)' => PayingNow(t, c)
    BY <1>0, <1>1, <1>2 DEF PayingNow
  <2> QED
    BY <1>a, <2>1 DEF IInv, PayExclusive
<1>7. /\ \A t \in Sessions : k \notin sess[t].files
      /\ \A l \in links : l.object # k
      /\ k \notin lost
  BY <1>0, Typed DEF IInv, FilesOwned, EvidenceMatchesRows
<1>8. FilesOwned'
  BY <1>0, <1>a, <1>1, <1>2, <1>7 DEF IInv, FilesOwned
<1>9. EvidenceMatchesRows'
  BY <1>0, <1>a, <1>1, <1>2 DEF IInv, EvidenceMatchesRows
<1> QED
  BY <1>0, <1>3, <1>4, <1>5, <1>6, <1>8, <1>9, RowsUnchanged DEF IInv

-----------------------------------------------------------------------------
(* The theorems. *)

\* The inductive invariant holds of every behaviour.
THEOREM SpecIInv == Spec => []IInv
<1>1. Init => IInv
  <2> SUFFICES ASSUME Init PROVE IInv
    OBVIOUS
  <2>1. TypeOK
    BY DEF Init, TypeOK, Idle, NoSuchClaim
  <2>2. RequestOK /\ ClaimKnown /\ PayExclusive /\ FilesOwned
    BY DEF Init, Idle, RequestOK, RequestShape, ClaimKnown, PayExclusive, PayingNow,
           FilesOwned
  <2>3. RecordsOK /\ PaidOnceAfterApproval /\ StatusJustified /\ EvidenceMatchesRows
    BY DEF Init, RecordsOK, PaidOnceAfterApproval, StatusJustified, EvidenceMatchesRows,
           NoSuchClaim
  <2> QED
    BY <2>1, <2>2, <2>3 DEF IInv
<1>2. IInv /\ [Next]_vars => IInv'
  <2> SUFFICES ASSUME IInv, [Next]_vars PROVE IInv'
    OBVIOUS
  <2>1. ASSUME NEW s \in Sessions, SessionStep(s)
        PROVE  IInv'
    BY <2>1, BeginFresh, BeginStep, InsertStep, StoreStep, EndsStep DEF SessionStep, Begins
  <2>2. CASE UNCHANGED vars
    <3>1. UNCHANGED <<claims, reviews, payments, withdrawals, links, objects, lost, sess>>
      BY <2>2 DEF vars
    <3>2. TypeOK' /\ RequestOK'
      BY <3>1 DEF IInv, TypeOK, RequestOK, RequestShape, Idle
    <3>3. ClaimKnown' /\ PayExclusive'
      BY <3>1 DEF IInv, ClaimKnown, Exists, Approved, ApprovedBy, PayExclusive, PayingNow
    <3>4. FilesOwned' /\ EvidenceMatchesRows'
      BY <3>1 DEF IInv, FilesOwned, EvidenceMatchesRows
    <3> QED
      BY <3>1, <3>2, <3>3, <3>4, RowsUnchanged DEF IInv, dbVars
  <2> QED
    BY <2>1, <2>2 DEF Next
<1> QED
  BY <1>1, <1>2, PTL DEF Spec

\* Every variable keeps its type.
THEOREM TypeCorrect == Spec => []TypeOK
<1>1. IInv => TypeOK
  BY DEF IInv
<1> QED
  BY <1>1, SpecIInv, PTL

\* mark_expense_claim_paid pays a claim once, approved by and paid by somebody
\* other than the claimant and with evidence, although it acts on a copy that may
\* be out of date.
THEOREM PaymentsSound == Spec => []PaidOnceAfterApproval
<1>1. IInv => PaidOnceAfterApproval
  BY DEF IInv
<1> QED
  BY <1>1, SpecIInv, PTL

\* Whatever order reviews, payments and withdrawals commit in, the record behind
\* a claim's status exists.
THEOREM StatusesJustified == Spec => []StatusJustified
<1>1. IInv => StatusJustified
  BY DEF IInv
<1> QED
  BY <1>1, SpecIInv, PTL

\* Attachment rows and stored objects match through failures and crashes of any
\* number of concurrent uploads.
THEOREM EvidenceSound == Spec => []EvidenceMatchesRows
<1>1. IInv => EvidenceMatchesRows
  BY DEF IInv
<1> QED
  BY <1>1, SpecIInv, PTL

=============================================================================
