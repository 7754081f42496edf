------------------------- MODULE OverlayLeaseProofs -------------------------
(***************************************************************************)
(* The leases are exclusive for every set of nodes, pool, lease duration   *)
(* and number of failures, as long as no lease lapses, and without a        *)
(* failure none lapses.  The inductive invariant says of each request on    *)
(* its way what the record it compares with still allows: a revision names  *)
(* one value of the record, so a request that still matches sees the record *)
(* it was made for.                                                         *)
(***************************************************************************)
EXTENDS OverlayLease, TLAPS

NoneHolds(a) == \A n \in Node : Holds(node[n]) => node[n].lease # a

(* What is true of a request until it is applied or given up.               *)
RequestOK(r) ==
  /\ r.rev <= revision /\ r.expires <= clock + LeaseDuration
  /\ r.kind # "acquire" => r.rev # 0
  /\ Matches(r) /\ r.kind = "acquire" => r.rev = 0 \/ kv[r.addr].expires <= clock
  /\ Matches(r) /\ r.kind = "renew" =>
       \/ r.addr \in lapsed
       \/ kv[r.addr].owner = r.from /\ kv[r.addr].expires <= r.expires
  /\ Matches(r) /\ r.kind = "release" => r.addr \in lapsed \/ NoneHolds(r.addr)

(* A process has a transaction of acquire or of releaseLease where its pc   *)
(* says so, and one of its renewal only while Run goes on.                  *)
ProcessOK(n) == LET p == node[n] IN
  /\ p.req # NoRequest => /\ p.pc = IF p.req.kind = "acquire" THEN "txn" ELSE "release"
                          /\ p.req.kind # "renew" /\ p.req.from = n /\ RequestOK(p.req)
  /\ p.pc \in {"txn", "release"} => p.req # NoRequest
  /\ p.pc = "txn" => p.ip \in Addresses
  /\ p.renewing => p.pc \in {"discover", "up"}
  /\ p.renewal # NoRequest => /\ p.renewing /\ p.lease = p.renewal.addr
                              /\ p.renewal.kind = "renew" /\ p.renewal.from = n
                              /\ RequestOK(p.renewal)
  /\ p.now <= clock

RecordsOK ==
  \A a \in Addresses : /\ kv[a].rev <= revision
                       /\ kv[a].expires <= clock + LeaseDuration

UntilLive ==
  \A n \in Node : Holds(node[n]) /\ node[n].lease \notin lapsed => node[n].until > clock

LeaseInv ==
  /\ TypeOK /\ RecordsOK /\ UntilLive /\ HolderOnRecord
  /\ \A n \in Node : ProcessOK(n)
  /\ \A r \in late : RequestOK(r)

-----------------------------------------------------------------------------
(* Types                                                                    *)

LEMMA NoRequestIsNone == NoRequest \notin Request
BY DEF NoRequest, Request

LEMMA AbsentIsNoRecord == Absent \notin Record
BY DEF Absent, Record

LEMMA DownIsProcess ==
  /\ Down \in Process /\ Down.pc = "down" /\ Down.req = NoRequest
  /\ Down.renewal = NoRequest /\ ~Down.renewing /\ Down.now = 0
BY LeaseAssumption DEF Down, Process, Addresses, NoAddress

LEMMA ProcessType ==
  ASSUME TypeOK, NEW n \in Node
  PROVE  node[n] \in Process /\ Pending(node[n]) \subseteq Request
BY DEF TypeOK, Process, Pending

LEMMA RecordType ==
  ASSUME TypeOK, NEW a \in Addresses
  PROVE  /\ kv[a].rev \in Nat /\ kv[a].expires \in Nat
         /\ kv[a].rev # 0 => kv[a].owner \in Node
         /\ kv[a].owner \in Node => kv[a].rev # 0
BY LeaseAssumption DEF TypeOK, Record, Absent

LEMMA IntervalType == Interval \in Nat \ {0}
<1>1. LeaseDuration \div 3 \in Nat
  BY LeaseAssumption
<1>2. QED
  BY <1>1 DEF Interval

LEMMA WrittenType ==
  ASSUME TypeOK, NEW r \in Request
  PROVE  Written(r) \in Record \cup {Absent}
BY DEF TypeOK, Request, Written, Record

LEMMA ApplyType ==
  ASSUME TypeOK, NEW r \in Request, Apply(r)
  PROVE  kv' \in [Addresses -> Record \cup {Absent}] /\ revision' \in Nat
<1>1. Written(r) \in Record \cup {Absent} /\ r.addr \in Addresses
  BY WrittenType DEF Request
<1>2. QED
  BY <1>1 DEF TypeOK, Apply

-----------------------------------------------------------------------------
(* Requests                                                                 *)

HoldersKept == \A n \in Node :
  Holds(node'[n]) => Holds(node[n]) /\ node'[n].lease = node[n].lease

LEMMA RequestKept ==
  ASSUME TypeOK, NEW r \in Request, RequestOK(r), clock' \in Nat, clock' >= clock,
         kv' = kv, revision' = revision, lapsed \subseteq lapsed', HoldersKept
  PROVE  RequestOK(r)'
<1>1. kv[r.addr].expires \in Nat /\ r.expires \in Nat
  BY RecordType DEF Request
<1>2. NoneHolds(r.addr) => NoneHolds(r.addr)'
  BY DEF NoneHolds, HoldersKept
<1>3. r.rev <= revision' /\ r.expires <= clock' + LeaseDuration
  BY <1>1, LeaseAssumption DEF RequestOK, TypeOK
<1>4. Matches(r)' <=> Matches(r)
  BY DEF Matches
<1>5. r.kind \in {"acquire", "renew", "release"}
  BY DEF Request
<1>6. kv[r.addr].expires <= clock => kv[r.addr].expires <= clock'
  BY <1>1 DEF TypeOK
<1>7. QED
  BY <1>2, <1>3, <1>4, <1>5, <1>6 DEF RequestOK

(* A request that another overtakes does not match any more, unless both    *)
(* wait for the record's absence.                                           *)
LEMMA RequestOvertaken ==
  ASSUME TypeOK, RecordsOK, NEW q \in Request, NEW r \in Request,
         RequestOK(q), RequestOK(r), Matches(q), Apply(q), clock' = clock,
         lapsed \subseteq lapsed',
         \A n \in Node : Holds(node'[n]) /\ node'[n].lease # q.addr
            => Holds(node[n]) /\ node'[n].lease = node[n].lease
  PROVE  RequestOK(r)'
<1>1. kv' = [kv EXCEPT ![q.addr] = Written(q)] /\ revision' = revision + 1
  BY DEF Apply
<1>2. r.rev \in Nat /\ r.addr \in Addresses /\ q.addr \in Addresses /\ revision \in Nat
  BY DEF Request, TypeOK
<1>3. r.rev <= revision /\ r.rev <= revision'
  BY <1>1, <1>2 DEF RequestOK
<1>4. CASE r.addr = q.addr
  <2>1. kv'[r.addr] = Written(q)
    BY <1>1, <1>2, <1>4 DEF TypeOK
  <2>2. Matches(r)' => r.rev = 0
    BY <1>2, <1>3, <2>1 DEF Matches, Written, Absent
  <2>3. r.kind \in {"acquire", "renew", "release"}
    BY DEF Request
  <2>4. QED
    BY <1>3, <2>2, <2>3 DEF RequestOK
<1>5. CASE r.addr # q.addr
  <2>1. kv'[r.addr] = kv[r.addr] /\ (Matches(r)' <=> Matches(r))
    BY <1>1, <1>2, <1>5 DEF TypeOK, Matches
  <2>2. NoneHolds(r.addr) => NoneHolds(r.addr)'
    BY <1>5 DEF NoneHolds
  <2>3. r.kind \in {"acquire", "renew", "release"}
    BY DEF Request
  <2>4. QED
    BY <1>3, <2>1, <2>2, <2>3 DEF RequestOK
<1>6. QED
  BY <1>4, <1>5

(* An applied request leaves the record of every holder whose lease has not *)
(* lapsed to that holder, and does not shorten it.                          *)
LEMMA HolderKeepsRecord ==
  ASSUME LeaseInv, NEW q \in Request, RequestOK(q), Apply(q),
         NEW n \in Node, Holds(node[n]), node[n].lease \notin lapsed
  PROVE  LET a == node[n].lease IN
         /\ kv'[a].owner = n /\ kv'[a].expires >= node[n].until
         /\ Matches(q) /\ q.addr = a => q.kind = "renew" /\ q.from = n
<1> DEFINE a == node[n].lease
<1>1. a \in Addresses
  <2>1. node[n] \in Process
    BY ProcessType DEF LeaseInv
  <2>2. QED
    BY <2>1 DEF Process, Holds
<1>2. /\ kv[a].owner = n /\ kv[a].expires >= node[n].until
      /\ node[n].until > clock /\ kv[a].rev # 0
  BY <1>1, RecordType DEF LeaseInv, HolderOnRecord, UntilLive
<1>3. /\ kv[a].expires \in Nat /\ node[n].until \in Nat /\ clock \in Nat
      /\ q.expires \in Nat /\ kv \in [Addresses -> Record \cup {Absent}]
  BY <1>1, RecordType, ProcessType DEF LeaseInv, TypeOK, Process, Request
<1>4. CASE Matches(q) /\ q.addr = a
  <2>1. q.rev # 0 /\ ~(kv[a].expires <= clock) /\ ~NoneHolds(a)
    BY <1>2, <1>3, <1>4 DEF Matches, NoneHolds
  <2>2. q.kind = "renew" /\ kv[a].owner = q.from /\ kv[a].expires <= q.expires
    BY <1>4, <2>1 DEF RequestOK, Request
  <2>3. kv'[a].owner = q.from /\ kv'[a].expires = q.expires
    BY <1>1, <1>3, <1>4, <2>2 DEF Apply, Written
  <2>4. QED
    BY <1>2, <1>3, <2>2, <2>3
<1>5. CASE ~(Matches(q) /\ q.addr = a)
  <2>1. kv'[a] = kv[a]
    BY <1>1, <1>3, <1>5 DEF Apply
  <2>2. QED
    BY <1>2, <1>5, <2>1
<1>6. QED
  BY <1>4, <1>5

-----------------------------------------------------------------------------
(* Steps                                                                    *)

LEMMA LapsesGrow ==
  ASSUME TypeOK, NoteLapses
  PROVE  lapsed \subseteq lapsed' /\ lapsed' \subseteq Addresses
BY DEF TypeOK, NoteLapses

LEMMA UntilStaysLive ==
  ASSUME NoteLapses, node' \in [Node -> Process], clock' \in Nat
  PROVE  UntilLive'
<1> SUFFICES ASSUME NEW n \in Node, Holds(node'[n]), node'[n].lease \notin lapsed'
             PROVE  node'[n].until > clock'
  BY DEF UntilLive
<1>1. node'[n].lease \in Addresses /\ node'[n].until \in Nat
  BY DEF Process, Holds
<1>2. ~Overdue(node'[n], clock')
  BY <1>1 DEF NoteLapses
<1>3. QED
  BY <1>1, <1>2 DEF Overdue

(* The requests of a process that does not take the step, and those that    *)
(* nobody waits for, stay as they are.                                      *)
OthersKept(n) == \A m \in Node \ {n} : node'[m] = node[m]

RequestsKept == \A r \in Request : RequestOK(r) => RequestOK(r)'

LEMMA OthersOK ==
  ASSUME LeaseInv, NEW n \in Node, OthersKept(n), RequestsKept,
         clock' = clock, ProcessOK(n)', NEW m \in Node
  PROVE  ProcessOK(m)'
<1>1. CASE m = n
  BY <1>1
<1>2. CASE m # n
  <2>1. node'[m] = node[m] /\ ProcessOK(m) /\ node[m] \in Process
    BY <1>2, ProcessType DEF OthersKept, LeaseInv
  <2>2. /\ node[m].req # NoRequest => node[m].req \in Request
        /\ node[m].renewal # NoRequest => node[m].renewal \in Request
    BY <2>1 DEF Process
  <2>3. QED
    BY <2>1, <2>2 DEF ProcessOK, RequestsKept
<1>3. QED
  BY <1>1, <1>2

(* A step of one process that the store does not see.                       *)
LEMMA ProcessStepKeeps ==
  ASSUME LeaseInv, NoteLapses, NEW n \in Node, NEW p \in Process, Become(n, p),
         UNCHANGED <<clock, kv, revision>>, starts' \in Nat, faults' \in Nat,
         late' \subseteq late \cup Pending(node[n]),
         Holds(p) => /\ Holds(node[n]) /\ p.lease = node[n].lease
                     /\ p.until = node[n].until,
         ProcessOK(n)'
  PROVE  LeaseInv'
<1> USE DEF LeaseInv
<1>1. node' \in [Node -> Process] /\ node'[n] = p /\ OthersKept(n)
  BY DEF TypeOK, Become, OthersKept
<1>2. lapsed \subseteq lapsed' /\ lapsed' \subseteq Addresses
  BY LapsesGrow
<1>3. late' \subseteq Request
  BY ProcessType DEF TypeOK
<1>4. TypeOK'
  BY <1>1, <1>2, <1>3 DEF TypeOK
<1>5. HoldersKept
  BY <1>1 DEF HoldersKept, OthersKept
<1>6. RequestsKept
  BY <1>2, <1>5, RequestKept DEF RequestsKept, TypeOK
<1>7. \A m \in Node : ProcessOK(m)'
  BY <1>1, <1>6, OthersOK
<1>8. \A r \in late' : RequestOK(r)'
  <2>1. \A r \in Pending(node[n]) : RequestOK(r)
    BY DEF ProcessOK, Pending
  <2>2. QED
    BY <1>3, <1>6, <2>1 DEF RequestsKept
<1>9. UntilLive'
  BY <1>1, UntilStaysLive DEF TypeOK
<1>10. HolderOnRecord'
  <2> SUFFICES ASSUME NEW m \in Node, Holds(node'[m]), node'[m].lease \notin lapsed'
               PROVE  /\ kv[node'[m].lease].owner = m
                      /\ kv[node'[m].lease].expires >= node'[m].until
    BY DEF HolderOnRecord
  <2>1. Holds(node[m]) /\ node'[m].lease = node[m].lease /\ node'[m].until = node[m].until
    BY <1>1 DEF OthersKept
  <2>2. QED
    BY <1>2, <2>1 DEF HolderOnRecord
<1>11. RecordsOK'
  BY DEF RecordsOK
<1>12. QED
  BY <1>4, <1>7, <1>8, <1>9, <1>10, <1>11

LEMMA EndsKeeps ==
  ASSUME LeaseInv, NoteLapses, NEW n \in Node, Ends(n),
         UNCHANGED <<clock, kv, revision, starts>>, faults' \in Nat
  PROVE  LeaseInv'
<1>1. node' = [node EXCEPT ![n] = Down] /\ late' \subseteq late \cup Pending(node[n])
  BY DEF Ends, Become
<1>2. node'[n] = Down
  BY <1>1 DEF LeaseInv, TypeOK
<1>3. clock' \in Nat
  BY DEF LeaseInv, TypeOK
<1>4. ProcessOK(n)'
  BY <1>2, <1>3, DownIsProcess DEF ProcessOK
<1>5. ~Holds(Down) /\ starts' \in Nat
  BY DownIsProcess DEF Holds, LeaseInv, TypeOK
<1>6. QED
  BY <1>1, <1>4, <1>5, DownIsProcess, ProcessStepKeeps DEF Become

-----------------------------------------------------------------------------
(* The steps of a node that the store does not see                          *)

LEMMA KeptRequests ==
  ASSUME LeaseInv, NoteLapses, NEW n \in Node, UNCHANGED <<clock, kv, revision>>,
         OthersKept(n),
         Holds(node'[n]) => Holds(node[n]) /\ node'[n].lease = node[n].lease
  PROVE  RequestsKept
<1>1. HoldersKept
  BY DEF HoldersKept, OthersKept
<1>2. lapsed \subseteq lapsed'
  BY LapsesGrow DEF LeaseInv
<1>3. QED
  BY <1>1, <1>2, RequestKept DEF RequestsKept, LeaseInv, TypeOK

LEMMA StartKeeps ==
  ASSUME LeaseInv, NoteLapses, NEW n \in Node, Start(n)
  PROVE  LeaseInv'
<1> DEFINE c == IF n \in Static THEN "discover" ELSE "get"
           b == n \in Static
<1>1. /\ Become(n, [Down EXCEPT !.now = clock, !.pc = c, !.renewing = b])
      /\ c \in {"discover", "get"} /\ b \in BOOLEAN /\ (b => c = "discover")
  BY DEF Start
<1> HIDE DEF c, b
<1> DEFINE p == [Down EXCEPT !.now = clock, !.pc = c, !.renewing = b]
<1>2. /\ p \in Process /\ p.req = NoRequest /\ p.renewal = NoRequest /\ p.pc = c
      /\ p.renewing = b /\ p.now = clock /\ p.lease = NoAddress
  <2>1. clock \in Nat
    BY DEF LeaseInv, TypeOK
  <2>2. p \in Process
    BY <1>1, <2>1, DownIsProcess DEF Process
  <2>3. QED
    BY <2>2 DEF Down
<1> HIDE DEF p
<1>3. node' = [node EXCEPT ![n] = p] /\ node'[n] = p
  BY <1>1 DEF Become, LeaseInv, TypeOK, p
<1>4. ~Holds(p)
  BY <1>1, <1>2 DEF Holds
<1>5. clock' = clock /\ clock \in Nat /\ starts' \in Nat /\ faults' \in Nat /\ late' = late
  BY DEF Start, LeaseInv, TypeOK
<1>6. ProcessOK(n)'
  BY <1>1, <1>2, <1>3, <1>5 DEF ProcessOK
<1>7. QED
  BY <1>2, <1>3, <1>4, <1>5, <1>6, ProcessStepKeeps DEF Start, Become

LEMMA AcquireSkipsKeeps ==
  ASSUME LeaseInv, NoteLapses, NEW n \in Node, AcquireSkips(n)
  PROVE  LeaseInv'
<1> DEFINE p == [node[n] EXCEPT !.ip = @ + 1]
<1>1. node[n] \in Process /\ ProcessOK(n)
  BY ProcessType DEF LeaseInv
<1>2. p \in Process
  BY <1>1, LeaseAssumption DEF Process, AcquireSkips, Addresses
<1>3. node' = [node EXCEPT ![n] = p] /\ node'[n] = p
  BY DEF AcquireSkips, Become, LeaseInv, TypeOK
<1>4. Holds(p) => Holds(node[n]) /\ p.lease = node[n].lease /\ p.until = node[n].until
  BY <1>1 DEF Holds, Process
<1>5. ProcessOK(n)'
  <2>1. node[n].req = NoRequest /\ node[n].renewal = NoRequest /\ ~node[n].renewing
    BY <1>1 DEF ProcessOK, AcquireSkips
  <2>2. p.req = NoRequest /\ p.renewal = NoRequest /\ ~p.renewing /\ p.pc = "get" /\ p.now <= clock
    BY <1>1, <2>1 DEF Process, ProcessOK, AcquireSkips
  <2>3. QED
    BY <1>3, <2>2 DEF ProcessOK, AcquireSkips
<1>6. QED
  BY <1>2, <1>3, <1>4, <1>5, ProcessStepKeeps DEF AcquireSkips, Become, LeaseInv, TypeOK

LEMMA AcquireGetKeeps ==
  ASSUME LeaseInv, NoteLapses, NEW n \in Node, AcquireGet(n)
  PROVE  LeaseInv'
<1>1. node[n] \in Process /\ ProcessOK(n) /\ node[n].ip \in Addresses
  BY ProcessType DEF LeaseInv, AcquireGet
<1>2. PICK r \in Request : r = AcquireRequest(n, node[n].ip)
  <2>1. node[n].now + LeaseDuration \in Nat /\ kv[node[n].ip].rev \in Nat
    BY <1>1, RecordType, LeaseAssumption DEF Process, LeaseInv
  <2>2. AcquireRequest(n, node[n].ip) \in Request
    BY <1>1, <2>1 DEF AcquireRequest, Request
  <2>3. QED
    BY <2>2
<1>3. r # NoRequest /\ r.kind = "acquire" /\ r.from = n
  BY <1>2, NoRequestIsNone DEF AcquireRequest
<1> DEFINE p == [node[n] EXCEPT !.pc = "txn", !.req = r]
<1>4. /\ p \in Process /\ p.pc = "txn" /\ p.req = r /\ p.renewal = node[n].renewal
      /\ p.renewing = node[n].renewing /\ p.now = node[n].now /\ p.ip = node[n].ip
  BY <1>1 DEF Process
<1>5. Become(n, p) /\ node'[n] = p /\ OthersKept(n)
  BY <1>2 DEF AcquireGet, Become, LeaseInv, TypeOK, OthersKept
<1> HIDE DEF p
<1>6. ~Holds(p)
  BY <1>4 DEF Holds
<1>7. RequestOK(r)
  <2>1. node[n].now \in Nat /\ node[n].now <= clock /\ clock \in Nat
    BY <1>1 DEF Process, ProcessOK, LeaseInv, TypeOK
  <2>2. kv[node[n].ip].rev = 0 \/ kv[node[n].ip].expires <= node[n].now
    BY <1>1, <2>1, RecordType DEF AcquireGet, Leased, LeaseInv
  <2>3. kv[node[n].ip].rev = 0 \/ kv[node[n].ip].expires <= clock
    BY <1>1, <2>1, <2>2, RecordType DEF LeaseInv
  <2>4. kv[node[n].ip].rev <= revision
    BY <1>1 DEF LeaseInv, RecordsOK
  <2>5. r.expires <= clock + LeaseDuration
    BY <1>2, <2>1, LeaseAssumption DEF AcquireRequest
  <2>6. QED
    BY <1>2, <2>3, <2>4, <2>5 DEF RequestOK, AcquireRequest
<1>8. UNCHANGED <<clock, kv, revision, late, starts, faults>>
  BY DEF AcquireGet
<1>9. RequestOK(r)'
  BY <1>5, <1>6, <1>7, <1>8, KeptRequests DEF RequestsKept
<1>10. ProcessOK(n)'
  <2>1. node[n].renewal = NoRequest /\ ~node[n].renewing /\ node[n].now <= clock
    BY <1>1 DEF ProcessOK, AcquireGet
  <2>2. QED
    BY <1>1, <1>3, <1>4, <1>5, <1>8, <1>9, <2>1 DEF ProcessOK
<1>11. QED
  BY <1>4, <1>5, <1>6, <1>8, <1>10, ProcessStepKeeps DEF LeaseInv, TypeOK

LEMMA GiveUpKeeps ==
  ASSUME LeaseInv, NoteLapses, NEW n \in Node, AcquireLoses(n) \/ AcquireTimeout(n)
  PROVE  LeaseInv'
<1>1. node[n] \in Process /\ ProcessOK(n) /\ node[n].pc = "txn"
  BY ProcessType DEF LeaseInv, AcquireLoses, AcquireTimeout
<1>2. /\ node[n].req # NoRequest /\ node[n].renewal = NoRequest /\ ~node[n].renewing
      /\ node[n].ip \in Addresses /\ node[n].now <= clock
  BY <1>1 DEF ProcessOK
<1> DEFINE p == [node[n] EXCEPT !.pc = "get", !.ip = @ + 1, !.req = NoRequest]
<1>3. /\ p \in Process /\ p.pc = "get" /\ p.req = NoRequest
      /\ p.renewal = NoRequest /\ ~p.renewing /\ p.now <= clock
  <2>1. node[n].ip + 1 \in Addresses \cup {Pool + 1}
    BY <1>2, LeaseAssumption DEF Addresses
  <2>2. QED
    BY <1>1, <1>2, <2>1 DEF Process
<1>4. Become(n, p) /\ node'[n] = p
  BY DEF AcquireLoses, AcquireTimeout, Become, LeaseInv, TypeOK
<1> HIDE DEF p
<1>5. ~Holds(p)
  BY <1>3 DEF Holds
<1>6. /\ UNCHANGED <<clock, kv, revision, starts>> /\ faults' \in Nat
      /\ late' \subseteq late \cup Pending(node[n])
  BY <1>2 DEF AcquireLoses, AcquireTimeout, FaultAllowed, Pending, LeaseInv, TypeOK
<1>7. ProcessOK(n)'
  BY <1>3, <1>4, <1>6 DEF ProcessOK
<1>8. QED
  BY <1>3, <1>4, <1>5, <1>6, <1>7, ProcessStepKeeps DEF LeaseInv, TypeOK

(* Discovery finds its peers or ends the process.                           *)
LEMMA DiscoverKeeps ==
  ASSUME LeaseInv, NoteLapses, NEW n \in Node, Discover(n)
  PROVE  LeaseInv'
<1>1. UNCHANGED <<clock, kv, revision, starts, faults>>
  BY DEF Discover
<1>2. CASE Ends(n)
  BY <1>1, <1>2, EndsKeeps DEF LeaseInv, TypeOK
<1>3. CASE ~Ends(n)
  <2>1. node[n] \in Process /\ ProcessOK(n) /\ node[n].pc = "discover"
    BY ProcessType DEF LeaseInv, Discover
  <2>2. PICK s \in SUBSET Addresses :
          Become(n, [node[n] EXCEPT !.pc = "up", !.peers = s]) /\ late' = late
    BY <1>3 DEF Discover, OnePerUser, Found
  <2> DEFINE p == [node[n] EXCEPT !.pc = "up", !.peers = s]
  <2>3. /\ p \in Process /\ p.pc = "up" /\ p.req = node[n].req /\ p.now = node[n].now
        /\ p.renewal = node[n].renewal /\ p.renewing = node[n].renewing
        /\ p.lease = node[n].lease /\ p.until = node[n].until
    BY <2>1 DEF Process
  <2>4. Become(n, p) /\ node'[n] = p /\ OthersKept(n)
    BY <2>2 DEF Become, OthersKept, LeaseInv, TypeOK
  <2> HIDE DEF p
  <2>5. Holds(p) => Holds(node[n])
    BY <2>1, <2>3 DEF Holds
  <2>6. RequestsKept
    BY <1>1, <2>3, <2>4, <2>5, KeptRequests
  <2>7. ProcessOK(n)'
    <3>1. node[n].req = NoRequest
      BY <2>1 DEF ProcessOK
    <3>2. node[n].renewal # NoRequest => node[n].renewal \in Request
      BY <2>1 DEF Process
    <3>3. QED
      BY <1>1, <2>1, <2>3, <2>4, <2>6, <3>1, <3>2 DEF ProcessOK, RequestsKept
  <2>8. QED
    BY <1>1, <2>2, <2>3, <2>4, <2>5, <2>7, ProcessStepKeeps DEF LeaseInv, TypeOK
<1>4. QED
  BY <1>2, <1>3

-----------------------------------------------------------------------------
(* Renewal and release, up to their transactions                            *)

LEMMA NextDueType ==
  ASSUME TypeOK, NEW n \in Node, RenewDue(n)
  PROVE  NextDue(n) \in Nat
<1>1. node[n].due \in Nat /\ clock - node[n].due \in Nat
  BY ProcessType DEF TypeOK, Process, RenewDue
<1>2. PICK k \in Nat : k = (clock - node[n].due) \div Interval + 1
  <2>1. (clock - node[n].due) \div Interval \in Nat
    BY <1>1, IntervalType
  <2>2. QED
    BY <2>1
<1>3. Interval * k \in Nat
  BY IntervalType
<1>4. QED
  BY <1>1, <1>2, <1>3 DEF NextDue

(* The process's renewal is replaced by r or by none.                       *)
LEMMA RenewalStep ==
  ASSUME LeaseInv, NoteLapses, NEW n \in Node, NEW d \in Nat,
         NEW r \in Request \cup {NoRequest},
         Become(n, [node[n] EXCEPT !.due = d, !.renewal = r]),
         UNCHANGED <<clock, kv, revision, starts>>, faults' \in Nat,
         late' \subseteq late \cup Pending(node[n]),
         r # NoRequest => /\ node[n].renewing /\ r.kind = "renew" /\ r.from = n
                          /\ r.addr = node[n].lease /\ RequestOK(r)
  PROVE  LeaseInv'
<1>1. node[n] \in Process /\ ProcessOK(n)
  BY ProcessType DEF LeaseInv
<1> DEFINE p == [node[n] EXCEPT !.due = d, !.renewal = r]
<1>2. /\ p \in Process /\ p.pc = node[n].pc /\ p.req = node[n].req
      /\ p.now = node[n].now /\ p.renewal = r /\ p.renewing = node[n].renewing
      /\ p.lease = node[n].lease /\ p.until = node[n].until /\ p.ip = node[n].ip
  BY <1>1 DEF Process
<1>3. Become(n, p) /\ node'[n] = p /\ OthersKept(n)
  BY DEF Become, OthersKept, LeaseInv, TypeOK
<1> HIDE DEF p
<1>4. Holds(p) => Holds(node[n])
  BY <1>2 DEF Holds
<1>5. RequestsKept
  BY <1>2, <1>3, <1>4, KeptRequests
<1>6. ProcessOK(n)'
  <2>1. node[n].req # NoRequest => node[n].req \in Request /\ RequestOK(node[n].req)'
    <3>1. node[n].req # NoRequest => node[n].req \in Request /\ RequestOK(node[n].req)
      BY <1>1 DEF Process, ProcessOK
    <3>2. node'[n].req = node[n].req
      BY <1>2, <1>3
    <3>3. PICK q : q = node[n].req
      OBVIOUS
    <3>4. q # NoRequest => RequestOK(q)'
      BY <1>5, <3>1, <3>3 DEF RequestsKept
    <3>5. QED
      BY <3>1, <3>2, <3>3, <3>4
  <2>2. r # NoRequest => RequestOK(r)'
    BY <1>5 DEF RequestsKept
  <2>3. QED
    BY <1>1, <1>2, <1>3, <2>1, <2>2 DEF ProcessOK
<1>7. QED
  BY <1>2, <1>3, <1>4, <1>6, ProcessStepKeeps DEF LeaseInv, TypeOK

LEMMA RenewRequestOK ==
  ASSUME LeaseInv, NEW n \in Node, node[n].renewing,
         node[n].lease # NoAddress, kv[node[n].lease].rev # 0
  PROVE  LET r == RenewRequest(n, node[n].lease) IN
         /\ r \in Request /\ r # NoRequest /\ RequestOK(r)
         /\ r.kind = "renew" /\ r.from = n /\ r.addr = node[n].lease
<1> DEFINE a == node[n].lease
           r == RenewRequest(n, a)
<1>1. node[n] \in Process /\ ProcessOK(n)
  BY ProcessType DEF LeaseInv
<1>2. a \in Addresses /\ Holds(node[n])
  BY <1>1 DEF Process, ProcessOK, Holds
<1>3. /\ clock \in Nat /\ clock + LeaseDuration \in Nat /\ kv[a].rev \in Nat
      /\ kv[a].expires \in Nat
  BY <1>2, RecordType, LeaseAssumption DEF LeaseInv, TypeOK
<1>4. r \in Request
  BY <1>2, <1>3 DEF RenewRequest, Request
<1>5. /\ r.kind = "renew" /\ r.from = n /\ r.addr = a /\ r.rev = kv[a].rev
      /\ r.expires = clock + LeaseDuration
  BY DEF RenewRequest
<1>6. kv[a].rev <= revision /\ kv[a].expires <= clock + LeaseDuration
  BY <1>2 DEF LeaseInv, RecordsOK
<1>7. a \in lapsed \/ kv[a].owner = n
  BY <1>2 DEF LeaseInv, HolderOnRecord
<1> HIDE DEF r
<1>8. RequestOK(r)
  BY <1>3, <1>5, <1>6, <1>7 DEF RequestOK
<1>9. QED
  BY <1>4, <1>5, <1>8, NoRequestIsNone DEF r

LEMMA RenewalKeeps ==
  ASSUME LeaseInv, NoteLapses, NEW n \in Node,
         RenewGet(n) \/ RenewFails(n) \/ RenewTimeout(n)
  PROVE  LeaseInv'
<1>1. node[n] \in Process /\ ProcessOK(n)
  BY ProcessType DEF LeaseInv
<1>2. CASE RenewGet(n)
  <2>1. PICK d \in Nat : d = NextDue(n)
    BY <1>2, NextDueType DEF RenewGet, LeaseInv
  <2>2. PICK r : r = IF node[n].lease # NoAddress /\ kv[node[n].lease].rev # 0
                     THEN RenewRequest(n, node[n].lease) ELSE NoRequest
    OBVIOUS
  <2>3. Become(n, [node[n] EXCEPT !.due = d, !.renewal = r])
    BY <1>2, <2>1, <2>2 DEF RenewGet
  <2>4. node[n].renewing
    BY <1>2 DEF RenewGet, RenewDue
  <2>5. /\ r \in Request \cup {NoRequest}
        /\ r # NoRequest => /\ r.kind = "renew" /\ r.from = n
                            /\ r.addr = node[n].lease /\ RequestOK(r)
    BY <2>2, <2>4, RenewRequestOK
  <2>6. UNCHANGED <<clock, kv, revision, late, starts, faults>>
    BY <1>2 DEF RenewGet
  <2>7. QED
    BY <2>3, <2>4, <2>5, <2>6, RenewalStep DEF LeaseInv, TypeOK
<1>3. CASE RenewFails(n)
  <2>1. PICK d \in Nat : d = NextDue(n)
    BY <1>3, NextDueType DEF RenewFails, LeaseInv
  <2>2. node[n].renewal = NoRequest
    BY <1>3 DEF RenewFails, RenewDue
  <2>3. Become(n, [node[n] EXCEPT !.due = d, !.renewal = NoRequest])
    BY <1>1, <1>3, <2>1, <2>2 DEF RenewFails, Process, Become
  <2>4. UNCHANGED <<clock, kv, revision, late, starts>> /\ faults' \in Nat
    BY <1>3 DEF RenewFails, FaultAllowed, LeaseInv, TypeOK
  <2>5. QED
    BY <2>3, <2>4, RenewalStep
<1>4. CASE RenewTimeout(n)
  <2>1. PICK d \in Nat : d = node[n].due
    BY <1>1 DEF Process
  <2>2. Become(n, [node[n] EXCEPT !.due = d, !.renewal = NoRequest])
    BY <1>1, <1>4, <2>1 DEF RenewTimeout, Process, Become
  <2>3. UNCHANGED <<clock, kv, revision, starts>> /\ faults' \in Nat
    BY <1>4 DEF RenewTimeout, FaultAllowed, LeaseInv, TypeOK
  <2>4. late' \subseteq late \cup Pending(node[n])
    BY <1>4 DEF RenewTimeout, Pending
  <2>5. QED
    BY <2>2, <2>3, <2>4, RenewalStep
<1>5. QED
  BY <1>2, <1>3, <1>4

LEMMA StopKeeps ==
  ASSUME LeaseInv, NoteLapses, NEW n \in Node, Stop(n)
  PROVE  LeaseInv'
<1>1. node[n] \in Process /\ ProcessOK(n) /\ node[n].pc = "up" /\ clock \in Nat
  BY ProcessType DEF LeaseInv, TypeOK, Stop
<1> DEFINE p == [node[n] EXCEPT !.pc = "releaseGet", !.now = clock,
                                !.renewing = FALSE, !.renewal = NoRequest]
<1>2. /\ p \in Process /\ p.pc = "releaseGet" /\ p.req = node[n].req
      /\ p.now = clock /\ p.renewal = NoRequest /\ ~p.renewing
      /\ p.lease = node[n].lease /\ p.until = node[n].until
  BY <1>1 DEF Process
<1>3. Become(n, p) /\ node'[n] = p
  BY DEF Stop, Become, LeaseInv, TypeOK
<1>4. UNCHANGED <<clock, kv, revision, starts, faults>>
      /\ late' = late \cup Pending(node[n])
  BY DEF Stop
<1> HIDE DEF p
<1>5. Holds(p) => Holds(node[n])
  BY <1>1, <1>2 DEF Holds
<1>6. ProcessOK(n)'
  <2>1. node[n].req = NoRequest /\ p.now <= clock
    BY <1>1, <1>2 DEF ProcessOK
  <2>2. QED
    BY <1>2, <1>3, <1>4, <2>1 DEF ProcessOK
<1>7. QED
  BY <1>2, <1>3, <1>4, <1>5, <1>6, ProcessStepKeeps DEF LeaseInv, TypeOK

LEMMA ReleaseGetKeeps ==
  ASSUME LeaseInv, NoteLapses, NEW n \in Node, ReleaseGet(n)
  PROVE  LeaseInv'
<1>1. node[n] \in Process /\ ProcessOK(n) /\ node[n].pc = "releaseGet"
  BY ProcessType DEF LeaseInv, ReleaseGet
<1>2. UNCHANGED <<clock, kv, revision, starts, faults>>
  BY DEF ReleaseGet
<1>3. CASE Ends(n)
  BY <1>2, <1>3, EndsKeeps DEF LeaseInv, TypeOK
<1>4. CASE ~Ends(n)
  <2>0. PICK a : a = node[n].lease
    OBVIOUS
  <2>1. /\ a # NoAddress /\ kv[a].rev # 0 /\ late' = late
        /\ Become(n, [node[n] EXCEPT !.pc = "release", !.req = ReleaseRequest(n, a)])
    BY <1>4, <2>0 DEF ReleaseGet
  <2>2. a \in Addresses /\ Holds(node[n]) /\ kv[a].rev \in Nat
    BY <1>1, <2>0, <2>1, RecordType DEF Process, Holds, LeaseInv
  <2>3. PICK r \in Request : r = ReleaseRequest(n, a)
    BY <2>2 DEF ReleaseRequest, Request
  <2>4. /\ r # NoRequest /\ r.kind = "release" /\ r.from = n /\ r.addr = a
        /\ r.rev = kv[a].rev /\ r.expires = 0
    BY <2>3, NoRequestIsNone DEF ReleaseRequest
  <2> DEFINE p == [node[n] EXCEPT !.pc = "release", !.req = r]
  <2>5. /\ p \in Process /\ p.pc = "release" /\ p.req = r /\ p.now = node[n].now
        /\ p.renewal = node[n].renewal /\ p.renewing = node[n].renewing
    BY <1>1 DEF Process
  <2>6. Become(n, p) /\ node'[n] = p /\ OthersKept(n)
    BY <2>1, <2>3 DEF Become, OthersKept, LeaseInv, TypeOK
  <2> HIDE DEF p
  <2>7. ~Holds(p)
    BY <2>5 DEF Holds
  <2>8. RequestOK(r)'
    <3>1. NoneHolds(a)' \/ a \in lapsed
      <4>1. SUFFICES ASSUME a \notin lapsed, NEW m \in Node, Holds(node'[m]), node'[m].lease = a
                     PROVE  FALSE
        BY DEF NoneHolds
      <4>2. m # n /\ node[m] = node'[m]
        BY <2>6, <2>7, <4>1 DEF OthersKept
      <4>3. kv[a].owner = m /\ kv[a].owner = n
        BY <2>0, <2>2, <4>1, <4>2 DEF LeaseInv, HolderOnRecord
      <4>4. QED
        BY <4>2, <4>3
    <3>2. kv[a].rev <= revision /\ 0 <= clock + LeaseDuration /\ lapsed \subseteq lapsed'
      BY <2>2, LapsesGrow, LeaseAssumption DEF LeaseInv, RecordsOK, TypeOK
    <3>3. r.rev # 0
      BY <2>1, <2>4
    <3>4. QED
      BY <1>2, <2>4, <3>1, <3>2, <3>3 DEF RequestOK
  <2>9. ProcessOK(n)'
    <3>1. node[n].renewal = NoRequest /\ ~node[n].renewing /\ node[n].now <= clock
      BY <1>1 DEF ProcessOK
    <3>2. QED
      BY <1>2, <2>4, <2>5, <2>6, <2>8, <3>1 DEF ProcessOK
  <2>10. QED
    BY <1>2, <2>1, <2>5, <2>6, <2>7, <2>9, ProcessStepKeeps DEF LeaseInv, TypeOK
<1>5. QED
  BY <1>3, <1>4

-----------------------------------------------------------------------------
(* The steps of the store                                                   *)

LEMMA RecordsStayOK ==
  ASSUME LeaseInv, NEW q \in Request, RequestOK(q), Apply(q), clock' = clock
  PROVE  RecordsOK'
<1> SUFFICES ASSUME NEW a \in Addresses
             PROVE  kv'[a].rev <= revision' /\ kv'[a].expires <= clock + LeaseDuration
  BY DEF RecordsOK
<1>1. /\ q.addr \in Addresses /\ revision \in Nat /\ clock \in Nat
      /\ kv \in [Addresses -> Record \cup {Absent}]
      /\ kv[a].rev \in Nat /\ kv[a].expires \in Nat
      /\ kv[a].rev <= revision /\ kv[a].expires <= clock + LeaseDuration
      /\ q.expires <= clock + LeaseDuration
  BY RecordType DEF LeaseInv, TypeOK, Request, RecordsOK, RequestOK
<1>2. CASE ~Matches(q) \/ q.addr # a
  BY <1>1, <1>2 DEF Apply
<1>3. CASE Matches(q) /\ q.addr = a
  <2>1. kv'[a] = Written(q) /\ revision' = revision + 1
    BY <1>1, <1>3 DEF Apply
  <2>2. Written(q).rev <= revision + 1 /\ Written(q).expires <= clock + LeaseDuration
    BY <1>1, LeaseAssumption DEF Written, Absent
  <2>3. QED
    BY <2>1, <2>2
<1>4. QED
  BY <1>2, <1>3

(* A request of process n, or one that nobody waits for, is applied; n may  *)
(* thereby come to hold the address or extend its lease.                    *)
LEMMA StoreStepKeeps ==
  ASSUME LeaseInv, NoteLapses, NEW n \in Node, NEW p \in Process,
         NEW q \in Request, Become(n, p), Apply(q), RequestOK(q),
         UNCHANGED <<clock, starts, faults>>, late' \subseteq late,
         \/ Holds(p) => /\ Holds(node[n]) /\ p.lease = node[n].lease
                        /\ p.until = node[n].until
         \/ /\ Matches(q) /\ q.kind # "release" /\ q.from = n
            /\ p.lease = q.addr /\ p.until = q.expires
            /\ q.kind = "renew" => Holds(node[n]) /\ p.lease = node[n].lease,
         RequestsKept => ProcessOK(n)'
  PROVE  LeaseInv'
<1> USE DEF LeaseInv
<1>1. node' \in [Node -> Process] /\ node'[n] = p /\ OthersKept(n)
  BY DEF TypeOK, Become, OthersKept
<1>2. lapsed \subseteq lapsed' /\ lapsed' \subseteq Addresses
  BY LapsesGrow
<1>3. TypeOK'
  BY <1>1, <1>2, ApplyType DEF TypeOK
<1>4. RequestsKept
  <2> SUFFICES ASSUME NEW r \in Request, RequestOK(r)
               PROVE  RequestOK(r)'
    BY DEF RequestsKept
  <2>1. \A m \in Node : Holds(node'[m]) /\ (Matches(q) => node'[m].lease # q.addr)
          => Holds(node[m]) /\ node'[m].lease = node[m].lease
    BY <1>1 DEF OthersKept
  <2>2. CASE Matches(q)
    BY <1>2, <2>1, <2>2, RequestOvertaken
  <2>3. CASE ~Matches(q)
    <3>1. kv' = kv /\ revision' = revision /\ HoldersKept
      BY <2>1, <2>3 DEF Apply, HoldersKept
    <3>2. QED
      BY <1>2, <3>1, RequestKept DEF TypeOK
  <2>4. QED
    BY <2>2, <2>3
<1>5. \A m \in Node : ProcessOK(m)'
  BY <1>1, <1>4, OthersOK
<1>6. \A r \in late' : RequestOK(r)'
  BY <1>4 DEF RequestsKept, TypeOK
<1>7. UntilLive'
  BY <1>1, UntilStaysLive DEF TypeOK
<1>8. HolderOnRecord'
  <2> SUFFICES ASSUME NEW m \in Node, Holds(node'[m]), node'[m].lease \notin lapsed'
               PROVE  /\ kv'[node'[m].lease].owner = m
                      /\ kv'[node'[m].lease].expires >= node'[m].until
    BY DEF HolderOnRecord
  <2>1. CASE Holds(node[m]) /\ node'[m].lease = node[m].lease /\ node'[m].until = node[m].until
    BY <1>2, <2>1, HolderKeepsRecord
  <2>2. CASE /\ m = n /\ Matches(q) /\ q.kind # "release" /\ q.from = n
             /\ p.lease = q.addr /\ p.until = q.expires
    <3>1. kv'[q.addr] = Written(q) /\ q.expires \in Nat
      BY <2>2 DEF Apply, TypeOK, Request
    <3>2. Written(q).owner = n /\ Written(q).expires = q.expires
      BY <2>2 DEF Written
    <3>3. QED
      BY <1>1, <2>2, <3>1, <3>2
  <2>3. QED
    BY <1>1, <2>1, <2>2 DEF OthersKept
<1>9. RecordsOK'
  BY RecordsStayOK
<1>10. QED
  BY <1>3, <1>5, <1>6, <1>7, <1>8, <1>9

LEMMA AcquiredKeeps ==
  ASSUME LeaseInv, NoteLapses, NEW n \in Node, Acquired(n)
  PROVE  LeaseInv'
<1>1. node[n] \in Process /\ ProcessOK(n) /\ node[n].pc = "txn"
  BY ProcessType DEF LeaseInv, Acquired
<1>2. PICK q : q = node[n].req
  OBVIOUS
<1>3. q \in Request /\ q.kind = "acquire" /\ q.from = n /\ RequestOK(q)
  BY <1>1, <1>2 DEF ProcessOK, Process
<1>4. q.addr \in Addresses /\ q.expires \in Nat
  BY <1>3 DEF Request
<1>5. PICK d \in Nat : d = clock + Interval
  BY IntervalType DEF LeaseInv, TypeOK
<1> DEFINE p == [node[n] EXCEPT !.pc = "discover", !.lease = q.addr,
                                !.until = q.expires, !.req = NoRequest,
                                !.now = 0, !.ip = 1,
                                !.due = d, !.renewing = TRUE]
<1>6. 1 \in Addresses \cup {Pool + 1}
  BY LeaseAssumption DEF Addresses
<1>7. /\ p \in Process /\ p.pc = "discover" /\ p.req = NoRequest /\ p.now = 0
      /\ p.renewal = node[n].renewal /\ p.renewing
      /\ p.lease = q.addr /\ p.until = q.expires
  BY <1>1, <1>4, <1>6 DEF Process
<1>8. Become(n, p) /\ node'[n] = p
  BY <1>2, <1>5 DEF Acquired, Become, LeaseInv, TypeOK
<1> HIDE DEF p
<1>9. Matches(q) /\ Apply(q) /\ UNCHANGED <<clock, late, starts, faults>>
  BY <1>2 DEF Acquired
<1>10. ProcessOK(n)'
  <2>1. node[n].renewal = NoRequest /\ clock \in Nat
    BY <1>1 DEF ProcessOK, LeaseInv, TypeOK
  <2>2. QED
    BY <1>7, <1>8, <1>9, <2>1 DEF ProcessOK
<1>11. QED
  BY <1>3, <1>7, <1>8, <1>9, <1>10, StoreStepKeeps

LEMMA RenewedKeeps ==
  ASSUME LeaseInv, NoteLapses, NEW n \in Node, Renewed(n)
  PROVE  LeaseInv'
<1>1. node[n] \in Process /\ ProcessOK(n) /\ node[n].renewal # NoRequest
  BY ProcessType DEF LeaseInv, Renewed
<1>2. PICK q : q = node[n].renewal
  OBVIOUS
<1>3. /\ q \in Request /\ q.kind = "renew" /\ q.from = n /\ RequestOK(q)
      /\ q.addr = node[n].lease /\ node[n].renewing
  BY <1>1, <1>2 DEF ProcessOK, Process
<1>4. q.addr \in Addresses /\ q.expires \in Nat
  BY <1>3 DEF Request
<1>5. PICK u \in Nat : u = IF Matches(q) THEN q.expires ELSE node[n].until
  BY <1>1, <1>4 DEF Process
<1> DEFINE p == [node[n] EXCEPT !.renewal = NoRequest, !.until = u]
<1>6. /\ p \in Process /\ p.pc = node[n].pc /\ p.req = node[n].req
      /\ p.now = node[n].now /\ p.renewal = NoRequest /\ p.renewing = node[n].renewing
      /\ p.lease = node[n].lease /\ p.until = u
  BY <1>1 DEF Process
<1>7. Become(n, p) /\ node'[n] = p
  BY <1>1, <1>2, <1>5 DEF Renewed, Become, LeaseInv, TypeOK, Process
<1> HIDE DEF p
<1>8. Apply(q) /\ UNCHANGED <<clock, late, starts, faults>>
  BY <1>2 DEF Renewed
<1>9. Holds(node[n])
  BY <1>1, <1>3, <1>4 DEF ProcessOK, Holds, Addresses, NoAddress
<1>10. ProcessOK(n)'
  <2>1. node[n].req = NoRequest
    BY <1>1, <1>3 DEF ProcessOK
  <2>2. QED
    BY <1>1, <1>3, <1>6, <1>7, <1>8, <2>1 DEF ProcessOK
<1>11. CASE Matches(q)
  BY <1>3, <1>5, <1>6, <1>7, <1>8, <1>9, <1>10, <1>11, StoreStepKeeps
<1>12. CASE ~Matches(q)
  BY <1>3, <1>5, <1>6, <1>7, <1>8, <1>9, <1>10, <1>12, StoreStepKeeps
<1>13. QED
  BY <1>11, <1>12

LEMMA ReleasedKeeps ==
  ASSUME LeaseInv, NoteLapses, NEW n \in Node, Released(n)
  PROVE  LeaseInv'
<1>1. node[n] \in Process /\ ProcessOK(n) /\ node[n].pc = "release"
  BY ProcessType DEF LeaseInv, Released
<1>2. PICK q : q = node[n].req
  OBVIOUS
<1>3. q \in Request /\ RequestOK(q)
  BY <1>1, <1>2 DEF ProcessOK, Process
<1>4. Become(n, Down) /\ Apply(q) /\ UNCHANGED <<clock, late, starts, faults>>
  BY <1>2 DEF Released
<1>5. node'[n] = Down /\ ~Holds(Down)
  BY <1>4, DownIsProcess DEF Become, Holds, LeaseInv, TypeOK
<1>6. ProcessOK(n)'
  BY <1>4, <1>5, DownIsProcess DEF ProcessOK, LeaseInv, TypeOK
<1>7. QED
  BY <1>3, <1>4, <1>5, <1>6, DownIsProcess, StoreStepKeeps

LEMMA UnchangedProcessOK ==
  ASSUME LeaseInv, NEW n \in Node, node'[n] = node[n], RequestsKept,
         clock' \in Nat, clock' >= clock
  PROVE  ProcessOK(n)'
<1>1. node[n] \in Process /\ ProcessOK(n) /\ clock \in Nat
  BY ProcessType DEF LeaseInv, TypeOK
<1>2. /\ node[n].req # NoRequest => node[n].req \in Request
      /\ node[n].renewal # NoRequest => node[n].renewal \in Request
      /\ node[n].now \in Nat
  BY <1>1 DEF Process
<1>3. node[n].now <= clock'
  BY <1>1, <1>2 DEF ProcessOK
<1>4. QED
  BY <1>1, <1>2, <1>3 DEF ProcessOK, RequestsKept

LEMMA ApplyLateKeeps ==
  ASSUME LeaseInv, NoteLapses, NEW r \in late, ApplyLate(r)
  PROVE  LeaseInv'
<1>1. r \in Request /\ RequestOK(r) /\ r.from \in Node
  BY DEF LeaseInv, TypeOK, Request
<1>2. PICK n \in Node : n = r.from
  BY <1>1
<1>3. Become(n, node[n]) /\ node' = node /\ node[n] \in Process
  BY ProcessType DEF ApplyLate, Become, LeaseInv, TypeOK
<1>4. Apply(r) /\ UNCHANGED <<clock, starts, faults>> /\ late' \subseteq late
  BY DEF ApplyLate
<1>5. RequestsKept => ProcessOK(n)'
  BY <1>3, <1>4, UnchangedProcessOK DEF LeaseInv, TypeOK
<1>6. QED
  BY <1>1, <1>3, <1>4, <1>5, StoreStepKeeps

LEMMA TickKeeps ==
  ASSUME LeaseInv, NoteLapses, Tick
  PROVE  LeaseInv'
<1> USE DEF LeaseInv
<1>1. /\ clock \in Nat /\ clock' \in Nat /\ clock' >= clock
      /\ UNCHANGED <<kv, revision, node, late, starts, faults>>
  BY DEF Tick, TypeOK
<1>2. lapsed \subseteq lapsed' /\ lapsed' \subseteq Addresses
  BY LapsesGrow
<1>3. TypeOK'
  BY <1>1, <1>2 DEF TypeOK
<1>4. RequestsKept
  BY <1>1, <1>2, RequestKept DEF RequestsKept, HoldersKept
<1>5. \A n \in Node : ProcessOK(n)'
  BY <1>1, <1>4, UnchangedProcessOK
<1>6. \A r \in late' : RequestOK(r)'
  BY <1>1, <1>4 DEF RequestsKept, TypeOK
<1>7. UntilLive'
  BY <1>1, UntilStaysLive DEF TypeOK
<1>8. HolderOnRecord'
  BY <1>1, <1>2 DEF HolderOnRecord
<1>9. RecordsOK'
  <2> SUFFICES ASSUME NEW a \in Addresses
               PROVE  kv[a].rev <= revision /\ kv[a].expires <= clock' + LeaseDuration
    BY <1>1 DEF RecordsOK
  <2>1. kv[a].expires \in Nat /\ kv[a].rev <= revision /\ kv[a].expires <= clock + LeaseDuration
    BY RecordType DEF RecordsOK
  <2>2. QED
    BY <1>1, <2>1, LeaseAssumption
<1>10. QED
  BY <1>3, <1>5, <1>6, <1>7, <1>8, <1>9

-----------------------------------------------------------------------------
LEMMA NodeStepKeeps ==
  ASSUME LeaseInv, NoteLapses, NEW n \in Node, NodeStep(n)
  PROVE  LeaseInv'
<1>1. CASE Start(n)
  BY <1>1, StartKeeps
<1>2. CASE AcquireStep(n)
  <2>1. CASE AcquireExhausted(n)
    BY <2>1, EndsKeeps DEF AcquireExhausted, LeaseInv, TypeOK
  <2>2. QED
    BY <1>2, <2>1, AcquireSkipsKeeps, AcquireGetKeeps, AcquiredKeeps, GiveUpKeeps
       DEF AcquireStep
<1>3. CASE Discover(n)
  BY <1>3, DiscoverKeeps
<1>4. CASE RenewStep(n) \/ RenewFails(n) \/ RenewTimeout(n)
  BY <1>4, RenewalKeeps, RenewedKeeps DEF RenewStep
<1>5. CASE ReleaseStep(n)
  BY <1>5, ReleaseGetKeeps, ReleasedKeeps DEF ReleaseStep
<1>6. CASE Stop(n)
  BY <1>6, StopKeeps
<1>7. CASE StopEarly(n) \/ Dies(n)
  BY <1>7, EndsKeeps DEF StopEarly, Dies, FaultAllowed, LeaseInv, TypeOK
<1>8. CASE AcquireTimeout(n)
  BY <1>8, GiveUpKeeps
<1>9. QED
  BY <1>1, <1>2, <1>3, <1>4, <1>5, <1>6, <1>7, <1>8 DEF NodeStep

LEMMA InitLeaseInv == Init => LeaseInv
<1> SUFFICES ASSUME Init PROVE LeaseInv
  OBVIOUS
<1>1. TypeOK
  BY DownIsProcess DEF Init, TypeOK
<1>2. \A n \in Node : node[n] = Down /\ ~Holds(node[n])
  BY DownIsProcess DEF Init, Holds
<1>3. UntilLive /\ HolderOnRecord
  BY <1>2 DEF UntilLive, HolderOnRecord
<1>4. RecordsOK
  <2> SUFFICES ASSUME NEW a \in Addresses
               PROVE  kv[a].rev <= revision /\ kv[a].expires <= clock + LeaseDuration
    BY DEF RecordsOK
  <2>1. kv[a].rev = 0 /\ kv[a].expires = 0 /\ clock = 0 /\ revision = 0
    BY DEF Init, Absent
  <2>2. QED
    BY <2>1, LeaseAssumption
<1>5. \A n \in Node : ProcessOK(n)
  BY <1>1, <1>2, DownIsProcess DEF ProcessOK, Init
<1>6. late = {}
  BY DEF Init
<1>7. QED
  BY <1>1, <1>3, <1>4, <1>5, <1>6 DEF LeaseInv

LEMMA NextLeaseInv == LeaseInv /\ [Next]_vars => LeaseInv'
<1> SUFFICES ASSUME LeaseInv, [Next]_vars PROVE LeaseInv'
  OBVIOUS
<1>1. CASE UNCHANGED vars
  <2>1. UNCHANGED <<clock, kv, revision, node, late, starts, faults, lapsed>>
    BY <1>1 DEF vars
  <2>2. \A r \in Request : RequestOK(r) => RequestOK(r)'
    BY <2>1 DEF RequestOK, Matches, NoneHolds
  <2>3. \A n \in Node : ProcessOK(n)'
    BY <2>1, <2>2, UnchangedProcessOK DEF RequestsKept, LeaseInv, TypeOK
  <2>4. \A r \in late' : RequestOK(r)'
    BY <2>1, <2>2 DEF LeaseInv, TypeOK
  <2>5. TypeOK' /\ RecordsOK' /\ UntilLive' /\ HolderOnRecord'
    BY <2>1 DEF LeaseInv, TypeOK, RecordsOK, UntilLive, HolderOnRecord
  <2>6. QED
    BY <2>3, <2>4, <2>5 DEF LeaseInv
<1>2. CASE Next
  BY <1>2, NodeStepKeeps, ApplyLateKeeps, TickKeeps DEF Next
<1>3. QED
  BY <1>1, <1>2

(* The inductive invariant: each node that counts on an address whose lease *)
(* never lapsed is on the record of that address, and a request on its way  *)
(* that still matches its record does that node no harm.                    *)
THEOREM LeaseInvariant == Spec => []LeaseInv
<1>1. QED
  BY InitLeaseInv, NextLeaseInv, PTL DEF Spec

(* Types: processes, records and requests have the fields of the code.      *)
THEOREM LeaseTypes == Spec => []TypeOK
<1>1. LeaseInv => TypeOK
  BY DEF LeaseInv
<1>2. QED
  BY <1>1, LeaseInvariant, PTL

(* HolderOnRecord for any pool and any number of nodes and failures.        *)
THEOREM LeaseHeld == Spec => []HolderOnRecord
<1>1. LeaseInv => HolderOnRecord
  BY DEF LeaseInv
<1>2. QED
  BY <1>1, LeaseInvariant, PTL

(* An address has one holder unless a lease of it has lapsed.               *)
THEOREM LeaseExclusive == Spec => []OneHolderUnlessLapsed
<1>1. LeaseInv => OneHolderUnlessLapsed
  BY DEF LeaseInv, HolderOnRecord, OneHolderUnlessLapsed
<1>2. QED
  BY <1>1, LeaseInvariant, PTL

-----------------------------------------------------------------------------
(* Whatever a step does to the store it does by a request of the invariant. *)

LEMMA StepAppliesRequest ==
  ASSUME LeaseInv, Next
  PROVE  kv' = kv \/ \E q \in Request : RequestOK(q) /\ Apply(q)
<1>1. ASSUME NEW n \in Node, Acquired(n) \/ Released(n)
      PROVE  \E q \in Request : RequestOK(q) /\ Apply(q)
  <2>1. node[n] \in Process /\ ProcessOK(n) /\ node[n].pc \in {"txn", "release"}
    BY <1>1, ProcessType DEF LeaseInv, Acquired, Released
  <2>2. node[n].req \in Request /\ RequestOK(node[n].req)
    BY <2>1 DEF ProcessOK, Process
  <2>3. QED
    BY <1>1, <2>2 DEF Acquired, Released
<1>2. ASSUME NEW n \in Node, Renewed(n)
      PROVE  \E q \in Request : RequestOK(q) /\ Apply(q)
  <2>1. node[n] \in Process /\ ProcessOK(n)
    BY ProcessType DEF LeaseInv
  <2>2. node[n].renewal \in Request /\ RequestOK(node[n].renewal)
    BY <1>2, <2>1 DEF ProcessOK, Process, Renewed
  <2>3. QED
    BY <1>2, <2>2 DEF Renewed
<1>3. ASSUME NEW r \in late, ApplyLate(r)
      PROVE  \E q \in Request : RequestOK(q) /\ Apply(q)
  BY <1>3 DEF ApplyLate, LeaseInv, TypeOK
<1>4. ASSUME NEW n \in Node, NodeStep(n), ~Acquired(n), ~Released(n), ~Renewed(n)
      PROVE  kv' = kv
  BY <1>4 DEF NodeStep, AcquireStep, ReleaseStep, RenewStep, AcquireSkips,
     AcquireGet, AcquireExhausted, AcquireLoses, Discover, RenewGet, ReleaseGet,
     Start, Stop, StopEarly, Dies, AcquireTimeout, RenewFails, RenewTimeout
<1>5. QED
  BY <1>1, <1>2, <1>3, <1>4 DEF Next, Tick

LEMMA LiveRecordStays ==
  ASSUME LeaseInv, NEW q \in Request, RequestOK(q), Apply(q), NEW a \in Addresses,
         Live(a), kv'[a].rev # 0, a \notin lapsed
  PROVE  kv'[a].owner = kv[a].owner
<1>1. /\ kv \in [Addresses -> Record \cup {Absent}] /\ clock \in Nat
      /\ kv[a].expires \in Nat /\ kv[a].rev # 0 /\ kv[a].expires > clock
  BY RecordType DEF LeaseInv, TypeOK, Live
<1>2. CASE ~Matches(q) \/ q.addr # a
  BY <1>1, <1>2 DEF Apply
<1>3. CASE Matches(q) /\ q.addr = a
  <2>1. kv'[a] = Written(q)
    BY <1>1, <1>3 DEF Apply
  <2>2. q.rev # 0 /\ ~(kv[a].expires <= clock)
    BY <1>1, <1>3 DEF Matches
  <2>3. q.kind # "acquire"
    BY <1>3, <2>2 DEF RequestOK
  <2>4. CASE q.kind = "renew"
    BY <1>3, <2>1, <2>4 DEF RequestOK, Written
  <2>5. CASE q.kind = "release"
    BY <2>1, <2>5 DEF Written, Absent
  <2>6. QED
    BY <2>3, <2>4, <2>5 DEF Request
<1>4. QED
  BY <1>2, <1>3

(* A live record passes to nobody else where no lease has lapsed.           *)
THEOREM LiveLeaseKept == Spec => NoLiveTakeover
<1> DEFINE Kept == \A a \in Addresses :
             /\ Live(a) /\ kv'[a].rev # 0 /\ a \notin lapsed
             => kv'[a].owner = kv[a].owner
<1>1. LeaseInv /\ [Next]_vars => [Kept]_vars
  <2>1. SUFFICES ASSUME LeaseInv, Next PROVE Kept
    OBVIOUS
  <2>2. QED
    BY <2>1, StepAppliesRequest, LiveRecordStays
<1>2. QED
  BY <1>1, LeaseInvariant, PTL DEF Spec, NoLiveTakeover

-----------------------------------------------------------------------------
(* In time                                                                  *)

(* While nothing fails and nothing takes longer than it may: an acquire is  *)
(* applied within ScanTime of the moment its expiry counts from; a renewal  *)
(* is asked for in the minute it is due, and applied in that minute to the  *)
(* record it read, for no request that nobody waits for still matches that  *)
(* record; whatever comes, StopTime of the lease is left for a release.     *)
RenewsInTime(n) == LET p == node[n] IN
  /\ p.pc \in {"get", "txn"} => clock <= p.now + ScanTime
  /\ p.pc = "txn" => p.req.expires = p.now + LeaseDuration
  /\ p.pc = "releaseGet" /\ p.lease # NoAddress =>
       clock <= p.now + StopTime /\ p.until > p.now + StopTime
  /\ p.pc \in {"discover", "up"} /\ p.lease # NoAddress =>
       /\ p.renewing
       /\ \/ /\ p.renewal = NoRequest
             /\ clock <= p.due /\ p.due + LeaseDuration <= p.until + Interval + ScanTime
          \/ /\ p.renewal # NoRequest /\ Matches(p.renewal)
             /\ p.renewal.expires = clock + LeaseDuration
             /\ p.due = clock + Interval /\ p.until > clock + StopTime
       /\ \A r \in late : r.kind = "renew" /\ r.from = n /\ r.addr = p.lease => ~Matches(r)

InTime == faults = 0 => lapsed = {} /\ \A n \in Node : RenewsInTime(n)

(* The lease outlasts a scan, an interval and the way to the release.       *)
LeaseOutlasts == ScanTime + Interval + StopTime < LeaseDuration

LEMMA PendingIsOwn ==
  ASSUME LeaseInv, NEW n \in Node, NEW r \in Pending(node[n])
  PROVE  r.from = n
BY ProcessType DEF LeaseInv, ProcessOK, Pending

(* What a store does with a request leaves the other holders' records.      *)
LEMMA OthersRecordsStay ==
  ASSUME LeaseInv, lapsed = {}, NEW q \in Request, RequestOK(q), Apply(q),
         NEW m \in Node, Holds(node[m]),
         ~(Matches(q) /\ q.kind = "renew" /\ q.from = m /\ q.addr = node[m].lease)
  PROVE  kv'[node[m].lease] = kv[node[m].lease]
<1> DEFINE a == node[m].lease
<1>1. a \in Addresses
  BY ProcessType DEF LeaseInv, Process, Holds
<1>2. ~(Matches(q) /\ q.addr = a)
  BY HolderKeepsRecord
<1>3. QED
  BY <1>1, <1>2 DEF Apply, LeaseInv, TypeOK

LEMMA OthersInTime ==
  ASSUME LeaseInv, NEW m \in Node, RenewsInTime(m), node'[m] = node[m], clock' = clock,
         Holds(node[m]) => kv'[node[m].lease] = kv[node[m].lease],
         \A r \in late' \ late : r.from # m
  PROVE  RenewsInTime(m)'
<1> DEFINE p == node[m]
<1>1. p \in Process /\ ProcessOK(m)
  BY ProcessType DEF LeaseInv
<1>2. CASE p.pc \in {"discover", "up"} /\ p.lease # NoAddress
  <2>1. /\ Holds(p) /\ kv'[p.lease] = kv[p.lease]
        /\ p.renewal # NoRequest => p.renewal.addr = p.lease
    BY <1>1, <1>2 DEF Holds, ProcessOK
  <2>2. p.renewal # NoRequest /\ kv[p.renewal.addr].rev = p.renewal.rev
          => kv'[p.renewal.addr].rev = p.renewal.rev
    BY <2>1
  <2>3. \A r \in late' : r.kind = "renew" /\ r.from = m /\ r.addr = p.lease
          => r \in late /\ kv'[r.addr] = kv[r.addr]
    BY <2>1
  <2>4. QED
    BY <1>2, <2>2, <2>3 DEF RenewsInTime, Matches
<1>3. CASE ~(p.pc \in {"discover", "up"} /\ p.lease # NoAddress)
  BY <1>3 DEF RenewsInTime
<1>4. QED
  BY <1>2, <1>3

(* A process that is not, or no longer, one that counts on renewals.        *)
LEMMA OutsideInTime ==
  ASSUME NEW n \in Node, NEW p \in Process, node'[n] = p, clock' = clock,
         \/ p.pc \in {"down", "release"}
         \/ p.pc = "get" /\ clock <= p.now + ScanTime
         \/ /\ p.pc = "txn" /\ clock <= p.now + ScanTime
            /\ p.req.expires = p.now + LeaseDuration
         \/ /\ p.pc = "releaseGet" /\ clock <= p.now + StopTime
            /\ p.lease # NoAddress => p.until > p.now + StopTime
         \/ p.lease = NoAddress /\ p.pc \in {"discover", "up"}
  PROVE  RenewsInTime(n)'
BY DEF RenewsInTime

LEMMA DownInTime ==
  ASSUME LeaseInv, NEW n \in Node, Become(n, Down), clock' = clock
  PROVE  RenewsInTime(n)'
<1>1. node'[n] = Down
  BY DEF Become, LeaseInv, TypeOK
<1>2. QED
  BY <1>1, DownIsProcess, OutsideInTime

LEMMA StartInTime ==
  ASSUME LeaseInv, NEW n \in Node, Start(n)
  PROVE  RenewsInTime(n)'
<1> DEFINE c == IF n \in Static THEN "discover" ELSE "get"
           b == n \in Static
<1>1. /\ Become(n, [Down EXCEPT !.now = clock, !.pc = c, !.renewing = b])
      /\ c \in {"discover", "get"} /\ b \in BOOLEAN /\ clock' = clock
  BY DEF Start
<1> HIDE DEF c, b
<1> DEFINE p == [Down EXCEPT !.now = clock, !.pc = c, !.renewing = b]
<1>2. p \in Process /\ p.pc = c /\ p.now = clock /\ p.lease = NoAddress
  <2>1. Down \in Process /\ Down.lease = NoAddress /\ clock \in Nat
    BY DownIsProcess DEF Down, LeaseInv, TypeOK
  <2>2. QED
    BY <1>1, <2>1 DEF Process
<1>3. node'[n] = p
  BY <1>1 DEF Become, LeaseInv, TypeOK
<1> HIDE DEF p
<1>4. clock <= p.now + ScanTime
  BY <1>2, LeaseAssumption DEF LeaseInv, TypeOK
<1>5. QED
  BY <1>1, <1>2, <1>3, <1>4, OutsideInTime

LEMMA ScanInTime ==
  ASSUME LeaseInv, TypeOK', NEW n \in Node, RenewsInTime(n),
         AcquireSkips(n) \/ AcquireGet(n) \/ AcquireLoses(n)
  PROVE  RenewsInTime(n)'
<1>1. node[n] \in Process /\ clock' = clock /\ clock <= node[n].now + ScanTime
  BY ProcessType
     DEF LeaseInv, AcquireSkips, AcquireGet, AcquireLoses, RenewsInTime
<1>2. node \in [Node -> Process] /\ node' \in [Node -> Process]
  BY DEF LeaseInv, TypeOK
<1>3. CASE AcquireSkips(n) \/ AcquireLoses(n)
  <2>1. node'[n].pc = "get" /\ node'[n].now = node[n].now
    <3>1. PICK i : i = node[n].ip + 1
      OBVIOUS
    <3>2. CASE AcquireSkips(n)
      <4>1. node' = [node EXCEPT ![n] = [node[n] EXCEPT !.ip = i]] /\ node[n].pc = "get"
        BY <3>1, <3>2 DEF AcquireSkips, Become
      <4>2. QED
        BY <1>1, <1>2, <4>1 DEF Process
    <3>3. CASE AcquireLoses(n)
      <4>1. node' = [node EXCEPT ![n] = [node[n] EXCEPT !.pc = "get", !.ip = i, !.req = NoRequest]]
        BY <3>1, <3>3 DEF AcquireLoses, Become
      <4>2. QED
        BY <1>1, <1>2, <4>1 DEF Process
    <3>4. QED
      BY <1>3, <3>2, <3>3
  <2>2. QED
    BY <1>1, <1>2, <2>1, OutsideInTime
<1>4. CASE AcquireGet(n)
  <2>1. PICK r : r = AcquireRequest(n, node[n].ip)
    OBVIOUS
  <2>2. r.expires = node[n].now + LeaseDuration
    BY <2>1 DEF AcquireRequest
  <2>3. node' = [node EXCEPT ![n] = [node[n] EXCEPT !.pc = "txn", !.req = r]]
    BY <1>4, <2>1 DEF AcquireGet, Become
  <2>4. /\ node'[n].pc = "txn" /\ node'[n].now = node[n].now /\ node'[n].req = r
    BY <1>1, <1>2, <2>3 DEF Process
  <2>5. QED
    BY <1>1, <1>2, <2>2, <2>4, OutsideInTime
<1>5. QED
  BY <1>3, <1>4

(* The record an acquire or a renewal has just written matches nothing that *)
(* is on its way.                                                           *)
LEMMA JustWritten ==
  ASSUME LeaseInv, NEW q \in Request, Matches(q), Apply(q), late' = late,
         q.kind # "release", NEW r \in late', r.addr = q.addr
  PROVE  ~Matches(r)'
<1>1. kv' = [kv EXCEPT ![q.addr] = Written(q)] /\ q.addr \in Addresses
  BY DEF Apply, Request
<1>2. kv'[q.addr].rev = revision + 1
  BY <1>1 DEF Written, LeaseInv, TypeOK
<1>3. r.rev <= revision /\ r.rev \in Nat /\ revision \in Nat
  BY DEF LeaseInv, TypeOK, RequestOK, Request
<1>4. QED
  BY <1>2, <1>3 DEF Matches

LEMMA AcquiredInTime ==
  ASSUME LeaseInv, TypeOK', NEW n \in Node, RenewsInTime(n), Acquired(n)
  PROVE  RenewsInTime(n)'
<1> DEFINE q == node[n].req
<1>1. /\ node[n] \in Process /\ ProcessOK(n) /\ node[n].pc = "txn" /\ Matches(q) /\ Apply(q)
      /\ UNCHANGED <<clock, late>> /\ clock \in Nat /\ node \in [Node -> Process]
  BY ProcessType DEF Acquired, LeaseInv, TypeOK
<1>2. q \in Request /\ q.kind = "acquire"
  BY <1>1 DEF ProcessOK, Process, Request
<1>3. /\ q.addr \in Addresses /\ node[n].renewal = NoRequest
      /\ q.expires = node[n].now + LeaseDuration /\ clock <= node[n].now + ScanTime
  BY <1>1, <1>2 DEF RenewsInTime, Request, ProcessOK
<1>4. PICK d \in Nat : d = clock + Interval
  BY <1>1, IntervalType
<1>5. node' = [node EXCEPT ![n] = [node[n] EXCEPT !.pc = "discover", !.lease = q.addr,
                  !.until = q.expires, !.req = NoRequest, !.now = 0, !.ip = 1,
                  !.due = d, !.renewing = TRUE]]
  BY <1>4 DEF Acquired, Become
<1>6. /\ node'[n].pc = "discover" /\ node'[n].lease = q.addr /\ node'[n].until = q.expires
      /\ node'[n].due = d /\ node'[n].renewing /\ node'[n].renewal = NoRequest
  BY <1>1, <1>3, <1>5 DEF Process
<1>7. clock <= d /\ d + LeaseDuration <= q.expires + Interval + ScanTime
  <2>1. node[n].now \in Nat
    BY <1>1 DEF Process
  <2>2. QED
    BY <1>1, <1>3, <1>4, <2>1, IntervalType, LeaseAssumption
<1>8. \A r \in late' : r.addr = q.addr => ~Matches(r)'
  BY <1>1, <1>2, JustWritten
<1> HIDE DEF q
<1>9. QED
  BY <1>1, <1>6, <1>7, <1>8 DEF RenewsInTime

LEMMA DiscoverInTime ==
  ASSUME LeaseInv, NEW n \in Node, RenewsInTime(n), Discover(n)
  PROVE  RenewsInTime(n)'
<1>1. node[n] \in Process /\ node \in [Node -> Process] /\ node[n].pc = "discover"
      /\ UNCHANGED <<clock, kv>>
  BY ProcessType DEF Discover, LeaseInv, TypeOK
<1>2. CASE Become(n, Down)
  BY <1>1, <1>2, DownInTime
<1>3. CASE \E s : Become(n, [node[n] EXCEPT !.pc = "up", !.peers = s]) /\ UNCHANGED late
  <2>1. /\ node'[n].pc = "up" /\ late' = late
        /\ \A f \in {"lease", "until", "due", "renewing", "renewal"} : node'[n][f] = node[n][f]
    BY <1>1, <1>3 DEF Become, Process
  <2>2. QED
    BY <1>1, <2>1 DEF RenewsInTime, Matches
<1>4. QED
  BY <1>2, <1>3, Zenon DEF Discover, Ends

LEMMA RenewGetInTime ==
  ASSUME LeaseOutlasts, LeaseInv, lapsed = {}, NEW n \in Node, RenewsInTime(n), RenewGet(n)
  PROVE  RenewsInTime(n)'
<1> DEFINE a == node[n].lease
<1>1. /\ node[n] \in Process /\ ProcessOK(n) /\ node \in [Node -> Process]
      /\ clock \in Nat /\ UNCHANGED <<clock, kv, late>>
      /\ node[n].renewing /\ node[n].renewal = NoRequest /\ clock >= node[n].due
  BY ProcessType DEF LeaseInv, TypeOK, RenewGet, RenewDue
<1>2. node[n].pc \in {"discover", "up"}
  BY <1>1 DEF ProcessOK
<1>3. PICK d : d = NextDue(n)
  OBVIOUS
<1>4. PICK r : r = IF a # NoAddress /\ kv[a].rev # 0 THEN RenewRequest(n, a) ELSE NoRequest
  OBVIOUS
<1>5. node' = [node EXCEPT ![n] = [node[n] EXCEPT !.due = d, !.renewal = r]]
  BY <1>3, <1>4 DEF RenewGet, Become
<1>6. /\ node'[n].due = d /\ node'[n].renewal = r
      /\ \A f \in {"pc", "lease", "until", "renewing"} : node'[n][f] = node[n][f]
  BY <1>1, <1>5 DEF Process
<1>7. CASE a = NoAddress
  BY <1>2, <1>6, <1>7 DEF RenewsInTime
<1>8. CASE a # NoAddress
  <2>1. a \in Addresses /\ Holds(node[n])
    BY <1>1, <1>2, <1>8 DEF Process, Holds
  <2>2. /\ clock <= node[n].due
        /\ node[n].due + LeaseDuration <= node[n].until + Interval + ScanTime
        /\ \A q \in late : q.kind = "renew" /\ q.from = n /\ q.addr = a => ~Matches(q)
    BY <1>1, <1>2, <1>8 DEF RenewsInTime
  <2>3. node[n].until > clock + StopTime /\ kv[a].rev # 0
    <3>1. kv[a].rev # 0
      BY <2>1, RecordType DEF LeaseInv, UntilLive, HolderOnRecord
    <3>2. node[n].until \in Nat /\ node[n].due \in Nat
      BY <1>1 DEF Process
    <3>3. node[n].until > clock + StopTime
      BY <1>1, <2>2, <3>2, IntervalType, LeaseAssumption DEF LeaseOutlasts
    <3>4. QED
      BY <3>1, <3>3
  <2>4. r = RenewRequest(n, a) /\ r # NoRequest
    BY <1>1, <1>4, <1>8, <2>3, RenewRequestOK
  <2>5. r.expires = clock + LeaseDuration /\ r.addr = a /\ r.rev = kv[a].rev
    BY <2>4 DEF RenewRequest
  <2>6. d = clock + Interval
    <3>1. node[n].due = clock
      BY <1>1, <2>2 DEF Process
    <3>2. (clock - node[n].due) \div Interval + 1 = 1
      <4>1. clock - node[n].due = 0
        BY <1>1, <3>1
      <4>2. 0 \div Interval = 0
        BY IntervalType
      <4>3. QED
        BY <4>1, <4>2
    <3>3. Interval * 1 = Interval
      BY IntervalType
    <3>4. QED
      BY <1>3, <3>1, <3>2, <3>3 DEF NextDue
  <2>7. Matches(r)'
    BY <1>1, <2>5 DEF Matches
  <2>8. QED
    BY <1>1, <1>2, <1>6, <2>2, <2>3, <2>4, <2>5, <2>6, <2>7 DEF RenewsInTime, Matches
<1>9. QED
  BY <1>7, <1>8

LEMMA RenewedInTime ==
  ASSUME LeaseInv, NEW n \in Node, RenewsInTime(n), Renewed(n)
  PROVE  RenewsInTime(n)'
<1> DEFINE q == node[n].renewal
<1>1. /\ node[n] \in Process /\ ProcessOK(n) /\ node \in [Node -> Process]
      /\ clock \in Nat /\ UNCHANGED <<clock, late>> /\ q # NoRequest /\ Apply(q)
  BY ProcessType DEF LeaseInv, TypeOK, Renewed
<1>2. /\ q \in Request /\ node[n].renewing /\ node[n].pc \in {"discover", "up"}
      /\ node[n].lease = q.addr /\ q.addr \in Addresses /\ q.kind = "renew"
  BY <1>1 DEF Process, ProcessOK, Request
<1>3. /\ Matches(q) /\ q.expires = clock + LeaseDuration
      /\ node[n].due = clock + Interval
  BY <1>1, <1>2 DEF RenewsInTime, NoAddress, Addresses
<1>4. node' = [node EXCEPT ![n] = [node[n] EXCEPT !.renewal = NoRequest, !.until = q.expires]]
  BY <1>3 DEF Renewed, Become
<1>5. /\ node'[n].renewal = NoRequest /\ node'[n].until = q.expires
      /\ \A f \in {"pc", "lease", "due", "renewing"} : node'[n][f] = node[n][f]
  BY <1>1, <1>4 DEF Process
<1>6. clock <= node[n].due /\ node[n].due + LeaseDuration <= q.expires + Interval + ScanTime
  BY <1>1, <1>3, IntervalType, LeaseAssumption
<1>7. \A r \in late' : r.addr = q.addr => ~Matches(r)'
  BY <1>1, <1>2, <1>3, JustWritten
<1> HIDE DEF q
<1>8. QED
  BY <1>1, <1>2, <1>5, <1>6, <1>7 DEF RenewsInTime

LEMMA StopInTime ==
  ASSUME LeaseOutlasts, LeaseInv, TypeOK', NEW n \in Node, RenewsInTime(n),
         Stop(n) \/ ReleaseGet(n)
  PROVE  RenewsInTime(n)'
<1>1. node[n] \in Process /\ node \in [Node -> Process] /\ node' \in [Node -> Process]
      /\ clock' = clock /\ clock \in Nat
  BY ProcessType DEF LeaseInv, TypeOK, Stop, ReleaseGet
<1>2. CASE Stop(n)
  <2>1. node' = [node EXCEPT ![n] = [node[n] EXCEPT !.pc = "releaseGet", !.now = clock,
                                       !.renewing = FALSE, !.renewal = NoRequest]]
        /\ node[n].pc = "up"
    BY <1>2 DEF Stop, Become
  <2>2. /\ node'[n].pc = "releaseGet" /\ node'[n].lease = node[n].lease
        /\ node'[n].until = node[n].until /\ node'[n].now = clock
    BY <1>1, <2>1 DEF Process
  <2>3. ASSUME node[n].lease # NoAddress
        PROVE  node[n].until > clock + StopTime
    <3>1. node[n].until \in Nat /\ node[n].due \in Nat
      BY <1>1 DEF Process
    <3>2. \/ node[n].until > clock + StopTime
          \/ /\ clock <= node[n].due
             /\ node[n].due + LeaseDuration <= node[n].until + Interval + ScanTime
      BY <2>1, <2>3 DEF RenewsInTime
    <3>3. QED
      BY <1>1, <3>1, <3>2, IntervalType, LeaseAssumption DEF LeaseOutlasts
  <2>4. clock <= node'[n].now + StopTime
    BY <1>1, <2>2, LeaseAssumption
  <2>5. QED
    BY <1>1, <2>2, <2>3, <2>4, OutsideInTime
<1>3. CASE ReleaseGet(n) /\ Become(n, Down)
  BY <1>1, <1>3, DownInTime
<1>4. CASE \E r : Become(n, [node[n] EXCEPT !.pc = "release", !.req = r])
  <2>1. PICK r : node' = [node EXCEPT ![n] = [node[n] EXCEPT !.pc = "release", !.req = r]]
    BY <1>4 DEF Become
  <2>2. node'[n].pc = "release"
    BY <1>1, <2>1 DEF Process
  <2>3. QED
    BY <1>1, <2>2, OutsideInTime
<1>5. QED
  BY <1>2, <1>3, <1>4, Zenon DEF ReleaseGet, Ends

(* A step of a node, or of the store on a request that nobody waits for,    *)
(* is in time when nothing failed.                                          *)
LEMMA NodeInTime ==
  ASSUME LeaseOutlasts, LeaseInv, TypeOK', lapsed = {}, faults' = 0, NEW n \in Node, NodeStep(n),
         \A m \in Node : RenewsInTime(m)
  PROVE  \A m \in Node : RenewsInTime(m)'
<1>1. /\ ~Dies(n) /\ ~AcquireTimeout(n) /\ ~RenewFails(n) /\ ~RenewTimeout(n)
  BY DEF Dies, AcquireTimeout, RenewFails, RenewTimeout, FaultAllowed, LeaseInv, TypeOK
<1>2. /\ clock' = clock /\ \A m \in Node \ {n} : node'[m] = node[m]
      /\ late' \subseteq late \cup Pending(node[n])
  BY <1>1 DEF NodeStep, AcquireStep, ReleaseStep, RenewStep, AcquireSkips, AcquireGet,
     AcquireExhausted, Acquired, AcquireLoses, Discover, RenewGet, Renewed, ReleaseGet,
     Released, Start, Stop, StopEarly, Ends, Become, LeaseInv, TypeOK
<1>3. RenewsInTime(n)'
  <2>1. CASE AcquireExhausted(n) \/ StopEarly(n) \/ Released(n)
    BY <1>2, <2>1, DownInTime DEF AcquireExhausted, StopEarly, Released, Ends
  <2>2. QED
    BY <1>1, <2>1, StartInTime, ScanInTime, AcquiredInTime, DiscoverInTime, RenewGetInTime,
       RenewedInTime, StopInTime DEF NodeStep, AcquireStep, ReleaseStep, RenewStep
<1>4. ASSUME NEW m \in Node, m # n
      PROVE  RenewsInTime(m)'
  <2>1. \A r \in late' \ late : r.from # m
    BY <1>2, <1>4, PendingIsOwn
  <2>2. ASSUME Holds(node[m])
        PROVE  kv'[node[m].lease] = kv[node[m].lease]
    <3>1. ASSUME NEW q \in Request, RequestOK(q), Apply(q), q.from = n
          PROVE  kv'[node[m].lease] = kv[node[m].lease]
      BY <1>4, <2>2, <3>1, OthersRecordsStay
    <3>2. node[n] \in Process /\ ProcessOK(n)
      BY ProcessType DEF LeaseInv
    <3>3. CASE Acquired(n) \/ Released(n)
      <4>1. node[n].req \in Request /\ RequestOK(node[n].req) /\ node[n].req.from = n
        BY <3>2, <3>3 DEF Acquired, Released, ProcessOK, Process
      <4>2. Apply(node[n].req)
        BY <3>3 DEF Acquired, Released
      <4>3. QED
        BY <3>1, <4>1, <4>2
    <3>4. CASE Renewed(n)
      <4>1. node[n].renewal \in Request /\ RequestOK(node[n].renewal) /\ node[n].renewal.from = n
        BY <3>2, <3>4 DEF Renewed, ProcessOK, Process
      <4>2. Apply(node[n].renewal)
        BY <3>4 DEF Renewed
      <4>3. QED
        BY <3>1, <4>1, <4>2
    <3>5. CASE ~Acquired(n) /\ ~Released(n) /\ ~Renewed(n)
      BY <1>1, <3>5 DEF NodeStep, AcquireStep, ReleaseStep, RenewStep, AcquireSkips, AcquireGet,
         AcquireExhausted, AcquireLoses, Discover, RenewGet, ReleaseGet, Start, Stop, StopEarly
    <3>6. QED
      BY <3>3, <3>4, <3>5
  <2>3. node'[m] = node[m]
    BY <1>2, <1>4
  <2>4. QED
    BY <1>2, <2>1, <2>2, <2>3, OthersInTime
<1>5. QED
  BY <1>3, <1>4

LEMMA ApplyLateInTime ==
  ASSUME LeaseInv, lapsed = {}, NEW r \in late, ApplyLate(r),
         \A m \in Node : RenewsInTime(m)
  PROVE  \A m \in Node : RenewsInTime(m)'
<1>1. /\ r \in Request /\ RequestOK(r) /\ Apply(r) /\ late' = late \ {r}
      /\ UNCHANGED <<clock, node>>
  BY DEF ApplyLate, LeaseInv, TypeOK
<1>2. ASSUME NEW m \in Node
      PROVE  RenewsInTime(m)'
  <2>1. CASE node[m].pc \in {"discover", "up"} /\ node[m].lease # NoAddress
    <3>1. ~(Matches(r) /\ r.kind = "renew" /\ r.from = m /\ r.addr = node[m].lease)
      BY <2>1 DEF RenewsInTime
    <3>2. kv'[node[m].lease] = kv[node[m].lease]
      BY <1>1, <2>1, <3>1, OthersRecordsStay DEF Holds
    <3>3. QED
      BY <1>1, <3>2, OthersInTime
  <2>2. CASE ~(node[m].pc \in {"discover", "up"} /\ node[m].lease # NoAddress)
    BY <1>1, <2>2 DEF RenewsInTime
  <2>3. QED
    BY <2>1, <2>2
<1>3. QED
  BY <1>2

(* No minute passes beyond what a node's step may take.                     *)
LEMMA TickInTime ==
  ASSUME LeaseInv, Timely, Tick, \A m \in Node : RenewsInTime(m)
  PROVE  \A m \in Node : RenewsInTime(m)'
<1>1. ASSUME NEW m \in Node
      PROVE  RenewsInTime(m)'
  <2>1. /\ UNCHANGED <<kv, node, late>> /\ clock' = clock + 1 /\ clock \in Nat
        /\ ~ScanOver(node[m]) /\ ~StopOver(node[m]) /\ ~RenewalDue(m)
    BY DEF Tick, LeaseInv, TypeOK
  <2>2. node[m].due \in Nat /\ node[m].now \in Nat
    BY ProcessType DEF LeaseInv, Process
  <2>3. /\ node[m].pc \in {"get", "txn"} => clock' <= node[m].now + ScanTime
        /\ node[m].pc = "releaseGet" => clock' <= node[m].now + StopTime
    BY <2>1, <2>2, LeaseAssumption DEF ScanOver, StopOver
  <2>4. /\ node[m].renewal = NoRequest
        /\ node[m].renewing => clock' <= node[m].due
    BY <2>1, <2>2 DEF RenewalDue, RenewDue
  <2>5. QED
    BY <2>1, <2>3, <2>4 DEF RenewsInTime, Matches
<1>2. QED
  BY <1>1

(* A node whose renewals are in time is not overdue.                        *)
LEMMA NobodyOverdue ==
  ASSUME LeaseOutlasts, TypeOK', NoteLapses, lapsed = {},
         \A m \in Node : RenewsInTime(m)'
  PROVE  lapsed' = {}
<1>1. ASSUME NEW m \in Node
      PROVE  ~Overdue(node'[m], clock')
  <2>1. node'[m] \in Process /\ clock' \in Nat
    BY DEF TypeOK
  <2>2. node'[m].until \in Nat /\ node'[m].due \in Nat /\ node'[m].now \in Nat
    BY <2>1 DEF Process
  <2>3. ASSUME Holds(node'[m])
        PROVE  \/ node'[m].until > clock' + StopTime
               \/ clock' <= node'[m].now + StopTime /\ node'[m].until > node'[m].now + StopTime
               \/ /\ clock' <= node'[m].due
                  /\ node'[m].due + LeaseDuration <= node'[m].until + Interval + ScanTime
    BY <2>3 DEF RenewsInTime, Holds
  <2>4. Holds(node'[m]) => node'[m].until > clock'
    BY <2>1, <2>2, <2>3, IntervalType, LeaseAssumption DEF LeaseOutlasts
  <2>5. QED
    BY <2>1, <2>2, <2>4 DEF Overdue
<1>2. QED
  BY <1>1 DEF NoteLapses

LEMMA InitInTime == Init => InTime
BY DEF Init, InTime, RenewsInTime, Down

LEMMA NextInTime ==
  ASSUME LeaseOutlasts, Timely, LeaseInv, LeaseInv', InTime, [Next]_vars
  PROVE  InTime'
<1> SUFFICES ASSUME faults' = 0
             PROVE  lapsed' = {} /\ \A m \in Node : RenewsInTime(m)'
  BY DEF InTime
<1>1. TypeOK /\ TypeOK'
  BY DEF LeaseInv
<1>2. faults = 0
  <2>1. faults' = faults \/ FaultAllowed
    BY Zenon DEF Next, vars, NodeStep, AcquireStep, ReleaseStep, RenewStep, AcquireSkips,
       AcquireGet, AcquireExhausted, Acquired, AcquireLoses, Discover, RenewGet, Renewed,
       ReleaseGet, Released, Start, Stop, StopEarly, Dies, AcquireTimeout, RenewFails,
       RenewTimeout, ApplyLate, Tick
  <2>2. QED
    BY <1>1, <2>1 DEF FaultAllowed, TypeOK
<1>3. lapsed = {} /\ \A m \in Node : RenewsInTime(m)
  BY <1>2 DEF InTime
<1>4. CASE UNCHANGED vars
  BY <1>3, <1>4 DEF vars, RenewsInTime, Matches
<1>5. CASE Next
  <2>1. \A m \in Node : RenewsInTime(m)'
    BY <1>1, <1>3, <1>5, NodeInTime, ApplyLateInTime, TickInTime DEF Next
  <2>2. lapsed' = {}
    BY <1>1, <1>3, <1>5, <2>1, NobodyOverdue DEF Next
  <2>3. QED
    BY <2>1, <2>2
<1>6. QED
  BY <1>4, <1>5

(* As long as nothing fails, and the lease is longer than the scan of the   *)
(* pool, an interval of the ticker and the way from the end of the context  *)
(* to the release together, no node holds an address beyond it: of a        *)
(* renewal this asks only that its two requests take less than a minute,    *)
(* and of discovery nothing.  A lease of one minute is never long enough,   *)
(* for the ticker's interval is a minute at least.                          *)
THEOREM LeaseRenewedInTime ==
  ASSUME LeaseOutlasts, Timely
  PROVE  Spec => []NeverLapses
<1>1. Init => LeaseInv /\ InTime
  BY InitLeaseInv, InitInTime
<1>2. LeaseInv /\ InTime /\ [Next]_vars => (LeaseInv /\ InTime)'
  BY NextLeaseInv, NextInTime
<1>3. InTime => NeverLapses
  BY DEF InTime, NeverLapses
<1>4. QED
  BY <1>1, <1>2, <1>3, PTL DEF Spec

-----------------------------------------------------------------------------
(* Peers                                                                    *)

LEMMA PeersAreOthers ==
  ASSUME LeaseInv, NEW n \in Node, Discover(n), node'[n].pc = "up",
         node'[n].lease # NoAddress, node'[n].lease \notin lapsed
  PROVE  node'[n].lease \notin node'[n].peers
<1>1. node[n] \in Process /\ node \in [Node -> Process] /\ node[n].pc = "discover"
  BY ProcessType DEF Discover, LeaseInv, TypeOK
<1>2. ~Become(n, Down)
  BY <1>1, DownIsProcess DEF Become
<1>3. PICK s \in OnePerUser(n) : Become(n, [node[n] EXCEPT !.pc = "up", !.peers = s])
  BY <1>2 DEF Discover, Ends
<1>4. node'[n].lease = node[n].lease /\ node'[n].peers = s
  BY <1>1, <1>3 DEF Become, Process
<1>5. kv[node[n].lease].owner = n
  BY <1>1, <1>4 DEF LeaseInv, HolderOnRecord, Holds
<1>6. QED
  BY <1>4, <1>5 DEF OnePerUser, Found

(* Once it is up, a node's address and its peers stay what they are.        *)
LEMMA PeersKept ==
  ASSUME LeaseInv, NEW n \in Node, NodeStep(n), ~Discover(n), node'[n].pc = "up"
  PROVE  /\ node[n].pc = "up" /\ node'[n].lease = node[n].lease
         /\ node'[n].peers = node[n].peers
<1>1. node[n] \in Process /\ node \in [Node -> Process]
  BY ProcessType DEF LeaseInv, TypeOK
<1>12. \A p : Become(n, p) => node'[n] = p
  BY <1>1 DEF Become
<1>13. \A p : Become(n, p) => p.pc = "up"
  BY <1>12
<1>2. CASE RenewGet(n) \/ RenewFails(n)
  <2>1. \E d, r : Become(n, [node[n] EXCEPT !.due = d, !.renewal = r])
               \/ Become(n, [node[n] EXCEPT !.due = d])
    BY <1>2, Zenon DEF RenewGet, RenewFails
  <2>2. QED
    BY <1>1, <1>12, <2>1 DEF Process
<1>3. CASE Renewed(n) \/ RenewTimeout(n)
  <2>1. \E u : Become(n, [node[n] EXCEPT !.renewal = NoRequest, !.until = u])
            \/ Become(n, [node[n] EXCEPT !.renewal = NoRequest])
    BY <1>3, Zenon DEF Renewed, RenewTimeout
  <2>2. QED
    BY <1>1, <1>12, <2>1 DEF Process
<1>4. ~Become(n, Down)
  BY <1>1, DownIsProcess DEF Become
<1>5. ~Start(n)
  <2>1. ASSUME NEW c \in {"discover", "get"}, NEW b,
               Become(n, [Down EXCEPT !.now = clock, !.pc = c, !.renewing = b])
        PROVE  FALSE
    <3>1. node'[n] = [Down EXCEPT !.now = clock, !.pc = c, !.renewing = b]
      BY <1>1, <2>1 DEF Become
    <3>2. node'[n].pc = c
      BY <3>1 DEF Down
    <3>3. QED
      BY <3>2
  <2> DEFINE c == IF n \in Static THEN "discover" ELSE "get"
             b == n \in Static
  <2>2. c \in {"discover", "get"}
    OBVIOUS
  <2>3. Start(n) => Become(n, [Down EXCEPT !.now = clock, !.pc = c, !.renewing = b])
    BY DEF Start
  <2> HIDE DEF c, b
  <2>4. QED
    BY <2>1, <2>2, <2>3
<1>6. ~AcquireSkips(n) /\ ~AcquireLoses(n) /\ ~AcquireTimeout(n)
  <2>1. ASSUME NEW i, NEW q
        PROVE  /\ ~Become(n, [node[n] EXCEPT !.pc = "get", !.ip = i, !.req = q])
               /\ node[n].pc = "get" => ~Become(n, [node[n] EXCEPT !.ip = i])
    <3>1. /\ [node[n] EXCEPT !.pc = "get", !.ip = i, !.req = q].pc = "get"
          /\ [node[n] EXCEPT !.ip = i].pc = node[n].pc
      BY <1>1 DEF Process
    <3>2. QED
      BY <1>13, <3>1
  <2>2. QED
    BY <2>1, Zenon DEF AcquireSkips, AcquireLoses, AcquireTimeout
<1>7. ~AcquireGet(n) /\ ~ReleaseGet(n)
  <2>1. ASSUME NEW q
        PROVE  /\ ~Become(n, [node[n] EXCEPT !.pc = "txn", !.req = q])
               /\ ~Become(n, [node[n] EXCEPT !.pc = "release", !.req = q])
    <3>1. /\ [node[n] EXCEPT !.pc = "txn", !.req = q].pc = "txn"
          /\ [node[n] EXCEPT !.pc = "release", !.req = q].pc = "release"
      BY <1>1 DEF Process
    <3>2. QED
      BY <1>13, <3>1
  <2>2. QED
    BY <1>4, <2>1, Zenon DEF AcquireGet, ReleaseGet, Ends
<1>8. ~Acquired(n)
  <2>1. ASSUME NEW a, NEW u, NEW d,
               Become(n, [node[n] EXCEPT !.pc = "discover", !.lease = a, !.until = u,
                            !.req = NoRequest, !.now = 0, !.ip = 1, !.due = d,
                            !.renewing = TRUE])
        PROVE  FALSE
    <3>1. [node[n] EXCEPT !.pc = "discover", !.lease = a, !.until = u, !.req = NoRequest,
             !.now = 0, !.ip = 1, !.due = d, !.renewing = TRUE].pc = "discover"
      BY <1>1 DEF Process
    <3>2. QED
      BY <1>13, <2>1, <3>1
  <2>2. PICK a, u, d : a = node[n].req.addr /\ u = node[n].req.expires /\ d = clock + Interval
    OBVIOUS
  <2>3. Acquired(n) => Become(n, [node[n] EXCEPT !.pc = "discover", !.lease = a, !.until = u,
                                   !.req = NoRequest, !.now = 0, !.ip = 1, !.due = d,
                                   !.renewing = TRUE])
    BY <2>2 DEF Acquired
  <2>4. QED
    BY <2>1, <2>3
<1>9. ~Stop(n)
  <2>1. ASSUME NEW q
        PROVE  ~Become(n, [node[n] EXCEPT !.pc = "releaseGet", !.now = clock, !.renewing = FALSE,
                             !.renewal = q])
    <3>1. [node[n] EXCEPT !.pc = "releaseGet", !.now = clock, !.renewing = FALSE, !.renewal = q].pc
            = "releaseGet"
      BY <1>1 DEF Process
    <3>2. QED
      BY <1>13, <3>1
  <2>2. QED
    BY <2>1, Zenon DEF Stop
<1>10. ~AcquireExhausted(n) /\ ~Released(n) /\ ~StopEarly(n) /\ ~Dies(n)
  BY <1>4 DEF AcquireExhausted, Released, StopEarly, Dies, Ends
<1>11. QED
  BY <1>2, <1>3, <1>5, <1>6, <1>7, <1>8, <1>9, <1>10
     DEF NodeStep, AcquireStep, ReleaseStep, RenewStep

(* What is not the process's own step leaves it as it is.                   *)
LEMMA OthersProcess ==
  ASSUME LeaseInv, NEW n \in Node, Next, ~NodeStep(n)
  PROVE  node'[n] = node[n]
<1>1. ASSUME NEW m \in Node, m # n, NodeStep(m)
      PROVE  node'[n] = node[n]
  <2>1. \E p : Become(m, p)
    BY <1>1, Zenon
       DEF NodeStep, AcquireStep, ReleaseStep, RenewStep, AcquireSkips, AcquireGet,
       AcquireExhausted, Acquired, AcquireLoses, Discover, RenewGet, Renewed, ReleaseGet,
       Released, Start, Stop, StopEarly, Dies, AcquireTimeout, RenewFails, RenewTimeout, Ends
  <2>2. QED
    BY <1>1, <2>1 DEF Become, LeaseInv, TypeOK
<1>2. QED
  BY <1>1 DEF Next, ApplyLate, Tick

(* No node ever routes to a peer the address that it holds itself, unless   *)
(* a lease of that address has lapsed.                                      *)
THEOREM OwnAddressNeverRouted == Spec => []OwnAddressNotRouted
<1>1. Init => OwnAddressNotRouted
  BY DownIsProcess DEF Init, OwnAddressNotRouted
<1>2. LeaseInv /\ OwnAddressNotRouted /\ [Next]_vars => OwnAddressNotRouted'
  <2> SUFFICES ASSUME LeaseInv, OwnAddressNotRouted, [Next]_vars, NEW n \in Node,
                      node'[n].pc = "up", node'[n].lease # NoAddress,
                      node'[n].lease \notin lapsed'
               PROVE  node'[n].lease \notin node'[n].peers
    BY DEF OwnAddressNotRouted
  <2>1. CASE UNCHANGED vars
    BY <2>1 DEF vars, OwnAddressNotRouted
  <2>2. ASSUME Next
        PROVE  node'[n].lease \notin lapsed
    BY <2>2, LapsesGrow DEF Next, LeaseInv
  <2>3. CASE Next /\ Discover(n)
    BY <2>2, <2>3, PeersAreOthers
  <2>4. CASE Next /\ NodeStep(n) /\ ~Discover(n)
    BY <2>2, <2>4, PeersKept DEF OwnAddressNotRouted
  <2>5. CASE Next /\ ~NodeStep(n)
    BY <2>2, <2>5, OthersProcess DEF OwnAddressNotRouted
  <2>6. QED
    BY <2>1, <2>3, <2>4, <2>5 DEF NodeStep
<1>3. QED
  BY <1>1, <1>2, LeaseInvariant, PTL DEF Spec

=============================================================================
