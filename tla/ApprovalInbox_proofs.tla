------------------------ MODULE ApprovalInbox_proofs ------------------------
(***************************************************************************)
(* For any number of reviewers, allowed or not, and any number of packets: *)
(* the gate grants only what an allowed reviewer approved, and a decision  *)
(* that nobody raced stands in its file as it was accepted.                *)
(***************************************************************************)
EXTENDS ApprovalInbox, TLAPS

\* The type invariant: a reviewer at work has a packet, and the gate reads the
\* decision of a packet it wrote.
TypeOK ==
    /\ asked \in 0 .. MaxPackets
    /\ gpc \in {"idle", "exists", "stat", "read"}
    /\ gpc # "idle" => asked \in Packets
    /\ granted \subseteq Packets
    /\ file \in [Packets -> [text : {"none", "empty", "garbled"} \cup Values,
                             by : Reviewers \cup {"nobody"}, private : BOOLEAN]]
    /\ rpc \in [Reviewers -> {"idle", "open", "write", "chmod"}]
    /\ req \in [Reviewers -> [packet : 0 .. MaxPackets, value : Values]]
    /\ \A r \in Reviewers : IF rpc[r] = "idle" THEN req[r] = NoRequest
                                               ELSE req[r].packet \in Packets
    /\ accepted \subseteq Packets \X Reviewers \X Values

\* The reviewer has written this decision and, unless it was accepted already,
\* is about to make the file private.
Decided(p, r, v) ==
    \/ <<p, r, v>> \in accepted
    \/ rpc[r] = "chmod" /\ req[r] = [packet |-> p, value |-> v]

\* A file with a decision in it has an author who decided so.
AuthorInv ==
    \A p \in Packets : file[p].text \in Values =>
        file[p].by \in Reviewers /\ Decided(p, file[p].by, file[p].text)

\* A packet with an accepted decision has a file, and a reviewer at work on a
\* packet has not decided it before.
OnceInv ==
    /\ \A x \in accepted : file[x[1]].text # "none"
    /\ \A r \in Reviewers : rpc[r] # "idle" =>
         \A v \in Values : <<req[r].packet, r, v>> \notin accepted
    /\ \A r \in Reviewers : rpc[r] \in {"write", "chmod"} => file[req[r].packet].text # "none"

\* Nobody else is or was at work on the reviewer's packet.
Alone(r) ==
    /\ \A q \in Reviewers \ {r} : req[q].packet # req[r].packet
    /\ \A x \in accepted : x[1] # req[r].packet

\* A reviewer who is alone finds the file as it was left.
AloneInv ==
    \A r \in Reviewers : Alone(r) =>
        /\ rpc[r] = "write" => file[req[r].packet].text = "empty"
        /\ rpc[r] = "chmod" => /\ file[req[r].packet].text = req[r].value
                               /\ file[req[r].packet].by = r

\* The inductive invariant.
Inv ==
    /\ TypeOK
    /\ AuthorInv
    /\ GrantIsApproved
    /\ OnceInv
    /\ AloneInv
    /\ AcceptedIsReadable

-----------------------------------------------------------------------------
\* An empty exchange directory.
LEMMA InitInv == Init => Inv
<1> SUFFICES ASSUME Init PROVE Inv
  OBVIOUS
<1> USE InboxAssumption DEF Init
<1>1. TypeOK
  BY DEF TypeOK, Packets, Values, NoFile, NoRequest
<1>2. AuthorInv /\ GrantIsApproved /\ OnceInv
  BY DEF AuthorInv, GrantIsApproved, OnceInv, NoFile, Values
<1>3. AloneInv /\ AcceptedIsReadable
  BY DEF AloneInv, AcceptedIsReadable
<1> QED
  BY <1>1, <1>2, <1>3 DEF Inv

\* The gate's own steps: only an approval by an allowed reviewer is granted.
LEMMA GateInv == ASSUME Inv, Gate PROVE Inv'
<1> USE InboxAssumption
<1>1. UNCHANGED <<file, rpc, req, accepted, exposed>>
  BY DEF Gate, request_packet, LookForDecision, CheckPermissions, ReadDecision
<1>2. TypeOK'
  <2>1. CASE request_packet
    BY <1>1, <2>1 DEF request_packet, Inv, TypeOK, Packets
  <2>2. CASE LookForDecision \/ CheckPermissions
    BY <1>1, <2>2 DEF LookForDecision, CheckPermissions, Inv, TypeOK
  <2>3. CASE ReadDecision
    BY <1>1, <2>3 DEF ReadDecision, Inv, TypeOK
  <2> QED
    BY <2>1, <2>2, <2>3 DEF Gate
<1>3. AuthorInv' /\ OnceInv' /\ AloneInv' /\ AcceptedIsReadable'
  BY <1>1 DEF Inv, AuthorInv, Decided, OnceInv, AloneInv, Alone, AcceptedIsReadable
<1>4. GrantIsApproved'
  <2>1. ASSUME NEW p \in granted'
        PROVE  \E r \in Allowed : Decided(p, r, "approve")
    <3>1. CASE p \in granted
      BY <3>1 DEF Inv, GrantIsApproved, Decided
    <3>2. CASE p \notin granted
      <4>1. p = asked /\ Grants(asked) /\ asked \in Packets
        BY <3>2 DEF Gate, request_packet, LookForDecision, CheckPermissions, ReadDecision,
                    Inv, TypeOK
      <4> QED
        BY <4>1 DEF Grants, Inv, AuthorInv, Values
    <3> QED
      BY <3>1, <3>2
  <2> QED
    BY <1>1, <2>1 DEF GrantIsApproved, Decided
<1> QED
  BY <1>2, <1>3, <1>4 DEF Inv

\* The check that there is no decision file yet.
LEMMA DecideInv ==
    ASSUME Inv, NEW r \in Reviewers, NEW p \in Packets, NEW v \in Values,
           post_inbox_decide(r, p, v)
    PROVE  Inv'
<1> USE InboxAssumption
<1>1. /\ rpc[r] = "idle" /\ file[p].text = "none"
      /\ req' = [req EXCEPT ![r] = [packet |-> p, value |-> v]]
      /\ rpc' = [rpc EXCEPT ![r] = "open"]
      /\ UNCHANGED <<asked, gpc, granted, file, accepted, exposed>>
  BY DEF post_inbox_decide
<1>2. /\ req'[r] = [packet |-> p, value |-> v] /\ rpc'[r] = "open"
      /\ \A q \in Reviewers : q # r => req'[q] = req[q] /\ rpc'[q] = rpc[q]
  BY <1>1 DEF Inv, TypeOK
<1>3. TypeOK'
  BY <1>1 DEF Inv, TypeOK, Packets
<1>4. \A x \in accepted : x[1] # p
  BY <1>1 DEF Inv, OnceInv
<1>5. \A u \in Packets, q \in Reviewers, w \in Values :
        Decided(u, q, w) => Decided(u, q, w)'
  BY <1>1, <1>2 DEF Decided
<1>6. AuthorInv'
  BY <1>1, <1>5 DEF Inv, AuthorInv
<1>7. GrantIsApproved'
  <2>1. ASSUME NEW u \in granted PROVE \E q \in Allowed : Decided(u, q, "approve")'
    <3>1. PICK q \in Allowed : Decided(u, q, "approve")
      BY DEF Inv, GrantIsApproved, Decided
    <3> QED
      BY <1>5, <3>1 DEF Inv, TypeOK, Values
  <2> QED
    BY <1>1, <2>1 DEF GrantIsApproved, Decided
<1>8. OnceInv'
  BY <1>1, <1>2, <1>4 DEF Inv, OnceInv, TypeOK
<1>9. AloneInv'
  <2> SUFFICES ASSUME NEW q \in Reviewers, Alone(q)'
               PROVE  /\ rpc'[q] = "write" => file'[req'[q].packet].text = "empty"
                      /\ rpc'[q] = "chmod" => /\ file'[req'[q].packet].text = req'[q].value
                                              /\ file'[req'[q].packet].by = q
    BY DEF AloneInv
  <2>1. CASE q = r
    BY <1>2, <2>1
  <2>2. CASE q # r
    <3>1. CASE rpc[q] = "idle"
      BY <1>2, <2>2, <3>1
    <3>2. CASE rpc[q] # "idle"
      <4>1. req[r].packet = 0 /\ req[q].packet # 0
        BY <1>1, <3>2 DEF Inv, TypeOK, NoRequest, Packets
      <4>2. Alone(q)
        BY <1>1, <1>2, <2>2, <4>1 DEF Alone
      <4> QED
        BY <1>1, <1>2, <2>2, <4>2 DEF Inv, AloneInv
    <3> QED
      BY <3>1, <3>2
  <2> QED
    BY <2>1, <2>2
<1>10. AcceptedIsReadable'
  <2> SUFFICES ASSUME NEW x \in accepted,
                      \A y \in accepted : y[1] = x[1] => y = x,
                      \A q \in Reviewers : req'[q].packet # x[1]
               PROVE  /\ file[x[1]].text = x[3] /\ file[x[1]].by = x[2]
                      /\ file[x[1]].private \/ x[1] \in exposed
    BY <1>1 DEF AcceptedIsReadable
  <2>1. \A q \in Reviewers : req[q].packet # x[1]
    <3>1. req[r].packet = 0 /\ x[1] \in Packets
      BY <1>1 DEF Inv, TypeOK, NoRequest
    <3> QED
      BY <1>2, <3>1 DEF Packets
  <2> QED
    BY <2>1 DEF Inv, AcceptedIsReadable
<1> QED
  BY <1>3, <1>6, <1>7, <1>8, <1>9, <1>10 DEF Inv

\* What opening or writing the decision file leaves alone: everything but the
\* file of the reviewer's packet and where the reviewer is.
LEMMA FileInv ==
    ASSUME Inv, NEW r \in Reviewers, rpc[r] \in {"open", "write"},
           NEW loc \in {"write", "chmod"}, rpc' = [rpc EXCEPT ![r] = loc],
           rpc[r] = "open" <=> loc = "write",
           NEW f \in [text : {"empty", "garbled"} \cup Values,
                      by : Reviewers \cup {"nobody"}, private : BOOLEAN],
           file' = [file EXCEPT ![req[r].packet] = f],
           f.text \in Values => loc = "chmod" /\ f.by = r /\ f.text = req[r].value,
           Alone(r) /\ loc = "write" => f.text = "empty",
           Alone(r) /\ loc = "chmod" => f.text = req[r].value /\ f.by = r,
           UNCHANGED <<asked, gpc, granted, req, accepted, exposed>>
    PROVE  Inv'
<1> USE InboxAssumption
<1> DEFINE p == req[r].packet
<1>1. p \in Packets
  BY DEF Inv, TypeOK
<1>2. /\ file'[p] = f /\ \A u \in Packets : u # p => file'[u] = file[u]
      /\ rpc'[r] = loc /\ \A q \in Reviewers : q # r => rpc'[q] = rpc[q]
  BY <1>1 DEF Inv, TypeOK
<1>3. TypeOK'
  <2>1. file' \in [Packets -> [text : {"none", "empty", "garbled"} \cup Values,
                               by : Reviewers \cup {"nobody"}, private : BOOLEAN]]
    <3>1. f \in [text : {"none", "empty", "garbled"} \cup Values,
                 by : Reviewers \cup {"nobody"}, private : BOOLEAN]
      OBVIOUS
    <3> QED
      BY <1>1, <3>1 DEF Inv, TypeOK
  <2> QED
    BY <1>1, <1>2, <2>1 DEF Inv, TypeOK
<1>4. \A u \in Packets, q \in Reviewers, w \in Values :
        Decided(u, q, w) => Decided(u, q, w)'
  BY <1>2 DEF Decided
<1>5. AuthorInv'
  <2> SUFFICES ASSUME NEW u \in Packets, file'[u].text \in Values
               PROVE  file'[u].by \in Reviewers /\ Decided(u, file[u].by, file[u].text)'
    BY DEF AuthorInv
  <2>1. CASE u = p
    <3>1. f.by = r /\ f.text = req[r].value /\ loc = "chmod"
      BY <1>2, <2>1
    <3>2. req[r] = [packet |-> p, value |-> req[r].value]
      BY DEF Inv, TypeOK
    <3> QED
      BY <1>2, <2>1, <3>1, <3>2 DEF Decided
  <2>2. CASE u # p
    BY <1>2, <1>4, <2>2 DEF Inv, AuthorInv
  <2> QED
    BY <2>1, <2>2
<1>6. GrantIsApproved'
  <2>1. ASSUME NEW u \in granted PROVE \E q \in Allowed : Decided(u, q, "approve")'
    <3>1. PICK q \in Allowed : Decided(u, q, "approve")
      BY DEF Inv, GrantIsApproved, Decided
    <3> QED
      BY <1>4, <3>1 DEF Inv, TypeOK, Values
  <2> QED
    BY <2>1 DEF GrantIsApproved, Decided
<1>7. OnceInv'
  <2>1. f.text # "none"
    BY DEF Values
  <2>2. \A x \in accepted : x[1] \in Packets
    BY DEF Inv, TypeOK
  <2>3. \A q \in Reviewers : rpc[q] # "idle" => req[q].packet \in Packets
    BY DEF Inv, TypeOK
  <2> QED
    BY <1>2, <2>1, <2>2, <2>3 DEF Inv, OnceInv
<1>8. AloneInv'
  <2> SUFFICES ASSUME NEW q \in Reviewers, Alone(q)'
               PROVE  /\ rpc'[q] = "write" => file'[req[q].packet].text = "empty"
                      /\ rpc'[q] = "chmod" => /\ file'[req[q].packet].text = req[q].value
                                              /\ file'[req[q].packet].by = q
    BY DEF AloneInv
  <2>1. Alone(q)
    BY DEF Alone
  <2>2. CASE q = r
    BY <1>2, <2>1, <2>2
  <2>3. CASE q # r /\ rpc[q] # "idle"
    <3>1. req[q].packet # p /\ req[q].packet \in Packets
      BY <2>1, <2>3 DEF Alone, Inv, TypeOK
    <3> QED
      BY <1>2, <2>1, <2>3, <3>1 DEF Inv, AloneInv
  <2>4. CASE q # r /\ rpc[q] = "idle"
    BY <1>2, <2>4
  <2> QED
    BY <2>2, <2>3, <2>4
<1>9. AcceptedIsReadable'
  <2> SUFFICES ASSUME NEW x \in accepted,
                      \A y \in accepted : y[1] = x[1] => y = x,
                      \A q \in Reviewers : req[q].packet # x[1]
               PROVE  /\ file'[x[1]].text = x[3] /\ file'[x[1]].by = x[2]
                      /\ file'[x[1]].private \/ x[1] \in exposed
    BY DEF AcceptedIsReadable
  <2>1. x[1] \in Packets /\ x[1] # p
    BY DEF Inv, TypeOK
  <2> QED
    BY <1>2, <2>1 DEF Inv, AcceptedIsReadable
<1> QED
  BY <1>3, <1>5, <1>6, <1>7, <1>8, <1>9 DEF Inv

\* Opening the file empties it, writing it puts the decision there or garbles
\* what another handler wrote.
LEMMA OpenOrWriteInv ==
    ASSUME Inv, NEW r \in Reviewers, OpenFile(r) \/ WriteFile(r)
    PROVE  Inv'
<1> DEFINE p == req[r].packet
<1>1. p \in Packets
  BY DEF OpenFile, WriteFile, Inv, TypeOK
<1>2. CASE OpenFile(r)
  <2>1. PICK private \in BOOLEAN :
          file' = [file EXCEPT ![p] = [text |-> "empty", by |-> "nobody",
                                       private |-> private]]
    BY <1>2 DEF OpenFile
  <2> DEFINE f == [text |-> "empty", by |-> "nobody", private |-> private]
  <2>2. /\ f \in [text : {"empty", "garbled"} \cup Values,
                   by : Reviewers \cup {"nobody"}, private : BOOLEAN]
        /\ f.text = "empty" /\ f.text \notin Values
    BY DEF Values
  <2>3. file' = [file EXCEPT ![req[r].packet] = f]
    BY <2>1
  <2>4. rpc[r] = "open" /\ rpc' = [rpc EXCEPT ![r] = "write"]
        /\ UNCHANGED <<asked, gpc, granted, req, accepted, exposed>>
    BY <1>2 DEF OpenFile
  <2> HIDE DEF f
  <2> QED
    BY <2>2, <2>3, <2>4, FileInv
<1>3. CASE WriteFile(r)
  <2>1. rpc[r] = "write" /\ rpc' = [rpc EXCEPT ![r] = "chmod"]
        /\ UNCHANGED <<asked, gpc, granted, req, accepted, exposed>>
    BY <1>3 DEF WriteFile
  <2>2. CASE file' = [file EXCEPT ![p].text = req[r].value, ![p].by = r]
    <3> DEFINE f == [file[p] EXCEPT !.text = req[r].value, !.by = r]
    <3>1. /\ f \in [text : {"empty", "garbled"} \cup Values,
                     by : Reviewers \cup {"nobody"}, private : BOOLEAN]
          /\ f.text = req[r].value /\ f.by = r
      BY <1>1, ZenonT(30) DEF Inv, TypeOK
    <3>2. file' = [file EXCEPT ![req[r].packet] = f]
      BY <1>1, <2>2 DEF Inv, TypeOK
    <3> HIDE DEF f
    <3> QED
      BY <2>1, <3>1, <3>2, FileInv
  <2>3. CASE /\ file[p].text # "empty"
             /\ file' = [file EXCEPT ![p].text = "garbled", ![p].by = "nobody"]
    <3> DEFINE f == [file[p] EXCEPT !.text = "garbled", !.by = "nobody"]
    <3>1. /\ f \in [text : {"empty", "garbled"} \cup Values,
                     by : Reviewers \cup {"nobody"}, private : BOOLEAN]
          /\ f.text \notin Values
      <4>1. file[p] \in [text : {"none", "empty", "garbled"} \cup Values,
                         by : Reviewers \cup {"nobody"}, private : BOOLEAN]
        BY <1>1 DEF Inv, TypeOK
      <4>2. "garbled" \notin Values
        BY DEF Values
      <4> QED
        BY <4>1, <4>2
    <3>2. file' = [file EXCEPT ![req[r].packet] = f]
      BY <1>1, <2>3 DEF Inv, TypeOK
    <3>3. ~Alone(r)
      BY <2>1, <2>3 DEF Inv, AloneInv
    <3> HIDE DEF f
    <3> QED
      BY <2>1, <3>1, <3>2, <3>3, FileInv
  <2> QED
    BY <1>3, <2>2, <2>3 DEF WriteFile
<1> QED
  BY <1>2, <1>3

\* The file is made private, or its chmod fails, and the decision is accepted.
LEMMA AcceptInv ==
    ASSUME Inv, NEW r \in Reviewers, MakePrivate(r)
    PROVE  Inv'
<1> USE InboxAssumption
<1> DEFINE p == req[r].packet
           v == req[r].value
           d == <<p, r, v>>
<1>1. /\ rpc[r] = "chmod"
      /\ \/ file' = [file EXCEPT ![p].private = TRUE] /\ UNCHANGED exposed
         \/ exposed' = exposed \cup {p} /\ UNCHANGED file
      /\ accepted' = accepted \cup {d}
      /\ rpc' = [rpc EXCEPT ![r] = "idle"]
      /\ req' = [req EXCEPT ![r] = NoRequest]
      /\ UNCHANGED <<asked, gpc, granted>>
  BY DEF MakePrivate
<1>2. p \in Packets /\ v \in Values /\ req[r] = [packet |-> p, value |-> v]
  BY <1>1 DEF Inv, TypeOK
<1>3. /\ file'[p].private \/ p \in exposed'
      /\ exposed \subseteq exposed'
      /\ \A u \in Packets : file'[u].text = file[u].text /\ file'[u].by = file[u].by
      /\ \A u \in Packets : u # p => file'[u] = file[u]
  <2>1. CASE file' = [file EXCEPT ![p].private = TRUE] /\ UNCHANGED exposed
    <3>1. PICK g : g = file[p]
      OBVIOUS
    <3>2. g \in [text : {"none", "empty", "garbled"} \cup Values,
                 by : Reviewers \cup {"nobody"}, private : BOOLEAN]
      BY <1>2, <3>1 DEF Inv, TypeOK
    <3>3. file'[p] = [g EXCEPT !.private = TRUE]
      BY <1>2, <2>1, <3>1 DEF Inv, TypeOK
    <3>4. file'[p].private = TRUE /\ file'[p].text = g.text /\ file'[p].by = g.by
      BY <3>2, <3>3
    <3>5. \A u \in Packets : u # p => file'[u] = file[u]
      BY <1>2, <2>1 DEF Inv, TypeOK
    <3> QED
      BY <2>1, <3>1, <3>4, <3>5
  <2>2. CASE exposed' = exposed \cup {p} /\ UNCHANGED file
    BY <2>2
  <2> QED
    BY <1>1, <2>1, <2>2
<1>4. /\ req'[r] = NoRequest /\ rpc'[r] = "idle"
      /\ \A q \in Reviewers : q # r => req'[q] = req[q] /\ rpc'[q] = rpc[q]
  BY <1>1 DEF Inv, TypeOK
<1>5. TypeOK'
  <2>1. file' \in [Packets -> [text : {"none", "empty", "garbled"} \cup Values,
                               by : Reviewers \cup {"nobody"}, private : BOOLEAN]]
    <3>1. CASE file' = [file EXCEPT ![p].private = TRUE]
      <4> DEFINE R == [text : {"none", "empty", "garbled"} \cup Values,
                       by : Reviewers \cup {"nobody"}, private : BOOLEAN]
      <4>1. file \in [Packets -> R]
        BY DEF Inv, TypeOK
      <4>2. PICK g \in R : g = file[p]
        BY <1>2, <4>1
      <4>3. [g EXCEPT !.private = TRUE] \in R
        BY <4>2
      <4>4. file' = [file EXCEPT ![p] = [g EXCEPT !.private = TRUE]]
        BY <3>1, <4>2
      <4> HIDE DEF R
      <4>5. file' \in [Packets -> R]
        BY <1>2, <4>1, <4>3, <4>4
      <4> QED
        BY <4>5 DEF R
    <3>2. CASE UNCHANGED file
      BY <3>2 DEF Inv, TypeOK
    <3> QED
      BY <1>1, <3>1, <3>2
  <2>2. accepted' \subseteq Packets \X Reviewers \X Values
    BY <1>1, <1>2 DEF Inv, TypeOK
  <2>3. /\ req' \in [Reviewers -> [packet : 0 .. MaxPackets, value : Values]]
        /\ rpc' \in [Reviewers -> {"idle", "open", "write", "chmod"}]
    BY <1>1 DEF Inv, TypeOK, NoRequest, Values
  <2>4. \A q \in Reviewers : IF rpc'[q] = "idle" THEN req'[q] = NoRequest
                                                 ELSE req'[q].packet \in Packets
    BY <1>4 DEF Inv, TypeOK
  <2> QED
    BY <1>1, <2>1, <2>2, <2>3, <2>4 DEF Inv, TypeOK
<1>6. \A u \in Packets, q \in Reviewers, w \in Values :
        Decided(u, q, w) => Decided(u, q, w)'
  BY <1>1, <1>2, <1>4 DEF Decided
<1>7. AuthorInv'
  BY <1>3, <1>6 DEF Inv, AuthorInv
<1>8. GrantIsApproved'
  <2>1. ASSUME NEW u \in granted PROVE \E q \in Allowed : Decided(u, q, "approve")'
    <3>1. PICK q \in Allowed : Decided(u, q, "approve")
      BY DEF Inv, GrantIsApproved, Decided
    <3> QED
      BY <1>6, <3>1 DEF Inv, TypeOK, Values
  <2> QED
    BY <1>1, <2>1 DEF GrantIsApproved, Decided
<1>9. OnceInv'
  <2>1. \A x \in accepted' : x[1] \in Packets
    BY <1>5 DEF TypeOK
  <2>2. \A x \in accepted' : file'[x[1]].text # "none"
    BY <1>1, <1>2, <1>3, <2>1 DEF Inv, OnceInv
  <2>3. ASSUME NEW q \in Reviewers, rpc'[q] # "idle", NEW w \in Values
        PROVE  <<req'[q].packet, q, w>> \notin accepted'
    <3>1. q # r /\ req'[q] = req[q] /\ rpc[q] # "idle"
      BY <1>4, <2>3
    <3>2. <<req[q].packet, q, w>> # d
      BY <3>1
    <3> QED
      BY <1>1, <3>1, <3>2 DEF Inv, OnceInv
  <2>4. ASSUME NEW q \in Reviewers, rpc'[q] \in {"write", "chmod"}
        PROVE  file'[req'[q].packet].text # "none"
    <3>1. q # r /\ req'[q] = req[q] /\ rpc[q] \in {"write", "chmod"}
      BY <1>4, <2>4
    <3>2. req[q].packet \in Packets
      BY <3>1 DEF Inv, TypeOK
    <3> QED
      BY <1>3, <3>1, <3>2 DEF Inv, OnceInv
  <2> QED
    BY <2>2, <2>3, <2>4 DEF OnceInv
<1>10. AloneInv'
  <2> SUFFICES ASSUME NEW q \in Reviewers, Alone(q)'
               PROVE  /\ rpc'[q] = "write" => file'[req'[q].packet].text = "empty"
                      /\ rpc'[q] = "chmod" => /\ file'[req'[q].packet].text = req'[q].value
                                              /\ file'[req'[q].packet].by = q
    BY DEF AloneInv
  <2>1. CASE q = r \/ rpc[q] = "idle"
    BY <1>4, <2>1
  <2>2. CASE q # r /\ rpc[q] # "idle"
    <3>1. req'[q] = req[q] /\ rpc'[q] = rpc[q] /\ req[q].packet \in Packets
      BY <1>4, <2>2 DEF Inv, TypeOK
    <3>2. d \in accepted' /\ d[1] = p /\ accepted \subseteq accepted'
      BY <1>1
    <3>3. req[q].packet # p
      BY <3>1, <3>2 DEF Alone
    <3>4. Alone(q)
      BY <1>4, <3>1, <3>2, <3>3 DEF Alone
    <3> QED
      BY <1>3, <3>1, <3>4 DEF Inv, AloneInv
  <2> QED
    BY <2>1, <2>2
<1>11. AcceptedIsReadable'
  <2> SUFFICES ASSUME NEW x \in accepted',
                      \A y \in accepted' : y[1] = x[1] => y = x,
                      \A q \in Reviewers : req'[q].packet # x[1]
               PROVE  /\ file'[x[1]].text = x[3] /\ file'[x[1]].by = x[2]
                      /\ file'[x[1]].private \/ x[1] \in exposed'
    BY DEF AcceptedIsReadable
  <2>1. CASE x[1] = p
    <3>1. x = d
      <4>1. d \in accepted' /\ d[1] = p
        BY <1>1
      <4> HIDE DEF d, p
      <4> QED
        BY <2>1, <4>1
    <3>2. d \notin accepted
      BY <1>1, <1>2 DEF Inv, OnceInv
    <3>3. \A y \in accepted : y[1] # p
      BY <1>1, <2>1, <3>1, <3>2
    <3>4. \A q \in Reviewers \ {r} : req[q].packet # p
      BY <1>4, <2>1
    <3>5. Alone(r)
      BY <3>3, <3>4 DEF Alone
    <3>6. file[p].text = v /\ file[p].by = r
      BY <1>1, <3>5 DEF Inv, AloneInv
    <3> QED
      BY <1>2, <1>3, <3>1, <3>6
  <2>2. CASE x[1] # p
    <3>1. x \in accepted /\ x[1] \in Packets
      BY <1>1, <1>5, <2>2 DEF TypeOK
    <3>2. \A q \in Reviewers : req[q].packet # x[1]
      BY <1>4, <2>2
    <3>3. \A y \in accepted : y[1] = x[1] => y = x
      BY <1>1
    <3> QED
      BY <1>3, <2>2, <3>1, <3>2, <3>3 DEF Inv, AcceptedIsReadable
  <2> QED
    BY <2>1, <2>2
<1> QED
  BY <1>5, <1>7, <1>8, <1>9, <1>10, <1>11 DEF Inv

-----------------------------------------------------------------------------
\* The invariant of the exchange directory, whatever the gate and the inbox
\* threads interleave.
THEOREM Invariance == Spec => []Inv
<1>1. Init => Inv
  BY InitInv
<1>2. Inv /\ [Next]_vars => Inv'
  <2> SUFFICES ASSUME Inv, [Next]_vars PROVE Inv'
    OBVIOUS
  <2>1. CASE UNCHANGED vars
    <3>1. UNCHANGED asked /\ UNCHANGED gpc /\ UNCHANGED granted /\ UNCHANGED file
          /\ UNCHANGED rpc /\ UNCHANGED req /\ UNCHANGED accepted
          /\ UNCHANGED exposed
      BY <2>1 DEF vars
    <3>2. TypeOK' /\ AuthorInv' /\ GrantIsApproved'
      BY <3>1 DEF Inv, TypeOK, AuthorInv, Decided, GrantIsApproved
    <3>3. OnceInv' /\ AloneInv' /\ AcceptedIsReadable'
      BY <3>1 DEF Inv, OnceInv, AloneInv, Alone, AcceptedIsReadable
    <3> QED
      BY <3>2, <3>3 DEF Inv
  <2>2. CASE Next
    BY <2>2, GateInv, DecideInv, OpenOrWriteInv, AcceptInv DEF Next, Handler
  <2> QED
    BY <2>1, <2>2
<1> QED
  BY <1>1, <1>2, PTL DEF Spec

\* The gate grants a packet only if a reviewer on the allowlist approved that
\* very packet, whatever files are truncated, overwritten or half written when
\* it reads them.
THEOREM GrantsAreApproved == Spec => []GrantIsApproved
<1>1. Inv => GrantIsApproved
  BY DEF Inv
<1> QED
  BY <1>1, Invariance, PTL

\* A decision that was accepted and that no other handler raced can be read by
\* the gate: the file is whole, holds that decision and is private, unless the
\* chmod of its writer failed.
THEOREM AcceptedDecisionsAreReadable == Spec => []AcceptedIsReadable
<1>1. Inv => AcceptedIsReadable
  BY DEF Inv
<1> QED
  BY <1>1, Invariance, PTL
=============================================================================
