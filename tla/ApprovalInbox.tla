--------------------------- MODULE ApprovalInbox ---------------------------
(***************************************************************************)
(* Approval through an exchange directory: FileApprovalGate                *)
(* (approval_exchange.py) on the agent's side, the inbox of server/app.py  *)
(* on the reviewers' side.  The gate writes a packet under a fresh id and  *)
(* looks once for a decision file of that id; without one it denies, and   *)
(* the agent may ask again with another packet.  The inbox handlers run in *)
(* threads: each checks that there is no decision file, then opens it      *)
(* (which truncates it), writes it, and makes it private.                  *)
(***************************************************************************)
EXTENDS Integers, FiniteSets

CONSTANTS
    Reviewers,    \* concurrent requests to the inbox
    Allowed,      \* allowed_approvers
    MaxPackets    \* bound: packets the agent asks for

ASSUME InboxAssumption ==
    /\ Allowed \subseteq Reviewers
    /\ MaxPackets \in Nat

Packets == 1 .. MaxPackets
Values == {"approve", "deny"}

VARIABLES
    asked,     \* packets written so far; the last one is the current one
    gpc,       \* where the gate is in request_packet
    granted,   \* packets on which the gate returned an approval
    file,      \* per packet: the decision file
    rpc,       \* per reviewer: where the handler is
    req,       \* per reviewer: the packet and the decision being written
    accepted,  \* history: the decisions the inbox answered with success
    exposed    \* history: packets whose decision file a chmod failed on

vars == <<asked, gpc, granted, file, rpc, req, accepted, exposed>>

\* text is "none", "empty", "garbled" or a decision; mode 0600 is private
NoFile == [text |-> "none", by |-> "nobody", private |-> FALSE]
NoRequest == [packet |-> 0, value |-> "deny"]

Init ==
    /\ asked = 0
    /\ gpc = "idle"
    /\ granted = {}
    /\ file = [p \in Packets |-> NoFile]
    /\ rpc = [r \in Reviewers |-> "idle"]
    /\ req = [r \in Reviewers |-> NoRequest]
    /\ accepted = {}
    /\ exposed = {}

-----------------------------------------------------------------------------
\* The packet is written.
request_packet ==
    /\ gpc = "idle" /\ asked < MaxPackets
    /\ asked' = asked + 1
    /\ gpc' = "exists"
    /\ UNCHANGED <<granted, file, rpc, req, accepted, exposed>>

\* decision_path.exists(): without a file the answer is DENY, at once.
LookForDecision ==
    /\ gpc = "exists"
    /\ gpc' = IF file[asked].text = "none" THEN "idle" ELSE "stat"
    /\ UNCHANGED <<asked, granted, file, rpc, req, accepted, exposed>>

\* _decision_file_permission_issue: DENY.
CheckPermissions ==
    /\ gpc = "stat"
    /\ gpc' = IF file[asked].private THEN "read" ELSE "idle"
    /\ UNCHANGED <<asked, granted, file, rpc, req, accepted, exposed>>

\* Defect: the allowlist is not consulted.
Grants_AnyApprover(p) == file[p].text = "approve"

Grants(p) == file[p].text = "approve" /\ file[p].by \in Allowed

\* An empty or garbled file raises out of the gate; a denial, or an approver
\* who is not allowed, is DENY; an approval is validated and consumed.
ReadDecision ==
    /\ gpc = "read"
    /\ granted' = IF Grants(asked) THEN granted \cup {asked} ELSE granted
    /\ gpc' = "idle"
    /\ UNCHANGED <<asked, file, rpc, req, accepted, exposed>>

-----------------------------------------------------------------------------
\* No decision file yet: the handler goes on (otherwise 409).
post_inbox_decide(r, p, v) ==
    /\ rpc[r] = "idle" /\ p <= asked
    /\ file[p].text = "none"
    /\ req' = [req EXCEPT ![r] = [packet |-> p, value |-> v]]
    /\ rpc' = [rpc EXCEPT ![r] = "open"]
    /\ UNCHANGED <<asked, gpc, granted, file, accepted, exposed>>

\* write_text opens the file: a new file gets the mode the umask leaves, an
\* existing one keeps its mode; the text is gone.
OpenFile(r) ==
    LET p == req[r].packet IN
    /\ rpc[r] = "open"
    /\ \E private \in BOOLEAN :
         /\ file[p].text # "none" => private = file[p].private
         /\ file' = [file EXCEPT ![p] = [text |-> "empty", by |-> "nobody",
                                         private |-> private]]
    /\ rpc' = [rpc EXCEPT ![r] = "write"]
    /\ UNCHANGED <<asked, gpc, granted, req, accepted, exposed>>

\* The text is written from offset 0.  Over the text of another handler it
\* leaves the rest of a longer one.
WriteFile(r) ==
    LET p == req[r].packet IN
    /\ rpc[r] = "write"
    /\ \/ file' = [file EXCEPT ![p].text = req[r].value, ![p].by = r]
       \/ /\ file[p].text # "empty"
          /\ file' = [file EXCEPT ![p].text = "garbled", ![p].by = "nobody"]
    /\ rpc' = [rpc EXCEPT ![r] = "chmod"]
    /\ UNCHANGED <<asked, gpc, granted, req, accepted, exposed>>

\* Defect: the file keeps the mode it was created with.
MakePrivate_Never(r) ==
    /\ rpc[r] = "chmod"
    /\ accepted' = accepted \cup {<<req[r].packet, r, req[r].value>>}
    /\ rpc' = [rpc EXCEPT ![r] = "idle"]
    /\ req' = [req EXCEPT ![r] = NoRequest]
    /\ UNCHANGED <<asked, gpc, granted, file, exposed>>

\* _chmod_private, which suppresses an OSError; either way the handler answers
\* with success.
MakePrivate(r) ==
    /\ rpc[r] = "chmod"
    /\ \/ file' = [file EXCEPT ![req[r].packet].private = TRUE] /\ UNCHANGED exposed
       \/ exposed' = exposed \cup {req[r].packet} /\ UNCHANGED file
    /\ accepted' = accepted \cup {<<req[r].packet, r, req[r].value>>}
    /\ rpc' = [rpc EXCEPT ![r] = "idle"]
    /\ req' = [req EXCEPT ![r] = NoRequest]
    /\ UNCHANGED <<asked, gpc, granted>>

Gate == request_packet \/ LookForDecision \/ CheckPermissions \/ ReadDecision
Handler(r) == OpenFile(r) \/ WriteFile(r) \/ MakePrivate(r)

Next ==
    \/ Gate
    \/ \E r \in Reviewers :
         \/ \E p \in Packets, v \in Values : post_inbox_decide(r, p, v)
         \/ Handler(r)

Spec == Init /\ [][Next]_vars

-----------------------------------------------------------------------------

\* However the writing of decision files overlaps with the gate's reading, the
\* gate grants a packet only if an allowed reviewer approved that very packet.
GrantIsApproved ==
    \A p \in granted :
        \/ \E r \in Allowed : <<p, r, "approve">> \in accepted
        \/ \E r \in Allowed : /\ req[r] = [packet |-> p, value |-> "approve"]
                              /\ rpc[r] = "chmod"

\* "A packet accepts exactly one decision (409 on a second attempt)".
OneDecision ==
    \A p \in Packets : Cardinality({x \in accepted : x[1] = p}) <= 1

\* Once the inbox has accepted the only decision of a packet and no handler is
\* at work on it, the file is whole and holds that decision, and the gate will
\* read it: the file is private, unless its chmod failed, of which the reviewer
\* is not told.
AcceptedIsReadable ==
    \A x \in accepted :
        /\ \A y \in accepted : y[1] = x[1] => y = x
        /\ \A r \in Reviewers : req[r].packet # x[1]
        => /\ file[x[1]].text = x[3] /\ file[x[1]].by = x[2]
           /\ file[x[1]].private \/ x[1] \in exposed
=============================================================================
