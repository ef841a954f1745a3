-------------------------------- MODULE McpPanel --------------------------------
(***************************************************************************)
(* The MCP panel (Mcp.tsx): the registered servers and the draft of one,   *)
(* the tools a server offers, and a tool's call, which the user approves   *)
(* or, under some policies, has approved before.  Every request leaves the *)
(* user free to select another server while it is out.                     *)
(***************************************************************************)
EXTENDS Naturals, FiniteSets

CONSTANTS
  Ids,          \* ids a saved server may get
  NoId,
  Tools, NoTool,
  MaxRequests   \* bound: requests sent

VARIABLE mcp
vars == <<mcp>>

Policies == {"always-ask", "once", "session", "server-tool", "deny"}
Skipping == {"session", "server-tool"}  \* the policies that remember an approval
Key(server, tool) == <<server, tool>>   \* approvalKey
Keys == Ids \X Tools

TypeOK ==
  /\ mcp.servers \cup mcp.shown \subseteq Ids /\ mcp.selected \in Ids \cup {NoId}
  /\ mcp.policy \in Policies /\ mcp.approved \subseteq Keys
  /\ {mcp.tools} \subseteq SUBSET Tools
  /\ {mcp.tool, mcp.approval} \subseteq Tools \cup {NoTool}
  /\ {mcp.busy, mcp.loading} \subseteq BOOLEAN
  /\ \A c \in mcp.calls : Key(c.server, c.tool) \in Keys /\ c.policy \in Policies
  /\ mcp.asks \subseteq [kind : {"save", "remove", "tools"}, id : Ids, while : Ids \cup {NoId}]
  /\ mcp.byHand \subseteq Keys /\ mcp.requests \in 0..MaxRequests

Init ==
  \E servers \in SUBSET Ids, policy \in Policies :
    mcp = [ servers |-> servers,   \* the registry of the back end
            shown |-> servers,     \* servers, as listed last
            selected |-> NoId,     \* selectedId
            policy |-> policy, approved |-> {},
            tools |-> {}, loading |-> FALSE, tool |-> NoTool,
            approval |-> NoTool,   \* the call the approval box is about
            busy |-> FALSE,        \* approvalBusyRef
            calls |-> {}, asks |-> {},
            byHand |-> {},         \* calls the user has approved, for the properties
            requests |-> 0 ]

Requests == mcp.requests < MaxRequests
Cleared(m) == [m EXCEPT !.tools = {}, !.tool = NoTool, !.approval = NoTool]
\* resetDraft; the policy is stored when it is chosen, and read back.
Reset(m) == [Cleared(m) EXCEPT !.selected = NoId, !.approved = {}]

NewItem == mcp.selected # NoId /\ mcp' = Reset(mcp)
SelectServer == \E id \in mcp.shown : mcp' = [Cleared(mcp) EXCEPT !.selected = id]
ChoosePolicy ==
  \E p \in Policies \ {mcp.policy} : mcp' = [mcp EXCEPT !.policy = p, !.approved = {}]

Ask(kind, id) ==
  /\ Requests
  /\ mcp' = [mcp EXCEPT !.asks = @ \cup {[kind |-> kind, id |-> id, while |-> mcp.selected]},
               !.requests = @ + 1, !.loading = @ \/ kind = "tools"]

\* save, of a valid draft: a new one gets an id of its own.
Save ==
  \/ mcp.selected # NoId /\ Ask("save", mcp.selected)
  \/ mcp.selected = NoId /\ \E id \in Ids \ (mcp.servers \cup {a.id : a \in mcp.asks}) : Ask("save", id)
\* doRemove, at once or from its dialog; its closure has the server selected now.
Remove == \E id \in mcp.shown : Ask("remove", id)
DiscoverTools == mcp.selected \in mcp.shown /\ ~mcp.loading /\ Ask("tools", mcp.selected)

Answered ==
  \E a \in mcp.asks :
    LET m == [mcp EXCEPT !.asks = @ \ {a}, !.loading = @ /\ a.kind # "tools"] IN
    \/ /\ a.kind = "save"
       /\ mcp' = [m EXCEPT !.servers = @ \cup {a.id}, !.shown = mcp.servers \cup {a.id}, !.selected = a.id]
    \/ /\ a.kind = "remove"
       /\ LET gone == [m EXCEPT !.servers = @ \ {a.id}, !.shown = mcp.servers \ {a.id}]
          IN  mcp' = IF a.while = a.id THEN Reset(gone) ELSE gone
    \/ a.kind = "tools" /\ \E ts \in SUBSET Tools : mcp' = [m EXCEPT !.tools = ts]
    \/ mcp' = m  \* failed

SelectTool == \E t \in mcp.tools : mcp' = [mcp EXCEPT !.tool = t, !.approval = NoTool]

-----------------------------------------------------------------------------
\* Mutant: an approval counts for every server.
CanAutoApprove_AnyServer(m) ==
  m.policy \in Skipping /\ \E k \in m.approved : k[2] = m.tool

CanAutoApprove(m) == m.policy \in Skipping /\ Key(m.selected, m.tool) \in m.approved

\* Mutant: a call that is awaited may be made again.
RunToolCall_Again(m, tool, auto) ==
  [m EXCEPT !.busy = TRUE, !.approval = NoTool, !.requests = @ + 1,
     !.calls = @ \cup {[server |-> m.selected, tool |-> tool, policy |-> m.policy, auto |-> auto,
                        nr |-> m.requests]},
     !.byHand = IF auto THEN @ ELSE @ \cup {Key(m.selected, tool)}]

\* runToolCall returns at once with no server, or while another call is out.
RunToolCall(m, tool, auto) ==
  IF m.busy \/ m.selected = NoId THEN m
  ELSE [m EXCEPT !.busy = TRUE, !.approval = NoTool, !.requests = @ + 1,
          !.calls = @ \cup {[server |-> m.selected, tool |-> tool, policy |-> m.policy, auto |-> auto,
                             nr |-> m.requests]},
          !.byHand = IF auto THEN @ ELSE @ \cup {Key(m.selected, tool)}]

\* prepareCall, with arguments that parse.
PrepareCall ==
  /\ Requests /\ mcp.tool # NoTool /\ mcp.selected \in mcp.shown
  /\ mcp' = CASE mcp.policy = "deny" -> mcp
              [] mcp.policy # "deny" /\ CanAutoApprove(mcp) -> RunToolCall(mcp, mcp.tool, TRUE)
              [] OTHER -> [mcp EXCEPT !.approval = mcp.tool]

\* approveCall; the box is only shown with a selected server that is listed,
\* and its buttons are off while a call is out.
Approve ==
  /\ Requests /\ mcp.approval # NoTool /\ mcp.selected \in mcp.shown /\ ~mcp.busy
  /\ mcp' = RunToolCall(mcp, mcp.approval, FALSE)
Dismiss == mcp.approval # NoTool /\ ~mcp.busy /\ mcp' = [mcp EXCEPT !.approval = NoTool]

\* A call that went well under a policy that remembers makes its pair approved.
CallReturns ==
  \E c \in mcp.calls :
    LET m == [mcp EXCEPT !.calls = @ \ {c}, !.busy = FALSE] IN
    \/ mcp' = IF c.policy \in Skipping THEN [m EXCEPT !.approved = @ \cup {Key(c.server, c.tool)}] ELSE m
    \/ mcp' = m  \* failed

Next ==
  \/ NewItem \/ SelectServer \/ ChoosePolicy \/ Save \/ Remove \/ DiscoverTools \/ Answered
  \/ SelectTool \/ PrepareCall \/ Approve \/ Dismiss \/ CallReturns

Spec == Init /\ [][Next]_vars

-----------------------------------------------------------------------------
\* A call runs unasked only for a server and a tool of it the user has
\* approved together by hand before: not for another server's tool of the same
\* name, whatever was selected, saved or removed since (Mcp.tsx:176).
AutoApprovedByHand == \A c \in mcp.calls : c.auto => Key(c.server, c.tool) \in mcp.byHand

\* A tool runs once for one approval: however often "run" and "review" are
\* pressed while a call is out, there is one call.
OneToolCall == Cardinality(mcp.calls) <= 1 /\ (mcp.busy <=> mcp.calls # {})
================================================================================
