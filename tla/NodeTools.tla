------------------------------ MODULE NodeTools ------------------------------
(***************************************************************************)
(* The tools of a node that start something outside it: demo servers,      *)
(* browsers that take pictures, the editor's command line and MCP servers. *)
(* Each has to be stopped, closed or remembered when the call that started *)
(* it is answered.  A command runs in a shell: killing the shell may leave *)
(* what it started (an orphan).  Outputs and pictures are left out.        *)
(***************************************************************************)
EXTENDS Naturals, FiniteSets, Sequences

CONSTANTS
    NodeCalls,      \* bound: calls of the tools
    Ports,
    DefaultPort,
    McpServers      \* the configured MCP servers, a sequence

ASSUME NodeToolsAssumption ==
    DefaultPort \in Ports /\ 0 \notin Ports /\ McpServers \in Seq(STRING)

VARIABLES
    use,            \* what each call does, how far it is, the port or MCP server it is at
    process,        \* the process a call started: "none", "up", "orphan" or "gone"
    serves,         \* the port it serves, 0 for none
    taken,          \* ports other programs serve
    runningServers, \* demo servers that are remembered, by the call that started them
    answeredWith,   \* demo servers whose identifier an answer gave
    browser,        \* calls whose browser is open
    client          \* calls whose MCP client is connected

outside == <<process, serves, taken>>
kept == <<runningServers, answeredWith, browser, client>>
nodeToolVars == <<use, outside, kept>>

NodeToolsInit ==
    /\ use = [c \in NodeCalls |-> [tool |-> "none", pc |-> "off", port |-> 0, at |-> 1,
                                    out |-> {}, ok |-> FALSE]]
    /\ process = [c \in NodeCalls |-> "none"] /\ serves = [c \in NodeCalls |-> 0]
    /\ taken \in SUBSET Ports
    /\ runningServers = {} /\ answeredWith = {} /\ browser = {} /\ client = {}

CallAt(c, pc) == use[c].pc = pc
Goes(c, pc) == use' = [use EXCEPT ![c].pc = pc]
Ends(c, ok) == use' = [use EXCEPT ![c].pc = "answered", ![c].ok = ok]
Begins(c, tool, pc, port) ==
    CallAt(c, "off") /\ use' = [use EXCEPT ![c].tool = tool, ![c].pc = pc, ![c].port = port]

\* Some program answers on a port.
Answering(port) == port \in taken \/ \E c \in NodeCalls : serves[c] = port

\* kill() reaches the shell, not always what it started.
Kill(c) ==
    \/ /\ process[c] # "up" /\ UNCHANGED <<process, serves>>
    \/ process[c] = "up" /\ process' = [process EXCEPT ![c] = "orphan"] /\ UNCHANGED serves
    \/ /\ process[c] = "up" /\ process' = [process EXCEPT ![c] = "gone"]
       /\ serves' = [serves EXCEPT ![c] = 0]

-----------------------------------------------------------------------------
(* Demo servers *)

\* startDemoServer, for demo.start and demo.screenshot; the port is given or found later.
BeginDemo(c, tool, port) ==
    /\ Begins(c, tool, "settling", port)
    /\ process' = [process EXCEPT ![c] = "up"]
    /\ UNCHANGED <<serves, taken, kept>>

Listens(c, port) ==
    /\ process[c] = "up" /\ serves[c] = 0 /\ ~Answering(port)
    /\ use[c].tool \in {"start", "shot"}
    /\ serves' = [serves EXCEPT ![c] = port]
    /\ UNCHANGED <<use, process, taken, kept>>

ProcessEnds(c) ==
    /\ process[c] \in {"up", "orphan"}
    /\ process' = [process EXCEPT ![c] = "gone"] /\ serves' = [serves EXCEPT ![c] = 0]
    /\ UNCHANGED <<use, taken, kept>>

\* The output names a port, its own or not; only the first counts.
PortDetected(c, port) ==
    /\ CallAt(c, "settling") /\ process[c] = "up" /\ use[c].port = 0
    /\ use' = [use EXCEPT ![c].port = port]
    /\ UNCHANGED <<outside, kept>>

\* The server is remembered, and demo.start says so.
Remember(c, port) ==
    /\ runningServers' = runningServers \union {c}
    /\ \/ /\ use[c].tool = "start" /\ answeredWith' = answeredWith \union {c}
          /\ use' = [use EXCEPT ![c].pc = "answered", ![c].ok = TRUE, ![c].port = port]
       \/ /\ use[c].tool = "shot" /\ UNCHANGED answeredWith
          /\ use' = [use EXCEPT ![c].pc = "launching", ![c].port = port]
    /\ UNCHANGED <<outside, browser, client>>

\* After two seconds: without a port the default is assumed, and nobody looks whether it answers.
DemoSettled(c) ==
    /\ CallAt(c, "settling")
    /\ \/ use[c].port = 0 /\ Remember(c, DefaultPort)
       \/ /\ use[c].port # 0 /\ Goes(c, "waiting")
          /\ UNCHANGED <<outside, kept>>

\* waitForPort: whoever answers on the port.
PortReady(c) == CallAt(c, "waiting") /\ Answering(use[c].port) /\ Remember(c, use[c].port)

\* Mutant: a server that is not ready is left to itself.
NotReadyOnly(c) ==
    /\ CallAt(c, "waiting") /\ Ends(c, FALSE)
    /\ UNCHANGED <<outside, kept>>

NotReady(c) ==
    /\ CallAt(c, "waiting") /\ Ends(c, FALSE) /\ Kill(c)
    /\ UNCHANGED <<taken, kept>>

\* demo.stop, by an agent that was told the identifier; an unknown one is an error.
StopDemo(c) ==
    /\ c \in answeredWith \intersect runningServers
    /\ Kill(c)
    /\ runningServers' = runningServers \ {c}
    /\ UNCHANGED <<use, taken, answeredWith, browser, client>>

-----------------------------------------------------------------------------
(* Pictures *)

\* The tool screenshot.
BeginPicture(c) ==
    /\ Begins(c, "picture", "launching", 0)
    /\ UNCHANGED <<outside, kept>>

\* demo.screenshot names its server only beside a picture.
Pictured(c, ok) ==
    /\ Ends(c, ok)
    /\ answeredWith' = IF ok /\ use[c].tool = "shot" THEN answeredWith \union {c} ELSE answeredWith

\* puppeteer is not installed, or no browser starts.
NoBrowser(c) ==
    /\ CallAt(c, "launching") /\ Pictured(c, FALSE)
    /\ UNCHANGED <<outside, runningServers, browser, client>>

Launched(c) ==
    /\ CallAt(c, "launching") /\ Goes(c, "shooting")
    /\ browser' = browser \union {c}
    /\ UNCHANGED <<outside, runningServers, answeredWith, client>>

\* Mutant: a page that fails ends the call.
ShotOrEnd(c, ok) ==
    /\ CallAt(c, "shooting")
    /\ use' = [use EXCEPT ![c].pc = IF ok THEN "closing" ELSE "answered", ![c].ok = ok]
    /\ UNCHANGED <<outside, kept>>

\* The page is pictured, or a step of it fails or runs into its timer; the browser is closed.
Shot(c, ok) ==
    /\ CallAt(c, "shooting")
    /\ use' = [use EXCEPT ![c].pc = "closing", ![c].ok = ok]
    /\ UNCHANGED <<outside, kept>>

CloseBrowser(c) ==
    /\ CallAt(c, "closing")
    /\ Pictured(c, use[c].ok)
    /\ browser' = browser \ {c}
    /\ UNCHANGED <<outside, runningServers, client>>

-----------------------------------------------------------------------------
(* The editor's command line *)

RunCode(c) ==
    /\ Begins(c, "code", "running", 0)
    /\ process' = [process EXCEPT ![c] = "up"]
    /\ UNCHANGED <<serves, taken, kept>>

\* The process closes; what closes after the timer is heard by nobody.
CodeCloses(c) ==
    /\ CallAt(c, "running") /\ process[c] = "gone" /\ Ends(c, TRUE)
    /\ UNCHANGED <<outside, kept>>

CodeTimesOut(c) ==
    /\ CallAt(c, "running") /\ Ends(c, FALSE) /\ Kill(c)
    /\ UNCHANGED <<taken, kept>>

-----------------------------------------------------------------------------
(* MCP servers: listAllMcpTools asks one after the other, callMcpToolOnServer one of them. *)

BeginMcp(c, tool, at) ==
    /\ CallAt(c, "off")
    /\ use' = [use EXCEPT ![c].tool = tool, ![c].at = at,
                            ![c].pc = IF at > Len(McpServers) THEN "answered" ELSE "connecting",
                            ![c].ok = at > Len(McpServers)]
    /\ UNCHANGED <<outside, kept>>

\* A connection that fails is closed by the client library.
Connects(c, ok) ==
    /\ CallAt(c, "connecting")
    /\ \/ ok /\ Goes(c, "asking") /\ client' = client \union {c}
       \/ ~ok /\ Ends(c, FALSE) /\ UNCHANGED client
    /\ UNCHANGED <<outside, runningServers, answeredWith, browser>>

\* Mutant: a server that fails is left out of the list.
McpSkips(c, ok) ==
    LET got == use[c].out \union (IF ok THEN {McpServers[use[c].at]} ELSE {})
        more == use[c].tool = "list" /\ use[c].at < Len(McpServers)
    IN
    /\ CallAt(c, "asking")
    /\ client' = client \ {c}
    /\ \/ more /\ use' = [use EXCEPT ![c].pc = "connecting", ![c].at = @ + 1, ![c].out = got]
       \/ ~more /\ use' = [use EXCEPT ![c].pc = "answered", ![c].ok = TRUE, ![c].out = got]
    /\ UNCHANGED <<outside, runningServers, answeredWith, browser>>

\* The answer comes, or an error; either way the client is closed.  A list goes on to the next
\* server, and one server that fails fails the list.
McpAnswers(c, ok) ==
    LET got == use[c].out \union {McpServers[use[c].at]}
        more == use[c].tool = "list" /\ use[c].at < Len(McpServers)
    IN
    /\ CallAt(c, "asking")
    /\ client' = client \ {c}
    /\ \/ ~ok /\ Ends(c, FALSE)
       \/ ok /\ more /\ use' = [use EXCEPT ![c].pc = "connecting", ![c].at = @ + 1, ![c].out = got]
       \/ ok /\ ~more /\ use' = [use EXCEPT ![c].pc = "answered", ![c].ok = TRUE, ![c].out = got]
    /\ UNCHANGED <<outside, runningServers, answeredWith, browser>>

-----------------------------------------------------------------------------

\* Steps of calls that are under way: answers, failures and timers.
CallSteps(c) ==
    \/ DemoSettled(c) \/ PortReady(c) \/ NotReady(c)
    \/ NoBrowser(c) \/ Launched(c) \/ CloseBrowser(c)
    \/ CodeCloses(c) \/ CodeTimesOut(c)
    \/ \E ok \in BOOLEAN : Shot(c, ok) \/ Connects(c, ok) \/ McpAnswers(c, ok)

NodeToolsNext ==
    \E c \in NodeCalls :
      \/ \E tool \in {"start", "shot"}, port \in Ports \union {0} : BeginDemo(c, tool, port)
      \/ \E port \in Ports : Listens(c, port) \/ PortDetected(c, port)
      \/ ProcessEnds(c) \/ StopDemo(c)
      \/ BeginPicture(c) \/ RunCode(c)
      \/ BeginMcp(c, "list", 1) \/ \E at \in 1..Len(McpServers) : BeginMcp(c, "call", at)
      \/ CallSteps(c)

\* Timers fire, browsers and MCP servers answer or fail.
NodeToolsFairness == \A c \in NodeCalls : WF_nodeToolVars(CallSteps(c))

-----------------------------------------------------------------------------

\* A process that a tool started, and that nobody has killed, belongs to a call that is not
\* answered or to a server that is remembered.
NoProcessIsLost ==
    \A c \in NodeCalls :
        process[c] = "up" /\ CallAt(c, "answered") => c \in runningServers

\* Browsers and MCP clients are closed with their call, and a list that is answered names the
\* tools of every server.
NothingStaysOpen ==
    \A c \in NodeCalls : CallAt(c, "answered") =>
        /\ c \notin browser \union client
        /\ use[c].tool = "list" /\ use[c].ok =>
             use[c].out = {McpServers[i] : i \in DOMAIN McpServers}

NodeToolsAreSound == NoProcessIsLost /\ NothingStaysOpen

\* Every call is answered, whether its server, browser or program answers or not.
NodeCallsEnd == \A c \in NodeCalls : []<>(CallAt(c, "off") \/ CallAt(c, "answered"))
=============================================================================
