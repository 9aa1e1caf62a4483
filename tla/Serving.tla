------------------------------ MODULE Serving -------------------------------
(***************************************************************************)
(* The jiandu binary over one data directory (bin/jiandu.rs): the command  *)
(* line makes the process an MCP server or a console, and either works     *)
(* beside other processes that write to the same scopes.  The third        *)
(* command, import-bamboo, is BambooImport.                                *)
(***************************************************************************)
EXTENDS Gateway, Console

VARIABLE command    \* AppCommand, as parsed

servingVars == <<command, scopeVars, gatewayVars, consoleVars>>

Commands == {"serve", "ui"}

\* main: parse_args picks the command once, for the life of the process.
Init ==
    /\ command \in Commands
    /\ ScopesInit
    /\ GatewayInit
    /\ ConsoleInit

\* serve_stdio, beside other processes on the same scopes.
Serve ==
    /\ command = "serve"
    /\ \/ GatewayStep
       \/ OthersStep /\ UNCHANGED gatewayVars
    /\ UNCHANGED <<command, consoleVars>>

\* serve_ui.  What other processes do to the documents does not tell the pages
\* apart, what they do to the sessions does (OtherNotes).
ServeUi ==
    /\ command = "ui"
    /\ ConsoleStep
    /\ UNCHANGED <<command, gatewayVars>>

Next == Serve \/ ServeUi

Spec == Init /\ [][Next]_servingVars

TypeOK ==
    /\ command \in Commands
    /\ ScopesTypeOK
    /\ GatewayTypeOK
    /\ ConsoleTypeOK

=============================================================================
