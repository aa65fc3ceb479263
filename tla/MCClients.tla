------------------------------ MODULE MCClients ------------------------------
(***************************************************************************)
(* What a user sees and edits: the configuration program with the files it *)
(* writes, an open chat session with its composer and messages, the chat   *)
(* of the terminal, the output of a terminal session, the list of devices, *)
(* the editor of a definition and the wizard that creates an agent.  They  *)
(* share no variable: a behaviour is one of one of them while the others   *)
(* rest.                                                                   *)
(***************************************************************************)
EXTENDS ConfigTui, AgentSession, DefinitionEditor, AgentCreation, TerminalOutput, ChatComposer,
        ChatMessages, ChatTui, DeviceDirectory, TLC

MCPresets == <<[name |-> "p", url |-> "u"]>>
MCImports == {<<[name |-> "p", url |-> "u", key |-> Unset, models |-> TRUE],
                [name |-> "q", url |-> Unset, key |-> "k", models |-> FALSE]>>}
MCTools == {<<[name |-> "q", url |-> Unset, key |-> "k"]>>,
            <<[name |-> "p", url |-> "u", key |-> Unset]>>}

\* No files; a file of the home directory with a placeholder; two files, of which one is hidden.
MCHome(secret) ==
    [providers |-> <<[Entry("p", "u", TRUE) EXCEPT !.secret = secret]>>, cloud |-> FALSE]
MCFirstDisks ==
    {[cwd |-> Unset, home |-> Unset, auth |-> [n \in Names |-> Unset]],
     [cwd |-> Unset, home |-> MCHome("placeholder"), auth |-> [n \in Names |-> "k"]],
     [cwd |-> [NoConfig EXCEPT !.providers = <<Entry("q", Unset, FALSE), Entry("p", "u", TRUE)>>],
      home |-> MCHome(Unset), auth |-> [n \in Names |-> IF n = "p" THEN "k" ELSE Unset]]}

\* The newest stored session of the terminal's chat.
MCSaved == <<"user", "assistant">>
-----------------------------------------------------------------------------

VARIABLE part    \* the part whose behaviour this is

Parts == {"config", "session", "editor", "wizard", "dialog", "output", "send", "target", "turns",
          "details", "question", "tui", "devices", "memory"}

clientVars == <<configVars, sessionVars, editorVars, wizardVars, outputVars, sendVars, targetVars,
                logVars, detailVars, questionVars, tuiVars, directoryVars,
                memoryVars, part>>

AnyQuestion == [kind |-> "text", agent |-> TRUE, freeform |-> TRUE]

Init ==
    /\ part \in Parts
    /\ ConfigInit /\ SessionInit /\ EditorInit /\ CreationInit /\ OutputInit
    /\ ComposerInit /\ MessagesInit /\ TuiInit /\ DirectoryInit /\ MemoryInit
    /\ part # "config" => disk = CHOOSE d \in FirstDisks : TRUE
    /\ part # "target" => busy = FALSE
    /\ part # "question" => question = AnyQuestion
    /\ part # "memory" => \A p \in Peers : memory.trust[p] = "none"
    /\ part # "tui" => launch = "init" /\ provider = "none"

Next ==
    /\ UNCHANGED part
    /\ \/ /\ part = "config" /\ ConfigNext
          /\ UNCHANGED <<sessionVars, editorVars, wizardVars, outputVars, sendVars, targetVars,
                         logVars, detailVars, questionVars, tuiVars, directoryVars, memoryVars>>
       \/ /\ part = "session" /\ SessionNext
          /\ UNCHANGED <<configVars, editorVars, wizardVars, outputVars, sendVars, targetVars,
                         logVars, detailVars, questionVars, tuiVars, directoryVars, memoryVars>>
       \/ /\ part = "editor" /\ EditorNext
          /\ UNCHANGED <<configVars, sessionVars, wizardVars, outputVars, sendVars, targetVars,
                         logVars, detailVars, questionVars, tuiVars, directoryVars, memoryVars>>
       \/ /\ part = "wizard" /\ CreationNext
          /\ UNCHANGED <<configVars, sessionVars, editorVars, outputVars, sendVars, targetVars,
                         logVars, detailVars, questionVars, tuiVars, directoryVars, memoryVars>>
       \/ /\ part = "dialog" /\ DialogNext
          /\ UNCHANGED <<configVars, sessionVars, editorVars, outputVars, sendVars, targetVars,
                         logVars, detailVars, questionVars, tuiVars, directoryVars, memoryVars>>
       \/ /\ part = "output" /\ OutputNext
          /\ UNCHANGED <<configVars, sessionVars, editorVars, wizardVars, sendVars, targetVars,
                         logVars, detailVars, questionVars, tuiVars, directoryVars, memoryVars>>
       \/ /\ part = "send" /\ SendNext
          /\ UNCHANGED <<configVars, sessionVars, editorVars, wizardVars, outputVars, targetVars,
                         logVars, detailVars, questionVars, tuiVars, directoryVars, memoryVars>>
       \/ /\ part = "target" /\ TargetNext
          /\ UNCHANGED <<configVars, sessionVars, editorVars, wizardVars, outputVars, sendVars,
                         logVars, detailVars, questionVars, tuiVars, directoryVars, memoryVars>>
       \/ /\ part = "turns" /\ TurnsNext
          /\ UNCHANGED <<configVars, sessionVars, editorVars, wizardVars, outputVars, sendVars,
                         targetVars, detailVars, questionVars, tuiVars, directoryVars, memoryVars>>
       \/ /\ part = "details" /\ DetailNext
          /\ UNCHANGED <<configVars, sessionVars, editorVars, wizardVars, outputVars, sendVars,
                         targetVars, logVars, questionVars, tuiVars, directoryVars, memoryVars>>
       \/ /\ part = "question" /\ QuestionNext
          /\ UNCHANGED <<configVars, sessionVars, editorVars, wizardVars, outputVars, sendVars,
                         targetVars, logVars, detailVars, tuiVars, directoryVars, memoryVars>>
       \/ /\ part = "tui" /\ TuiNext
          /\ UNCHANGED <<configVars, sessionVars, editorVars, wizardVars, outputVars, sendVars,
                         targetVars, logVars, detailVars, questionVars, directoryVars, memoryVars>>
       \/ /\ part = "devices" /\ DirectoryNext
          /\ UNCHANGED <<configVars, sessionVars, editorVars, wizardVars, outputVars, sendVars,
                         targetVars, logVars, detailVars, questionVars, tuiVars, memoryVars>>
       \/ /\ part = "memory" /\ MemoryNext
          /\ UNCHANGED <<configVars, sessionVars, editorVars, wizardVars, outputVars, sendVars,
                         targetVars, logVars, detailVars, questionVars, tuiVars, directoryVars>>

FairSpec ==
    /\ Init /\ [][Next]_clientVars
    /\ ConfigFairness /\ SessionFairness /\ OutputFairness
    /\ ComposerFairness /\ MessagesFairness /\ TuiFairness

-----------------------------------------------------------------------------

\* The lists of providers and of devices are those of what they list.
ListsAreCurrent ==
    ListIsCurrent /\ ListenersAreCurrent /\ OnlineIsConnected /\ MemoryListsAreCurrent

\* What is shown is the log, the output, the turn, the details and the reply it stands for.
ShownIsTrue ==
    /\ ShownIsTheLog /\ NoticesAreTheOutput /\ ReadersSeeTheOutput
    /\ TurnActionsAgree /\ PanelIsSound /\ ReplyIsWhole

\* Saved edits are saved, indicators end with what they indicate, created agents are those that
\* were shown, a message takes the file that was shown, a running turn is restarted only when
\* asked for, and a question is answered once.
EditingIsSound ==
    /\ EditsAreSaved /\ EditorSettles /\ CreationSettles /\ AgentsAreAccountedFor
    /\ AttachmentsAreShown /\ RestartsAreAsked /\ QuestionAnsweredOnce

\* Diagnostics end, the status that is shown catches up with the agent's, readers of output return,
\* dialogs unlock, panels get their answer and a chat's messages are handled.
ClientsSettle ==
    /\ ChecksStop /\ StatusCatchesUp /\ FollowersReturn /\ DialogUnlocks
    /\ PanelAnswers /\ MessagesAreHandled
=============================================================================
