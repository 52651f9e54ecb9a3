------------------------------ MODULE MCTools ------------------------------
(***************************************************************************)
(* The modules about tools, tasks, chats, cron notes and checklists share  *)
(* no state.  One run checks them side by side: a behaviour is about one.  *)
(***************************************************************************)
EXTENDS NoteTools, AgentTasks, Conversation, CronIntake, Checklist

VARIABLE topic
vars == <<topic, toolVars, taskVars, chatVars, intakeVars, listVars>>

Init ==
    /\ topic \in {"notes", "tasks", "chat", "cron", "items"}
    /\ ToolsInit /\ (topic # "notes" => store = "pg" /\ tools = {})
    /\ TasksInit /\ (topic # "tasks" => base = "pg" /\ level = "full_auto" /\ causes = [n \in Topics |-> {}])
    /\ ChatInit /\ IntakeInit
    /\ ListInit /\ (topic # "items" => item = [i \in Slots |-> "unused"])

Next ==
    /\ UNCHANGED topic
    /\ \/ topic = "notes" /\ ToolsNext /\ UNCHANGED <<taskVars, chatVars, intakeVars, listVars>>
       \/ topic = "tasks" /\ TasksNext /\ UNCHANGED <<toolVars, chatVars, intakeVars, listVars>>
       \/ topic = "chat" /\ ChatNext /\ UNCHANGED <<toolVars, taskVars, intakeVars, listVars>>
       \/ topic = "cron" /\ IntakeNext /\ UNCHANGED <<toolVars, taskVars, chatVars, listVars>>
       \/ topic = "items" /\ ListNext /\ UNCHANGED <<toolVars, taskVars, chatVars, intakeVars>>

Spec == Init /\ [][Next]_vars
=============================================================================
