---------------------------- MODULE ScanCommands ----------------------------
(***************************************************************************)
(* The operator's commands: /scan on, off, on-group, off-group and off-all *)
(* of the Telegram bot with the loop that receives them                    *)
(* (TelegramBotService.poll_forever), the same commands as admin routes,   *)
(* and the worker's cleanup and archive lists.  A command first reads the  *)
(* rows it names, one by one or as a group, and then writes those it kept. *)
(*                                                                         *)
(* Updates are numbered 1, 2, ...; the bot's offset is the number of the   *)
(* first update it has not taken, 0 after a start.  Telegram forgets the   *)
(* updates below the offset of a get_updates call and delivers the others  *)
(* again.                                                                  *)
(***************************************************************************)
EXTENDS DeviceRegistry, Sequences

CONSTANTS Operator,         \* "bot", and whoever uses the routes or the CLI
          Commands,         \* the commands they give
          Updates,          \* the updates the chat will hold, as commands
          Oversized,        \* commands whose reply Telegram refuses
          MaxRequests       \* bound on the commands given outside the chat

ASSUME CommandAssumption ==
  /\ "bot" \in Operator
  /\ Commands \subseteq [kind : {"models", "group", "all", "cleanup", "other"},
                         models : SUBSET Device, on : BOOLEAN]
  /\ Updates \in Seq(Commands)
  /\ MaxRequests \in Nat

VARIABLES op,               \* op[o]: the command o is executing
          bot,              \* the bot's process
          arrived,          \* how many updates the chat holds
          confirmed,        \* how many Telegram has forgotten
          executed,         \* updates whose command was carried out
          requests          \* commands given outside the chat

commandVars == <<op, bot, arrived, confirmed, executed, requests>>

NoCommand == [kind |-> "other", models |-> {}, on |-> FALSE]
NoOp == [at |-> "idle", cmd |-> NoCommand, todo |-> {}, known |-> {}]

\* `next' and `last' delimit the batch of updates that is being handled.
Started == [up |-> TRUE, offset |-> 0, next |-> 1, last |-> 0]
Stopped == [Started EXCEPT !.up = FALSE]

CommandInit ==
  /\ op = [o \in Operator |-> NoOp]
  /\ bot = Started
  /\ arrived = 0
  /\ confirmed = 0
  /\ executed = {}
  /\ requests = 0

BotAtRest == bot.up /\ op["bot"].at = "idle"
Polling == BotAtRest /\ bot.next > bot.last
Larger(m, n) == IF m > n THEN m ELSE n

---------------------------------------------------------------------------
(* Carrying out a command.                                                 *)

Accept(o, cmd) ==
  op' = [op EXCEPT ![o] = [at |-> "checking", cmd |-> cmd,
                           todo |-> cmd.models, known |-> {}]]

\* get_by_product_model finds the model, with a manifest code if it is to be
\* switched on.
Switchable(cmd, d) == device[d].stored /\ (cmd.on => device[d].manifest)

\* set_models and archive_models_from_list look the models up one by one.
CheckModel(o, d) ==
  LET c == op[o] IN
  /\ c.at = "checking"
  /\ c.cmd.kind = "models"
  /\ d \in c.todo
  /\ op' = [op EXCEPT ![o] = [at |-> c.at, cmd |-> c.cmd, todo |-> c.todo \ {d},
                              known |-> IF Switchable(c.cmd, d) THEN c.known \cup {d}
                                                               ELSE c.known]]

\* enable_group and cleanup_scan_eligibility list the devices at once.  One
\* without a manifest reads as switched off: a cleanup finds legacy ones only.
Found(cmd) ==
  IF cmd.kind = "cleanup"
  THEN {d \in Legacy : device[d].stored /\ ReadEnabled(d)}
  ELSE {d \in cmd.models : Switchable(cmd, d)}

CheckListing(o) ==
  /\ op[o].at = "checking"
  /\ op[o].cmd.kind \in {"group", "cleanup"}
  /\ op' = [op EXCEPT ![o] = [at |-> "checked", cmd |-> op[o].cmd,
                              todo |-> {}, known |-> Found(op[o].cmd)]]

\* The command's statement, when there is nothing left to read.
Checked(o) ==
  \/ op[o].at = "checked"
  \/ /\ op[o].at = "checking"
     /\ \/ op[o].cmd.kind \in {"all", "other"}
        \/ op[o].cmd.kind = "models" /\ op[o].todo = {}

Apply(o) ==
  LET c == op[o] IN
  /\ Checked(o)
  /\ CASE c.cmd.kind = "all"   -> SetAllScanEnabled(FALSE)
       [] c.cmd.kind = "other" -> UNCHANGED <<device, disturbed>>
       [] OTHER                -> SetScanEnabled(c.known, c.cmd.on)
  /\ op' = [op EXCEPT ![o].at = "replying"]
  /\ executed' = IF o = "bot" THEN executed \cup {bot.next} ELSE executed
  /\ UNCHANGED <<failing, faults, bot, arrived, confirmed, requests>>

CommandStep(o) ==
  \/ /\ CheckListing(o) \/ \E d \in Device : CheckModel(o, d)
     /\ UNCHANGED <<registryVars, bot, arrived, confirmed, executed, requests>>
  \/ Apply(o)

---------------------------------------------------------------------------
(* The bot.                                                                *)

UpdateArrives ==
  /\ arrived < Len(Updates)
  /\ arrived' = arrived + 1
  /\ UNCHANGED <<registryVars, op, bot, confirmed, executed, requests>>

\* Mutant: receiving the updates confirms them.
GetUpdatesConfirming ==
  /\ Polling
  /\ confirmed < arrived
  /\ confirmed' = arrived
  /\ bot' = [bot EXCEPT !.next = confirmed + 1, !.last = arrived]
  /\ UNCHANGED <<registryVars, op, arrived, executed, requests>>

\* get_updates: what lies below the offset is confirmed, the rest delivered.
GetUpdates ==
  /\ Polling
  /\ confirmed' = Larger(confirmed, bot.offset - 1)
  /\ confirmed' < arrived \/ confirmed' # confirmed
  /\ bot' = [bot EXCEPT !.next = confirmed' + 1, !.last = arrived]
  /\ UNCHANGED <<registryVars, op, arrived, executed, requests>>

\* Mutant: the offset moves past the next update, too.
TakeUpdateAndSkip ==
  /\ BotAtRest
  /\ bot.next <= bot.last
  /\ bot' = [bot EXCEPT !.offset = Larger(@, bot.next + 2)]
  /\ Accept("bot", Updates[bot.next])
  /\ UNCHANGED <<registryVars, arrived, confirmed, executed, requests>>

\* The offset moves before the command is handled.
TakeUpdate ==
  /\ BotAtRest
  /\ bot.next <= bot.last
  /\ bot' = [bot EXCEPT !.offset = Larger(@, bot.next + 1)]
  /\ Accept("bot", Updates[bot.next])
  /\ UNCHANGED <<registryVars, arrived, confirmed, executed, requests>>

ReplySent ==
  /\ op["bot"].at = "replying"
  /\ op["bot"].cmd \notin Oversized
  /\ op' = [op EXCEPT !["bot"] = NoOp]
  /\ bot' = [bot EXCEPT !.next = @ + 1]
  /\ UNCHANGED <<registryVars, arrived, confirmed, executed, requests>>

\* An exception ends the process.  Telegram refuses an oversized reply each
\* time, so that exception is not a fault of the environment.
ReplyRefused ==
  /\ op["bot"].at = "replying"
  /\ op["bot"].cmd \in Oversized
  /\ op' = [op EXCEPT !["bot"] = NoOp]
  /\ bot' = Stopped
  /\ UNCHANGED <<registryVars, arrived, confirmed, executed, requests>>

BotDies ==
  /\ bot.up
  /\ Fault
  /\ op' = [op EXCEPT !["bot"] = NoOp]
  /\ bot' = Stopped
  /\ UNCHANGED <<device, failing, disturbed, arrived, confirmed, executed, requests>>

Restart ==
  /\ ~bot.up
  /\ bot' = Started
  /\ UNCHANGED <<registryVars, op, arrived, confirmed, executed, requests>>

---------------------------------------------------------------------------
(* Admin routes, and the worker's maintenance commands.                    *)

Request(o, cmd) ==
  /\ o # "bot"
  /\ op[o].at = "idle"
  /\ requests < MaxRequests
  /\ requests' = requests + 1
  /\ Accept(o, cmd)
  /\ UNCHANGED <<registryVars, bot, arrived, confirmed, executed>>

Respond(o) ==
  /\ o # "bot"
  /\ op[o].at = "replying"
  /\ op' = [op EXCEPT ![o] = NoOp]
  /\ UNCHANGED <<registryVars, bot, arrived, confirmed, executed, requests>>

BotStep == \/ CommandStep("bot")
           \/ GetUpdates \/ TakeUpdate \/ ReplySent \/ ReplyRefused \/ Restart

RequestStep(o) == o # "bot" /\ (CommandStep(o) \/ Respond(o))

---------------------------------------------------------------------------
(* Properties.                                                             *)

\* What Telegram was told to forget was carried out: the offset that confirms
\* an update moves before the update is handled, and only the death of the
\* process, which loses it, keeps a failed command from being confirmed.
ConfirmedWasHandled == 1..confirmed \subseteq executed

\* Every command is carried out in the end, whatever dies, unless an update
\* before it has a reply that Telegram always refuses.
CommandsAreHandled ==
  \A u \in 1..Len(Updates) :
    (arrived >= u /\ \A v \in 1..(u - 1) : Updates[v] \notin Oversized) ~> u \in executed

\* What SCHEDULER.md says: enabling a model resets its failure counter.
EnablingResetsFailures ==
  [][\A o \in Operator :
       op[o].at # "replying" /\ op'[o].at = "replying" /\ op[o].cmd.on =>
         \A d \in op[o].known : device'[d].failures = 0]_<<op, device>>
=============================================================================
