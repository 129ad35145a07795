------------------------------- MODULE SetUp -------------------------------
(***************************************************************************)
(* The first start of the observer (app_config.py, hub_setup.py, register  *)
(* of hub_client.py): the configuration file of a PC, the id of the        *)
(* installation, and the registration that gives it a token of the hub for *)
(* one invite code.  Several observers may run on the PC, a person edits   *)
(* the file, and a request may be answered late or never.                  *)
(*                                                                         *)
(* The tokens of the slot are numbered as the hub gives them out; a token  *)
(* stands for the device, its id and the address saved with it.            *)
(***************************************************************************)
EXTENDS Naturals, FiniteSets

CONSTANTS
  Agents,      \* the observers that may run at the same time
  MaxTokens, MaxStarts, MaxEdits,    \* bounds
  Mishaps,      \* which of those below happen
  Absent

\* Config: the id, the token, and the keys of the file it does not know.
Configs == [id : Nat \cup {Absent}, token : Nat \cup {Absent}, own : Nat]

ASSUME SetUpAssumption ==
  /\ MaxTokens \in Nat /\ MaxStarts \in [Agents -> Nat] /\ MaxEdits \in Nat
  /\ Mishaps \subseteq {"read",     \* an OSError when the file is read
                       "save",     \* an OSError when it is written
                       "crash"}   \* the process dies
  /\ Absent \notin Nat \cup Configs

VARIABLES
  config,      \* config.json, or Absent
  cfg,       \* the Config of each observer
  stage,        \* where its set-up stands
  invited,   \* it was started with --invite-code
  asked,     \* registrations the hub has not looked at
  answers,   \* of each observer: the token on its way to it, or Absent
  last,      \* the newest token the hub gave out, the only one it knows
  starts,    \* how often each observer was started
  ids, edits,    \* ids made up, edits by hand
  blind,     \* history: observers that could not see what the file holds
  gone       \* history: the newest token, if nobody holds it for a reason that is known

svars == <<config, cfg, stage, invited, asked, answers, last, starts, ids, edits, blind, gone>>

EmptyConfig == [id |-> Absent, token |-> Absent, own |-> 0]

On(a) == stage[a] # "off"

Goes(a, to) == stage' = [stage EXCEPT ![a] = to]

InFile == IF config = Absent THEN Absent ELSE config.token

\* History: whoever held these holds them no longer.
Loses(tokens) == gone' = gone \cup (tokens \cap {last})

-----------------------------------------------------------------------------
(***************************************************************************)
(* app_config.py.                                                          *)
(***************************************************************************)
\* load: a file that is missing, or cannot be read, is an empty configuration.
Start(a, invite) ==
  /\ stage[a] = "off" /\ starts[a] < MaxStarts[a] /\ starts' = [starts EXCEPT ![a] = @ + 1]
  /\ \E ok \in {TRUE} \cup (IF "read" \in Mishaps THEN {FALSE} ELSE {}) :
       /\ cfg' = [cfg EXCEPT ![a] = IF ok /\ config # Absent THEN config ELSE EmptyConfig]
       /\ blind' = IF ok THEN blind \ {a} ELSE blind \cup {a}
  /\ invited' = [invited EXCEPT ![a] = invite]
  /\ Goes(a, "id")
  /\ UNCHANGED <<config, asked, answers, last, ids, edits, gone>>

\* Mutant: only the keys it knows are written.
SavedBare(a, c) ==
  /\ config' = [c EXCEPT !.own = 0]
  /\ blind' = blind \cup {b \in Agents \ {a} : On(b)}
  /\ Loses(IF a \in blind THEN {InFile} \ {c.token} ELSE {})

\* save, which replaces the whole file: what the others have read is old now.
Saved(a, c) ==
  /\ config' = c
  /\ blind' = blind \cup {b \in Agents \ {a} : On(b)}
  /\ Loses(IF a \in blind THEN {InFile} \ {c.token} ELSE {})

NotSaved == "save" \in Mishaps /\ UNCHANGED <<config, blind>>

ensure_local_id(a) ==
  /\ stage[a] = "id" /\ Goes(a, "register")
  /\ IF cfg[a].id # Absent THEN UNCHANGED <<config, cfg, ids, blind, gone>>
     ELSE LET c == [cfg[a] EXCEPT !.id = ids + 1] IN
          /\ ids' = ids + 1
          /\ cfg' = [cfg EXCEPT ![a] = c]
          /\ \/ Saved(a, c)
             \/ NotSaved /\ UNCHANGED gone
  /\ UNCHANGED <<invited, asked, answers, last, starts, edits>>

-----------------------------------------------------------------------------
(***************************************************************************)
(* ensure_registered.                                                      *)
(***************************************************************************)
\* There is a token: that is all.
HasToken(a) ==
  /\ stage[a] = "register" /\ cfg[a].token # Absent
  /\ Goes(a, "uploads")
  /\ UNCHANGED <<config, cfg, invited, asked, answers, last, starts, ids, edits, blind, gone>>

\* No code was given, and none is typed in.
Declines(a) ==
  /\ stage[a] = "register" /\ cfg[a].token = Absent /\ ~invited[a]
  /\ Goes(a, "observes")
  /\ UNCHANGED <<config, cfg, invited, asked, answers, last, starts, ids, edits, blind, gone>>

\* A code from the command line or the prompt goes to the hub.
Asks(a) ==
  /\ stage[a] = "register" /\ cfg[a].token = Absent
  /\ Goes(a, "asking")
  /\ asked' = asked \cup {<<a, starts[a]>>}
  /\ UNCHANGED <<config, cfg, invited, answers, last, starts, ids, edits, blind, gone>>

\* The answer is an error or has no token in it, or the 15 seconds are over and
\* what was asked may still reach the hub.
GivesUp(a) ==
  /\ stage[a] = "asking"
  /\ Goes(a, "observes")
  /\ Loses({answers[a]})
  /\ answers' = [answers EXCEPT ![a] = Absent]
  /\ UNCHANGED <<config, cfg, invited, asked, last, starts, ids, edits, blind>>

\* The answer comes ...
Told(a) ==
  /\ stage[a] = "asking" /\ answers[a] # Absent
  /\ cfg' = [cfg EXCEPT ![a].token = answers[a]]
  /\ answers' = [answers EXCEPT ![a] = Absent]
  /\ Goes(a, "save")
  /\ UNCHANGED <<config, invited, asked, last, starts, ids, edits, blind, gone>>

\* Mutant: the file is written as it was loaded.
SavesTheOld(a) ==
  /\ stage[a] = "save" /\ Goes(a, "uploads")
  /\ \/ Saved(a, [cfg[a] EXCEPT !.token = Absent])
     \/ NotSaved /\ Loses({cfg[a].token})
  /\ UNCHANGED <<cfg, invited, asked, answers, last, starts, ids, edits>>

\* ... and is saved.  If that fails, the user hears that he has to register
\* again the next time.
SavesToken(a) ==
  /\ stage[a] = "save" /\ Goes(a, "uploads")
  /\ \/ Saved(a, cfg[a])
     \/ NotSaved /\ Loses({cfg[a].token})
  /\ UNCHANGED <<cfg, invited, asked, answers, last, starts, ids, edits>>

\* The program ends, is closed at the prompt or dies.
Ends(a) ==
  /\ On(a) /\ Goes(a, "off")
  /\ stage[a] \in {"register", "uploads", "observes"} \/ "crash" \in Mishaps
  /\ Loses(IF stage[a] \in {"asking", "save"} THEN {cfg[a].token, answers[a]} ELSE {})
  /\ cfg' = [cfg EXCEPT ![a] = EmptyConfig] /\ answers' = [answers EXCEPT ![a] = Absent]
  /\ blind' = blind \ {a} /\ invited' = [invited EXCEPT ![a] = FALSE]
  /\ UNCHANGED <<config, asked, last, starts, ids, edits>>

-----------------------------------------------------------------------------
(***************************************************************************)
(* The hub, and the person.                                                *)
(***************************************************************************)
\* api_market_register: the new device takes the slot.  The answer reaches the
\* observer if it still waits for this one, or is lost.
Registers(r) ==
  /\ last < MaxTokens
  /\ asked' = asked \ {r}
  /\ last' = last + 1
  /\ \/ /\ stage[r[1]] = "asking" /\ starts[r[1]] = r[2]
        /\ answers' = [answers EXCEPT ![r[1]] = last + 1] /\ gone' = {}
     \/ gone' = {last + 1} /\ UNCHANGED answers
  /\ UNCHANGED <<config, cfg, stage, invited, starts, ids, edits, blind>>

\* Refused, or never there.
Dropped(r) ==
  /\ asked' = asked \ {r}
  /\ UNCHANGED <<config, cfg, stage, invited, answers, last, starts, ids, edits, blind, gone>>

\* Another key of the file is edited by hand.
Edit ==
  /\ config # Absent /\ edits < MaxEdits /\ edits' = edits + 1
  /\ config' = [config EXCEPT !.own = edits + 1]
  /\ blind' = blind \cup {a \in Agents : On(a)}
  /\ UNCHANGED <<cfg, stage, invited, asked, answers, last, starts, ids, gone>>

-----------------------------------------------------------------------------
SetUpInit ==
  /\ config = Absent /\ asked = {} /\ last = 0
  /\ cfg = [a \in Agents |-> EmptyConfig] /\ stage = [a \in Agents |-> "off"]
  /\ invited = [a \in Agents |-> FALSE] /\ answers = [a \in Agents |-> Absent]
  /\ starts = [a \in Agents |-> 0] /\ ids = 0 /\ edits = 0
  /\ blind = {} /\ gone = {}

Step(a) ==
  \/ ensure_local_id(a) \/ HasToken(a) \/ Declines(a) \/ Asks(a)
  \/ GivesUp(a) \/ Told(a) \/ SavesToken(a)

SetUpNext ==
  \/ \E a \in Agents : Step(a) \/ Ends(a) \/ \E i \in BOOLEAN : Start(a, i)
  \/ \E r \in asked : Registers(r) \/ Dropped(r)
  \/ Edit

SetUpSpec == SetUpInit /\ [][SetUpNext]_svars

-----------------------------------------------------------------------------
\* A save takes nothing away: the id, the keys it does not know and the token,
\* unless a newer one replaces it, are in the file afterwards; except when the
\* observer that saves could not read the file, or read it before they were
\* there (app_config.py:10).
SavesKeep ==
  [][config # Absent /\ config' # config /\ edits' = edits =>
       \/ config'.id = config.id /\ config'.own = config.own
          /\ (config.token # Absent => config'.token # Absent)
       \/ \E a \in blind : stage'[a] # stage[a]]_svars

\* The token of the device that holds the slot is in the file, in an observer
\* or on its way to one, unless it is known why not: its answer was not waited
\* for, it could not be saved, the program ended before it was, or an observer
\* that had not seen it wrote the file.
TokenIsAccounted ==
  last # 0 /\ last \notin gone =>
    \/ config # Absent /\ config.token = last
    \/ \E a \in Agents : last \in {cfg[a].token, answers[a]}

=============================================================================
