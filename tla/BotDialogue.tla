----------------------------- MODULE BotDialogue -----------------------------
(***************************************************************************)
(* One user's chat with the bot about the profile (handlers/onboarding/):  *)
(* the questionnaire, the settings and the resume, with the other          *)
(* dialogues that share the FSM storage.  aiogram handles the updates of a *)
(* chat side by side: a handler reads the FSM and the API, calls the API,  *)
(* and writes the FSM, in steps of its own.  Reading or writing the FSM is *)
(* one step.                                                               *)
(*                                                                         *)
(* The keyboards of earlier messages stay in the chat, so most buttons can *)
(* be pressed at any time; shown is the keyboard of the latest prompt.     *)
(***************************************************************************)
EXTENDS Naturals, Sequences, SequencesExt

CONSTANTS
    Steps,           \* the fields asked for with a keyboard, in order
    Other,           \* fields of the profile that the bot does not ask for
    Edited,          \* bound: the fields that users change in the web application
    Value, Empty, Absent,
    Update           \* updates handled at once

Asked == Range(Steps)
Field == Asked \cup {"skills"} \cup Other

Profile == [Field -> Value \cup {Empty}]

\* States and keyboards that are not those of a step.
Mark == {"none", "skills", "confirm", "resume", "file", "editing", "elsewhere", "exists",
         "settings", "restart"}

ASSUME DialogueAssumption ==
    /\ Steps \in Seq(STRING) /\ Steps # <<>> /\ IsInjective(Steps)
    /\ Asked \cap Mark = {} /\ "skills" \notin Other /\ Asked \cap Other = {}
    /\ Edited \subseteq Field /\ Empty \notin Value /\ Absent \notin Profile

VARIABLES
    profile,         \* what the API stores, or Absent
    chat,            \* the FSM of the chat, and the keyboard of its last prompt
    jobs,            \* what each handler is waiting for
    writer           \* history: who wrote the profile last

dialogueVars == <<profile, chat, jobs, writer>>

Nothing == [f \in Field |-> Empty]
Idle    == [op |-> "idle"]
State   == Asked \cup {"none", "skills", "confirm", "resume", "file", "editing", "elsewhere"}

Chat ==
    [ state : State, flow : {"none", "onboarding", "settings", "resume"},
      answers : Profile, cached : Profile \cup {Absent},
      shown : State \cup {"exists", "settings", "restart"},
      strayed : BOOLEAN ]     \* history: a button of an earlier message was pressed

\* base is the profile that the payload was made from.
Job ==
    [ op : {"start", "settings", "all", "field", "typed", "merge", "delete"},
      at : {"call", "settle"}, base : Profile \cup {Absent}, payload : Profile \cup {Absent},
      stray : BOOLEAN ]

DialogueTypeOK ==
    /\ profile \in Profile \cup {Absent} /\ chat \in Chat
    /\ jobs \in [Update -> Job \cup {Idle}] /\ writer \in {"nobody", "web", "bot"}

Cleared(shown) ==
    [state |-> "none", flow |-> "none", answers |-> Nothing, cached |-> Absent, shown |-> shown,
     strayed |-> FALSE]

DialogueInit ==
    /\ profile \in {Absent, Nothing} /\ chat = Cleared("none")
    /\ jobs = [h \in Update |-> Idle] /\ writer = "nobody"

\* _start_new_onboarding
NewOnboarding == [Cleared(Steps[1]) EXCEPT !.flow = "onboarding", !.state = Steps[1]]

-----------------------------------------------------------------------------
(* Handlers that only write the FSM                                        *)

Say(new) == chat' = new /\ UNCHANGED <<profile, jobs, writer>>

Strays(keyboard) == chat.strayed \/ chat.shown # keyboard

AfterStep(f) ==
    LET i == CHOOSE i \in DOMAIN Steps : Steps[i] = f
    IN IF i = Len(Steps) THEN "skills" ELSE Steps[i + 1]

PromptOf(state) == IF state \in Asked \cup {"confirm", "resume"} THEN state ELSE "none"

GoTo(state) == [chat EXCEPT !.state = state, !.shown = PromptOf(state)]

\* Only the last field may be skipped.
Answer(f) == IF f = Last(Steps) THEN Value \cup {Empty} ELSE Value

\* Typed in the state of the step, or a button of the step, in any state.
Select(f, v, typed) ==
    /\ chat.flow # "settings" /\ (typed => chat.state = f)
    /\ Say([GoTo(AfterStep(f)) EXCEPT !.answers[f] = v, !.strayed = @ \/ (~typed /\ Strays(f))])

TypeSkills(v) == chat.state = "skills" /\ Say([GoTo("confirm") EXCEPT !.answers["skills"] = v])

\* A suggestion is added to what the dialogue has; the next list replaces it.
AddSkill(v) == chat.state = "skills" /\ Say([chat EXCEPT !.answers["skills"] = v])

EditSkills == Say([GoTo("skills") EXCEPT !.strayed = Strays("confirm")])

ChooseSkillsField == Say(GoTo("editing"))

SkipResume   == chat.state = "resume" /\ Say(Cleared("none"))
AcceptResume == chat.state = "resume" /\ Say([GoTo("file") EXCEPT !.flow = "resume"])
ResumeCommand == Say([Cleared("none") EXCEPT !.flow = "resume", !.state = "file"])

\* _resume_onboarding: the buttons that /start shows while a dialogue is under way.
ResumeOnboarding ==
    IF chat.state \in Asked \cup {"skills", "confirm", "editing"}
    THEN Say(GoTo(IF chat.state = "confirm" /\ chat.answers["skills"] = Empty THEN "skills"
                  ELSE chat.state))
    ELSE Say(NewOnboarding)

RestartOnboarding == Say(NewOnboarding)

StartAgain == chat.state # "none" /\ Say([chat EXCEPT !.shown = "restart"])

\* /subscribe, behind the handlers of these states, starts afresh; /analyze keeps the data.
Leave ==
    \/ chat.state \notin Asked \cup {"skills", "editing", "file"}
       /\ Say([Cleared("none") EXCEPT !.state = "elsewhere"])
    \/ Say(GoTo("elsewhere"))

Return == chat.state = "elsewhere" /\ Say(Cleared("none"))

-----------------------------------------------------------------------------
(* Handlers that call the API: read and prepare, call, settle              *)

Prepare(h, job) == jobs[h] = Idle /\ jobs' = [jobs EXCEPT ![h] = job]

Plain(op, at) == [op |-> op, at |-> at, base |-> profile, payload |-> profile, stray |-> FALSE]

\* /start asks for the profile and begins with the questionnaire if there is none.
Start(h) ==
    /\ chat.state = "none"
    /\ IF profile = Absent THEN Prepare(h, Plain("start", "settle")) /\ UNCHANGED chat
       ELSE jobs[h] = Idle /\ chat' = [chat EXCEPT !.shown = "exists"] /\ UNCHANGED jobs
    /\ UNCHANGED <<profile, writer>>

OpenSettings(h) ==
    /\ profile # Absent /\ Prepare(h, Plain("settings", "settle"))
    /\ UNCHANGED <<profile, chat, writer>>

\* build_profile_payload of the FSM: fields the dialogue has not got become empty.
Confirm(h) ==
    /\ Prepare(h, [op |-> "all", at |-> "call", base |-> profile, payload |-> chat.answers,
                   stray |-> Strays("confirm")])
    /\ UNCHANGED <<profile, chat, writer>>

\* Mistake: the fields that the dialogue does not ask for are left out.
MergedAsked(base, f, v) ==
    [g \in Field |-> IF g = f THEN v ELSE IF g \in Other THEN Empty ELSE base[g]]

\* build_profile_payload of _merge_profile
Merged(base, f, v) == [base EXCEPT ![f] = v]

\* The profile of the FSM, or of the API, or none if the API fails.
Bases == IF chat.cached # Absent THEN {chat.cached} ELSE {Nothing} \cup ({profile} \ {Absent})

\* _save_profile_update
SaveField(h, op, f, v) ==
    \E base \in Bases :
        Prepare(h, [op |-> op, at |-> "call", base |-> base, payload |-> Merged(base, f, v),
                    stray |-> FALSE])

ApplyValue(h, f, v) == SaveField(h, "field", f, v) /\ UNCHANGED <<profile, chat, writer>>

\* A step's button or text while the flow is "settings".
SelectSetting(h, f, v, typed) ==
    /\ chat.flow = "settings" /\ (typed => chat.state = f)
    /\ SaveField(h, "field", f, v)
    /\ chat' = [chat EXCEPT !.answers[f] = v]
    /\ UNCHANGED <<profile, writer>>

TypeEditedSkills(h, v) ==
    /\ chat.state = "editing" /\ SaveField(h, "typed", "skills", v)
    /\ UNCHANGED <<profile, chat, writer>>

\* A PDF was uploaded; its skills are added to those of the profile.
MergeResume(h, v) ==
    /\ chat.state = "file" /\ profile # Absent
    /\ IF profile["skills"] = v THEN Prepare(h, Plain("merge", "settle"))
       ELSE Prepare(h, [op |-> "merge", at |-> "call", base |-> profile,
                        payload |-> Merged(profile, "skills", v), stray |-> FALSE])
    /\ UNCHANGED <<profile, chat, writer>>

\* Nothing was found in the PDF, or the profile could not be read.
UploadAlone(h) ==
    /\ chat.state = "file" /\ Prepare(h, Plain("merge", "settle"))
    /\ UNCHANGED <<profile, chat, writer>>

DeleteMe(h) ==
    /\ Prepare(h, [Plain("delete", "call") EXCEPT !.payload = Absent])
    /\ UNCHANGED <<profile, chat, writer>>

\* PUT or DELETE of the profile succeeds.
Call(h) ==
    /\ jobs[h] # Idle /\ jobs[h].at = "call"
    /\ jobs[h].op = "delete" => profile # Absent
    /\ profile' = jobs[h].payload /\ writer' = "bot"
    /\ jobs' = [jobs EXCEPT ![h].at = "settle"]
    /\ UNCHANGED chat

\* It fails, or finds no profile to delete.
CallFails(h) ==
    /\ jobs[h] # Idle /\ jobs[h].at = "call"
    /\ jobs' = [jobs EXCEPT ![h] = Idle]
    /\ chat' = CASE jobs[h].op = "typed" -> [chat EXCEPT !.state = "none"]
                 [] jobs[h].op = "merge" -> Cleared("none")
                 [] OTHER -> chat
    /\ UNCHANGED <<profile, writer>>

InSettings == [chat EXCEPT !.flow = "settings", !.shown = "settings"]

Settled(job) ==
    CASE job.op = "start"    -> NewOnboarding
      [] job.op = "settings" -> [Cleared("settings") EXCEPT !.flow = "settings",
                                                     !.cached = job.payload]
      [] job.op = "all"      -> [GoTo("resume") EXCEPT !.cached = job.payload]
      [] job.op = "field"    -> [InSettings EXCEPT !.cached = job.payload]
      [] job.op = "typed"    -> [InSettings EXCEPT !.cached = job.payload, !.state = "none"]
      [] OTHER               -> Cleared("none")

Settle(h) ==
    /\ jobs[h] # Idle /\ jobs[h].at = "settle"
    /\ chat' = Settled(jobs[h]) /\ jobs' = [jobs EXCEPT ![h] = Idle]
    /\ UNCHANGED <<profile, writer>>

\* The FSM is in Redis, or in memory where Redis cannot be used.
Crash ==
    /\ jobs' = [h \in Update |-> Idle]
    /\ chat' \in {chat, Cleared("none")}
    /\ UNCHANGED <<profile, writer>>

\* The web application or the user's API key: a field at a time, or all of it goes.
WebEdit ==
    /\ \/ profile' = Absent
       \/ \E f \in Edited, v \in Value \cup {Empty} :
             profile' = [(IF profile = Absent THEN Nothing ELSE profile) EXCEPT ![f] = v]
    /\ writer' = "web" /\ UNCHANGED <<chat, jobs>>

-----------------------------------------------------------------------------

\* An update of the user.
Ask ==
    \/ \E f \in Asked, typed \in BOOLEAN : \E v \in Answer(f) :
          Select(f, v, typed) \/ \E h \in Update : SelectSetting(h, f, v, typed)
    \/ \E v \in Value : TypeSkills(v) \/ AddSkill(v)
    \/ EditSkills \/ ChooseSkillsField \/ SkipResume \/ AcceptResume \/ ResumeCommand
    \/ ResumeOnboarding \/ RestartOnboarding \/ StartAgain \/ Leave \/ Return
    \/ \E h \in Update :
          \/ Start(h) \/ OpenSettings(h) \/ Confirm(h) \/ UploadAlone(h) \/ DeleteMe(h)
          \/ \E f \in Asked : \E v \in Answer(f) : ApplyValue(h, f, v)
          \/ \E v \in Value : TypeEditedSkills(h, v) \/ MergeResume(h, v)

Work == \E h \in Update : Call(h) \/ CallFails(h) \/ Settle(h)

DialogueNext == Ask \/ Work \/ Crash \/ WebEdit

DialogueSpec == DialogueInit /\ [][DialogueNext]_dialogueVars

-----------------------------------------------------------------------------
(* Properties                                                              *)

Underway == {h \in Update : jobs[h] # Idle /\ jobs[h].at = "call" /\ jobs[h].op # "delete"}

\* A payload was made out of another profile than the one now stored (one that was
\* cached before somebody else changed it, or none because the API failed), or the
\* questionnaire was confirmed after a button of an earlier message was pressed.
Excused == \E h \in Underway : jobs[h].stray \/ (jobs[h].op # "all" /\ jobs[h].base # profile)

Edits ==
    INSTANCE ProfileEdits WITH
        Asked <- (Asked \ {Last(Steps)}) \cup {"skills"}, Field <- Field, excused <- Excused

\* The bot changes a profile as ProfileEdits says: a complete questionnaire, or one
\* field of what is stored.
EditsAsPromised == Edits!Spec
=============================================================================
