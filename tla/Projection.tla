----------------------------- MODULE Projection -----------------------------
(***************************************************************************)
(* projection/projection.go: the vocabulary both rails share.  Snapshots   *)
(* with their limits (Clamp), answers and commands with their validation   *)
(* and natural keys.  Pure functions; Rails puts them to work.             *)
(*                                                                         *)
(* A string is the sequence of its bytes; a word of the vocabulary is a    *)
(* string of one letter.  A pointer is a sequence of at most one value, so *)
(* nil is the empty sequence, and a pointer and a slice are walked alike.  *)
(* An error is the same as no result.  A time is a number, 0 for the zero  *)
(* time.  No code here looks at a cost: it is any number.                  *)
(***************************************************************************)
EXTENDS Integers, Sequences

CONSTANTS
    Limit,      \* the limits, by name: the const blocks of projection.go
    fnv8(_),    \* the eight hex digits that stand for a string, as one byte
    Width       \* bits of a uint32, and of the wire's integers: 32

LimitName ==
    {"short", "ask", "askID", "answer", "workspaceName", "workspaces", "agents",
     "mode", "resets", "modelName", "ctxPct", "headline", "bullet", "agentBullets",
     "digestBullets", "cols", "rows", "fullText", "small", "replyState", "digestModel"}

\* The limit of a workspace's name is written twice, in Clamp and in ValidCommand.
ASSUME LimitsAreNatural ==
    /\ Limit \in [LimitName -> Nat]
    /\ Limit.workspaceName = Limit.short /\ Limit.answer > 0

Byte == 0..255
Text == Seq(Byte)
Empty == <<>>
Space == 32
Colon == 58
AtSign == 64

Pointer(S) == {p \in Seq(S) : Len(p) <= 1}
Each(F(_), s) == [i \in DOMAIN s |-> F(s[i])]
Truncate(s, n) == IF Len(s) > n THEN SubSeq(s, 1, n) ELSE s

\* s[i] & 0xC0 == 0x80: the byte continues a rune.
Continues(b) == b \in 128..191

\* Mutant: the cut is made at the limit, wherever that is.
ClipAnywhere(s, n) == Truncate(s, n)

\* The longest prefix of at most n bytes that ends where a rune does.
clip(s, n) ==
    IF Len(s) <= n THEN s
    ELSE LET cuts == {k \in 1..n : ~Continues(s[k + 1])}
             cut == CHOOSE k \in cuts \cup {0} : \A j \in cuts : j <= k
         IN SubSeq(s, 1, cut)

\* strings.TrimSpace
TrimSpace(s) ==
    LET ink == {i \in DOMAIN s : s[i] # Space} IN
    IF ink = {} THEN Empty
    ELSE SubSeq(s, CHOOSE i \in ink : \A j \in ink : i <= j,
                   CHOOSE i \in ink : \A j \in ink : i >= j)

-----------------------------------------------------------------------------
(* The types of a snapshot *)

Working == <<119>>
NeedsInput == <<110>>
Quiet == <<113>>

AgentDigest == [Headline : Text, Bullets : Seq(Text), At : Nat]

Agent == [ID : Text, State : Text, Title : Text, Ask : Text, AskID : Text,
          Model : Text, CostUSD : Nat, CtxPct : Int, Digest : Pointer(AgentDigest),
          Attached : BOOLEAN, Now : Text, NowAt : Nat, LastEvent : Nat]

Workspace == [Name : Text, Branch : Text, Attention : Int, Agents : Seq(Agent)]

Usage == [Mode : Text, SessionPct : Int, SessionResets : Text, WeekAllPct : Int,
          WeekAllResets : Text, WeekModelName : Text, WeekModelPct : Int,
          WeekModelResets : Text, At : Nat, AgentTodayUSD : Nat, AgentWeekUSD : Nat]

Status == [Hostname : Text, RookVersion : Text, HostID : Text,
           Usage : Pointer(Usage), Workspaces : Seq(Workspace)]

Uint32 == 0 .. 2 ^ Width - 1
StyleRun == [Start : Uint32, Len : Uint32, FG : Uint32, BG : Uint32, Attrs : Uint32]
PaneRow == [Text : Text, Runs : Seq(StyleRun)]
PaneFrame == [Cols : Int, Rows : Int, CursorX : Int, CursorY : Int,
              CursorVisible : BOOLEAN, Lines : Seq(PaneRow)]

Digest == [ID : Text, SessionID : Text, Headline : Text, Bullets : Seq(Text),
           FullText : Text, Prompt : Text, Reply : Text, ReplyState : Text,
           At : Nat, Model : Text, CostUSD : Nat]

-----------------------------------------------------------------------------
(* The clamps *)

\* Clips the text fields of r that are named in limits.
ClipFields(r, limits) ==
    [f \in DOMAIN r |-> IF f \in DOMAIN limits THEN clip(r[f], limits[f]) ELSE r[f]]

ClampBullets(bullets, n) ==
    LET Clip(b) == clip(b, Limit.bullet) IN Each(Clip, Truncate(bullets, n))

ClampAgentDigest(d) ==
    [ClipFields(d, [Headline |-> Limit.headline])
        EXCEPT !.Bullets = ClampBullets(@, Limit.agentBullets)]

\* Mutant: a session id is clipped like a title.
ClampAgentTitles(a) ==
    ClipFields(a, [ID |-> Limit.short, State |-> Limit.short, Title |-> Limit.short,
                   Ask |-> Limit.ask, AskID |-> Limit.short, Model |-> Limit.short,
                   Now |-> Limit.short])

\* A digest with nothing to headline is not a digest.
ClampAgent(a) ==
    LET texts == [ID |-> Limit.askID, State |-> Limit.short, Title |-> Limit.short,
                  Ask |-> Limit.ask, AskID |-> Limit.askID, Model |-> Limit.short,
                  Now |-> Limit.short]
        digest == Each(ClampAgentDigest, a.Digest)
    IN [ClipFields(a, texts) EXCEPT
          !.CtxPct = IF @ < 0 \/ @ > Limit.ctxPct THEN 0 ELSE @,
          !.Digest = IF digest # <<>> /\ digest[1].Headline = Empty THEN <<>> ELSE digest]

ClampWorkspace(w) ==
    [ClipFields(w, [Name |-> Limit.short, Branch |-> Limit.short]) EXCEPT
        !.Agents = Each(ClampAgent, Truncate(@, Limit.agents))]

ClampUsage(u) ==
    ClipFields(u, [Mode |-> Limit.mode, SessionResets |-> Limit.resets,
                   WeekAllResets |-> Limit.resets, WeekModelName |-> Limit.modelName,
                   WeekModelResets |-> Limit.resets])

ClampStatus(s) ==
    [ClipFields(s, [Hostname |-> Limit.short, RookVersion |-> Limit.short,
                    HostID |-> Limit.askID]) EXCEPT
        !.Usage = Each(ClampUsage, @),
        !.Workspaces = Each(ClampWorkspace, Truncate(@, Limit.workspaces))]

\* Rows and columns out of range become the maximum, and a negative cursor 0.
ClampPane(f) ==
    LET Row(r) == [ClipFields(r, [Text |-> 4 * Limit.cols])
                     EXCEPT !.Runs = Truncate(@, Limit.cols)]
        Bound(n, max) == IF n < 0 \/ n > max THEN max ELSE n
        Floor(n) == IF n < 0 THEN 0 ELSE n
    IN [f EXCEPT !.Cols = Bound(@, Limit.cols), !.Rows = Bound(@, Limit.rows),
                 !.CursorX = Floor(@), !.CursorY = Floor(@),
                 !.Lines = Each(Row, Truncate(@, Limit.rows))]

ClampDigest(d) ==
    [ClipFields(d, [ID |-> Limit.askID, SessionID |-> Limit.askID,
                    Headline |-> Limit.headline, FullText |-> Limit.fullText,
                    Prompt |-> Limit.small, Reply |-> Limit.small,
                    ReplyState |-> Limit.replyState, Model |-> Limit.digestModel])
        EXCEPT !.Bullets = ClampBullets(@, Limit.digestBullets)]

-----------------------------------------------------------------------------
(* Answers and commands *)

Compact == <<99>>
Resume == <<114>>
Spawn == <<112>>
Say == <<115>>

Answer == [AskID : Text, Text : Text]
Command == [ID : Text, Kind : Text, SessionID : Text, Workspace : Text,
            Prompt : Text]

ValidAnswer(askID, text) ==
    LET a == [AskID |-> TrimSpace(askID), Text |-> TrimSpace(text)] IN
    IF \/ a.AskID = Empty \/ Len(a.AskID) > Limit.askID
       \/ a.Text = Empty \/ Len(a.Text) > Limit.answer
    THEN <<>> ELSE <<a>>

\* The text of a say's hash: the prompt, and the minute as one digit.
AtMinute(p, m) == p \o <<AtSign, 48 + m>>

\* Mutant: two spawns into one workspace have the same key.
KeyWithoutPrompt(c, minute) ==
    CASE c.Kind = Spawn -> Spawn \o <<Colon>> \o c.Workspace
      [] c.Kind = Say   -> Say \o <<Colon>> \o c.SessionID \o <<Colon>>
                             \o fnv8(AtMinute(c.Prompt, minute))
      [] OTHER          -> c.Kind \o <<Colon>> \o c.SessionID

\* Mutant: every key carries the minute.
KeyByMinute(c, minute) ==
    c.Kind \o <<Colon>> \o c.SessionID \o c.Workspace \o <<Colon>>
      \o fnv8(AtMinute(c.Prompt, minute))

\* The natural key.  Only a say carries the minute it was keyed in.
NaturalKey(c, minute) ==
    CASE c.Kind = Spawn -> Spawn \o <<Colon>> \o c.Workspace
                             \o <<Colon>> \o fnv8(c.Prompt)
      [] c.Kind = Say   -> Say \o <<Colon>> \o c.SessionID \o <<Colon>>
                             \o fnv8(AtMinute(c.Prompt, minute))
      [] OTHER          -> c.Kind \o <<Colon>> \o c.SessionID

\* Each kind keeps exactly its own fields.
Wellformed(c) ==
    LET session == c.SessionID # Empty /\ Len(c.SessionID) <= Limit.askID
        prompt == Len(c.Prompt) <= Limit.answer IN
    CASE c.Kind \in {Compact, Resume} ->
            session /\ c.Workspace = Empty /\ c.Prompt = Empty
      [] c.Kind = Spawn ->
            /\ c.Workspace # Empty /\ Len(c.Workspace) <= Limit.workspaceName
            /\ prompt /\ c.SessionID = Empty
      [] c.Kind = Say ->
            session /\ c.Prompt # Empty /\ prompt /\ c.Workspace = Empty
      [] OTHER -> FALSE

ValidCommand(kind, sessionID, workspace, prompt, minute) ==
    LET c == [ID |-> Empty, Kind |-> TrimSpace(kind),
              SessionID |-> TrimSpace(sessionID), Workspace |-> TrimSpace(workspace),
              Prompt |-> TrimSpace(prompt)] IN
    IF Wellformed(c) THEN <<[c EXCEPT !.ID = NaturalKey(c, minute)]>> ELSE <<>>
=============================================================================
