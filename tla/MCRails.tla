------------------------------- MODULE MCRails -------------------------------
(* Rails with small limits in the proportions of the real ones, and with     *)
(* snapshots, frames and digests at and beyond them.                         *)
EXTENDS Rails, Bitwise, SequencesExt

SmallLimits ==
    [short |-> 4, ask |-> 4, askID |-> 3, answer |-> 2, workspaceName |-> 4,
     workspaces |-> 2, agents |-> 2, mode |-> 2, resets |-> 2, modelName |-> 2,
     ctxPct |-> 6, headline |-> 3, bullet |-> 2, agentBullets |-> 1,
     digestBullets |-> 2, cols |-> 3, rows |-> 2, fullText |-> 4, small |-> 3,
     replyState |-> 2, digestModel |-> 2]

\* FNV-1a with 16 bits for 64, folded to one byte for 32 bits.
FNV(s) ==
    LET Step(h, b) == ((h ^^ b) * 435) % 65536
        h == FoldLeft(Step, 8997, s)
    IN <<(h % 256) ^^ (h \div 256)>>

S == <<115>>
E9 == <<195, 169>>      \* a rune of two bytes

BaseAgent ==
    [ID |-> S, State |-> Working, Title |-> S, Ask |-> Empty, AskID |-> Empty,
     Model |-> S, CostUSD |-> 1, CtxPct |-> 6, Digest |-> <<>>, Attached |-> TRUE,
     Now |-> S, NowAt |-> 3, LastEvent |-> 2]

\* Asking, its handles as long as allowed and holding the separator of keys.
AskingAgent ==
    [BaseAgent EXCEPT !.ID = <<115, Colon, 116>>, !.State = NeedsInput, !.Ask = S,
        !.AskID = <<97, Colon, 97>>, !.CtxPct = 0,
        !.Digest = <<[Headline |-> S, Bullets |-> <<S, S>>, At |-> 1]>>]

\* Everything too long, the cut inside a rune wherever one can be.
LongAgent ==
    [BaseAgent EXCEPT !.ID = S \o S \o E9, !.State = Quiet, !.Title = S \o S \o S \o E9,
        !.Ask = E9 \o S \o E9, !.AskID = S \o S \o E9, !.CtxPct = 16 + 3,
        !.Model = E9 \o E9 \o E9, !.Now = S \o S \o S \o E9,
        !.Digest = <<[Headline |-> S \o S \o E9, Bullets |-> <<S \o E9>>, At |-> 0]>>]

\* A state of a newer machine, no id, a digest that is cut to nothing.
OddAgent ==
    [BaseAgent EXCEPT !.ID = <<>>, !.State = S, !.CtxPct = -1, !.NowAt = 0,
        !.Digest = <<[Headline |-> <<>>, Bullets |-> <<S>>, At |-> 1]>>]

BaseUsage ==
    [Mode |-> S, SessionPct |-> 5, SessionResets |-> S \o E9, WeekAllPct |-> 7,
     WeekAllResets |-> S, WeekModelName |-> S \o E9, WeekModelPct |-> 0,
     WeekModelResets |-> <<>>, At |-> 2, AgentTodayUSD |-> 1, AgentWeekUSD |-> 2]

Space1(name, attention, agents) ==
    [Name |-> name, Branch |-> S \o S \o S \o E9, Attention |-> attention,
     Agents |-> agents]

Snap(usage, spaces) ==
    [Hostname |-> S \o S \o S \o E9, RookVersion |-> S, HostID |-> <<>>,
     Usage |-> usage, Workspaces |-> spaces]

SnapshotSet ==
    {Snap(<<>>, <<>>),
     Snap(<<>>, <<Space1(S, 1, <<BaseAgent, AskingAgent>>)>>),
     Snap(<<BaseUsage>>, <<Space1(S \o S \o S \o S, 0, <<AskingAgent>>),
                           Space1(<<115, Colon>>, 8, <<OddAgent>>)>>),
     Snap(<<>>, <<Space1(S \o S \o S \o E9, 0, <<LongAgent, BaseAgent, BaseAgent>>),
                  Space1(<<Space, 115>>, 0, <<>>), Space1(S, 0, <<>>)>>)}

BaseFrame ==
    [Cols |-> 3, Rows |-> 2, CursorX |-> 1, CursorY |-> 0, CursorVisible |-> TRUE,
     Lines |-> <<[Text |-> S, Runs |-> <<[Start |-> 0, Len |-> 1, FG |-> 2,
                                          BG |-> 3, Attrs |-> 4]>>]>>]

FrameSet ==
    {BaseFrame,
     [BaseFrame EXCEPT !.Cols = -1, !.Rows = 9, !.CursorX = -1, !.CursorY = -2,
        !.Lines = <<[Text |-> E9 \o E9 \o E9 \o E9 \o E9 \o E9 \o S \o E9,
                     Runs |-> <<>>], @[1], @[1]>>]}

BaseDigest ==
    [ID |-> S, SessionID |-> S, Headline |-> S, Bullets |-> <<S, S \o E9, S>>,
     FullText |-> S \o S \o S \o E9, Prompt |-> S, Reply |-> S \o E9,
     ReplyState |-> S, At |-> 0, Model |-> S \o E9, CostUSD |-> 3]

DigestSet == {BaseDigest, [BaseDigest EXCEPT !.SessionID = <<115, Colon, 116>>, !.At = 2]}

Host == <<104>>
PromptSet == {<<97>>, <<Space, 97>>, <<97, 97, 97>>}
=============================================================================
