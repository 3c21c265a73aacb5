------------------------------- MODULE Convert -------------------------------
(***************************************************************************)
(* link/convert.go and the messages of gen/rook/link/v1/link.pb.go it      *)
(* fills: how a snapshot, a pane frame and a digest cross the wire.        *)
(*                                                                         *)
(* A message has the fields of its projection type, under the same names   *)
(* here.  What differs is what the converters are about: integers have     *)
(* 32 bits, the zero time is an absent timestamp, a state is an enum.      *)
(***************************************************************************)
EXTENDS Projection

\* The second fact is arithmetic; the provers have no rule for powers.
ASSUME WidthHoldsLimits ==
    /\ Width \in Nat \ {0}
    /\ 2 ^ Width = 2 * 2 ^ (Width - 1)
    /\ Limit.ctxPct < 2 ^ (Width - 1)
    /\ Limit.cols < 2 ^ Width /\ Limit.rows < 2 ^ Width

Int32 == -(2 ^ (Width - 1)) .. 2 ^ (Width - 1) - 1
int32(n) == ((n + 2 ^ (Width - 1)) % 2 ^ Width) - 2 ^ (Width - 1)
uint32(n) == n % 2 ^ Width

\* timestamppb.New behind the IsZero test, and back.
Timestamp == Pointer(Nat \ {0})
stamp(t) == IF t = 0 THEN <<>> ELSE <<t>>
asTime(p) == IF p = <<>> THEN 0 ELSE p[1]

-----------------------------------------------------------------------------
(* The messages *)

AgentState == {"AGENT_STATE_UNSPECIFIED", "AGENT_STATE_WORKING",
               "AGENT_STATE_NEEDS_INPUT", "AGENT_STATE_QUIET"}

CommandKind == {"COMMAND_KIND_UNSPECIFIED", "COMMAND_KIND_COMPACT",
                "COMMAND_KIND_RESUME", "COMMAND_KIND_SPAWN", "COMMAND_KIND_SAY"}

Disposition == {"DISPOSITION_UNSPECIFIED", "DISPOSITION_DELIVERED",
                "DISPOSITION_DUPLICATE", "DISPOSITION_DROPPED"}

WireAgentDigest == [Headline : Text, Bullets : Seq(Text), At : Timestamp]

WireAgent == [ID : Text, State : AgentState, Title : Text, Ask : Text,
              AskID : Text, Model : Text, CostUSD : Nat, CtxPct : Int32,
              Digest : Pointer(WireAgentDigest), Attached : BOOLEAN,
              Now : Text, NowAt : Timestamp, LastEvent : Timestamp]

WireWorkspace == [Name : Text, Branch : Text, Attention : Int32,
                  Agents : Seq(WireAgent)]

WireUsage == [Mode : Text, SessionPct : Int32, SessionResets : Text,
              WeekAllPct : Int32, WeekAllResets : Text, WeekModelName : Text,
              WeekModelPct : Int32, WeekModelResets : Text, At : Timestamp,
              AgentTodayUSD : Nat, AgentWeekUSD : Nat]

WireStatus == [Hostname : Text, RookVersion : Text, HostID : Text,
               Usage : Pointer(WireUsage), Workspaces : Seq(WireWorkspace),
               At : Timestamp]

WireStyleRun == [Start : Uint32, Len : Uint32, FG : Uint32, BG : Uint32,
                 Attrs : Uint32]
WirePaneRow == [Text : Text, Runs : Seq(WireStyleRun)]
WirePaneFrame == [Cols : Uint32, Rows : Uint32, CursorX : Uint32,
                  CursorY : Uint32, CursorVisible : BOOLEAN,
                  Lines : Seq(WirePaneRow)]

WireDigest == [ID : Text, SessionID : Text, Headline : Text, Bullets : Seq(Text),
               FullText : Text, Prompt : Text, Reply : Text, ReplyState : Text,
               At : Timestamp, Model : Text, CostUSD : Nat]

-----------------------------------------------------------------------------
(* The converters *)

stateToProto(s) ==
    CASE s = Working    -> "AGENT_STATE_WORKING"
      [] s = NeedsInput -> "AGENT_STATE_NEEDS_INPUT"
      [] s = Quiet      -> "AGENT_STATE_QUIET"
      [] OTHER          -> "AGENT_STATE_UNSPECIFIED"

stateFromProto(e) ==
    CASE e = "AGENT_STATE_WORKING"     -> Working
      [] e = "AGENT_STATE_NEEDS_INPUT" -> NeedsInput
      [] e = "AGENT_STATE_QUIET"       -> Quiet
      [] OTHER                         -> Empty

kindFromProto(k) ==
    CASE k = "COMMAND_KIND_COMPACT" -> Compact
      [] k = "COMMAND_KIND_RESUME"  -> Resume
      [] k = "COMMAND_KIND_SPAWN"   -> Spawn
      [] k = "COMMAND_KIND_SAY"     -> Say
      [] OTHER                      -> Empty

dispositionToProto(d) ==
    CASE d = "Delivered" -> "DISPOSITION_DELIVERED"
      [] d = "Duplicate" -> "DISPOSITION_DUPLICATE"
      [] d = "Dropped"   -> "DISPOSITION_DROPPED"
      [] OTHER           -> "DISPOSITION_UNSPECIFIED"

AgentDigestToProto(d) == [d EXCEPT !.At = stamp(@)]
AgentDigestFromProto(d) == [d EXCEPT !.At = asTime(@)]

\* Mutant: a field the converter forgot.
AgentToProtoForgets(a) ==
    [a EXCEPT !.State = stateToProto(@), !.CtxPct = int32(@),
              !.Digest = Each(AgentDigestToProto, @),
              !.NowAt = <<>>, !.LastEvent = stamp(@)]

AgentToProto(a) ==
    [a EXCEPT !.State = stateToProto(@), !.CtxPct = int32(@),
              !.Digest = Each(AgentDigestToProto, @),
              !.NowAt = stamp(@), !.LastEvent = stamp(@)]

AgentFromProto(a) ==
    [a EXCEPT !.State = stateFromProto(@), !.Digest = Each(AgentDigestFromProto, @),
              !.NowAt = asTime(@), !.LastEvent = asTime(@)]

WorkspaceToProto(w) ==
    [w EXCEPT !.Attention = int32(@), !.Agents = Each(AgentToProto, @)]
WorkspaceFromProto(w) == [w EXCEPT !.Agents = Each(AgentFromProto, @)]

usageToProto(u) ==
    [u EXCEPT !.SessionPct = int32(@), !.WeekAllPct = int32(@),
              !.WeekModelPct = int32(@), !.At = stamp(@)]
usageFromProto(u) == [u EXCEPT !.At = asTime(@)]

\* The message also says when the snapshot was published.
statusToProto(s, at) ==
    [Hostname |-> s.Hostname, RookVersion |-> s.RookVersion, HostID |-> s.HostID,
     Usage |-> Each(usageToProto, s.Usage),
     Workspaces |-> Each(WorkspaceToProto, s.Workspaces),
     At |-> stamp(at)]

statusFromProto(p) ==
    [Hostname |-> p.Hostname, RookVersion |-> p.RookVersion, HostID |-> p.HostID,
     Usage |-> Each(usageFromProto, p.Usage),
     Workspaces |-> Each(WorkspaceFromProto, p.Workspaces)]

paneToProto(f) ==
    [f EXCEPT !.Cols = uint32(@), !.Rows = uint32(@),
              !.CursorX = uint32(@), !.CursorY = uint32(@)]

\* A uint32 is an int as it stands; so are all the other fields.
paneFromProto(p) == p

digestToProto(d) == [d EXCEPT !.At = stamp(@)]
digestFromProto(p) == [p EXCEPT !.At = asTime(@)]
=============================================================================
