----------------------------- MODULE RailsProofs -----------------------------
(***************************************************************************)
(* Proofs about Rails and the functions of Projection and Convert it uses, *)
(* for any limits, snapshots, prompts and numbers of requests.             *)
(***************************************************************************)
EXTENDS Rails, SequenceTheorems, FiniteSetTheorems, WellFoundedInduction, TLAPS

-----------------------------------------------------------------------------
(* Least and greatest *)

\* A set of naturals has a least element.
LEMMA Least ==
    ASSUME NEW T \in SUBSET Nat, T # {}
    PROVE  \E x \in T : \A y \in T : x <= y
<1> DEFINE R == OpToRel(<, Nat)
<1>1. IsWellFoundedOn(R, Nat)
  BY NatLessThanWellFounded
<1>2. PICK x \in T : \A y \in T : ~(<<y, x>> \in R)
  <2> HIDE DEF R
  <2> QED
    BY <1>1, WFMin, Zenon
<1>3. \A y \in T : ~(y < x)
  BY <1>2 DEF OpToRel
<1> QED
  BY <1>3

\* And, when it is bounded, a greatest.
LEMMA Greatest ==
    ASSUME NEW n \in Nat, NEW T \in SUBSET (0..n), T # {}
    PROVE  \E x \in T : \A y \in T : y <= x
<1> DEFINE D == {k \in Nat : n - k \in T}
<1>1. D # {}
  <2>1. PICK t \in T : TRUE
    OBVIOUS
  <2>2. n - t \in Nat /\ n - (n - t) = t
    BY <2>1
  <2> QED
    BY <2>1, <2>2
<1>2. PICK k \in D : \A l \in D : k <= l
  BY <1>1, Least
<1>3. ASSUME NEW y \in T PROVE y <= n - k
  <2>1. y \in Nat /\ n - y \in Nat /\ n - (n - y) = y
    OBVIOUS
  <2>2. n - y \in D
    BY <2>1
  <2> QED
    BY <1>2, <2>1, <2>2
<1> QED
  BY <1>2, <1>3

-----------------------------------------------------------------------------
(* clip *)

\* The first k elements of a sequence.
LEMMA Front ==
    ASSUME NEW S, NEW s \in Seq(S), NEW k \in 0..Len(s)
    PROVE  /\ SubSeq(s, 1, k) \in Seq(S) /\ Len(SubSeq(s, 1, k)) = k
           /\ DOMAIN SubSeq(s, 1, k) = 1..k
           /\ \A i \in 1..k : SubSeq(s, 1, k)[i] = s[i]
OBVIOUS

\* "cut on a rune boundary": clip keeps a text that fits, and cuts a longer one
\* at its end or where no rune goes on.
LEMMA ClipCuts ==
    ASSUME NEW s \in Text, NEW n \in Nat
    PROVE  \/ Len(s) <= n /\ clip(s, n) = s
           \/ \E k \in 0..n : /\ k < Len(s) /\ clip(s, n) = SubSeq(s, 1, k)
                              /\ k # 0 => ~Continues(s[k + 1])
<1> SUFFICES ASSUME ~(Len(s) <= n)
             PROVE  \E k \in 0..n : /\ k < Len(s) /\ clip(s, n) = SubSeq(s, 1, k)
                                    /\ k # 0 => ~Continues(s[k + 1])
  BY DEF clip
<1> DEFINE cuts == {k \in 1..n : ~Continues(s[k + 1])}
           cut == CHOOSE k \in cuts \cup {0} : \A j \in cuts : j <= k
<1>1. \E k \in cuts \cup {0} : \A j \in cuts : j <= k
  <2>1. cuts \cup {0} \in SUBSET (0..n) /\ cuts \cup {0} # {}
    OBVIOUS
  <2> HIDE DEF cuts
  <2>2. \E k \in cuts \cup {0} : \A j \in cuts \cup {0} : j <= k
    BY <2>1, Greatest
  <2> QED
    BY <2>2
<1>2. cut \in cuts \cup {0}
  <2> HIDE DEF cuts
  <2> QED
    BY <1>1
<1>3. clip(s, n) = SubSeq(s, 1, cut)
  BY DEF clip
<1> HIDE DEF cut
<1>4. Len(s) \in Nat
  BY DEF Text
<1> QED
  BY <1>2, <1>3, <1>4

\* What is clipped is a text within the limit.
LEMMA ClipFits ==
    ASSUME NEW s \in Text, NEW n \in Nat
    PROVE  clip(s, n) \in Text /\ Len(clip(s, n)) <= n
<1>1. CASE Len(s) <= n /\ clip(s, n) = s
  BY <1>1
<1>2. ASSUME NEW k \in 0..n, k < Len(s), clip(s, n) = SubSeq(s, 1, k)
      PROVE  clip(s, n) \in Text /\ Len(clip(s, n)) <= n
  <2>1. k \in 0..Len(s) /\ s \in Seq(Byte)
    BY <1>2 DEF Text
  <2>2. SubSeq(s, 1, k) \in Seq(Byte) /\ Len(SubSeq(s, 1, k)) = k
    BY <2>1, Front
  <2> QED
    BY <1>2, <2>2 DEF Text
<1> QED
  BY <1>1, <1>2, ClipCuts

\* "so a clipped title stays valid UTF-8" (clip).
LEMMA ClipKeepsRunes ==
    ASSUME NEW s \in Text, NEW n \in Nat, Runes(s)
    PROVE  Runes(clip(s, n))
<1> DEFINE follow(b) == CASE b \in 192..223 -> 1 [] b \in 224..239 -> 2
                          [] b \in 240..247 -> 3 [] OTHER -> 0
           Good(t, i) == \/ /\ ~Continues(t[i])
                            /\ \A j \in 1..follow(t[i]) : i + j \in DOMAIN t /\ Continues(t[i + j])
                         \/ /\ Continues(t[i])
                            /\ \E j \in 1..3 : /\ i - j \in DOMAIN t /\ follow(t[i - j]) >= j
                                               /\ \A l \in 1..j-1 : Continues(t[i - l])
<1>1. \A t : Runes(t) <=> \A i \in DOMAIN t : Good(t, i)
  BY DEF Runes
<1>2. \A b : follow(b) \in Nat
  OBVIOUS
<1>3. CASE clip(s, n) = s
  BY <1>3
<1>4. ASSUME NEW k \in 0..n, k < Len(s), clip(s, n) = SubSeq(s, 1, k),
             k # 0 => ~Continues(s[k + 1])
      PROVE  Runes(clip(s, n))
  <2> DEFINE t == SubSeq(s, 1, k)
  <2>1. Len(s) \in Nat /\ DOMAIN s = 1..Len(s) /\ k \in 0..Len(s) /\ s \in Seq(Byte)
    BY <1>4 DEF Text
  <2>2. DOMAIN t = 1..k /\ \A i \in 1..k : t[i] = s[i]
    BY <2>1, Front
  <2> HIDE DEF t, follow
  <2>3. ASSUME NEW i \in 1..k PROVE Good(t, i)
    <3>1. i \in DOMAIN s /\ t[i] = s[i]
      BY <2>1, <2>2, <2>3
    <3>2. CASE /\ ~Continues(s[i])
               /\ \A j \in 1..follow(s[i]) : i + j \in DOMAIN s /\ Continues(s[i + j])
      <4>1. follow(s[i]) \in Nat
        BY <1>2
      <4>2. i + follow(s[i]) <= k
        <5> SUFFICES ASSUME k < i + follow(s[i]) PROVE FALSE
          BY <2>1, <4>1
        <5>1. k + 1 - i \in 1..follow(s[i]) /\ i + (k + 1 - i) = k + 1 /\ k # 0
          BY <2>1, <4>1
        <5>2. Continues(s[i + (k + 1 - i)])
          BY <3>2, <5>1
        <5> QED
          BY <1>4, <5>1, <5>2
      <4>3. \A j \in 1..follow(t[i]) : i + j \in DOMAIN t /\ Continues(t[i + j])
        <5> SUFFICES ASSUME NEW j \in 1..follow(s[i]) PROVE i + j \in DOMAIN t /\ Continues(t[i + j])
          BY <3>1
        <5>1. i + j \in 1..k
          BY <2>1, <4>1, <4>2
        <5> QED
          BY <2>2, <3>2, <5>1
      <4> QED
        BY <3>1, <3>2, <4>3
    <3>3. ASSUME Continues(s[i]), NEW j \in 1..3, i - j \in DOMAIN s, follow(s[i - j]) >= j,
                 \A l \in 1..j-1 : Continues(s[i - l])
          PROVE  Good(t, i)
      <4>1. i - j \in 1..k /\ \A l \in 1..j-1 : i - l \in 1..k
        BY <2>1, <3>3
      <4>2. /\ t[i - j] = s[i - j] /\ i - j \in DOMAIN t
            /\ \A l \in 1..j-1 : t[i - l] = s[i - l]
        BY <2>2, <4>1
      <4> QED
        BY <3>1, <3>3, <4>2
    <3> QED
      <4>1. Good(s, i)
        BY <1>1, <3>1
      <4> QED
        BY <3>2, <3>3, <4>1
  <2>4. \A i \in DOMAIN t : Good(t, i)
    BY <2>2, <2>3
  <2> QED
    BY <1>1, <1>4, <2>4 DEF t
<1> QED
  BY <1>3, <1>4, ClipCuts

-----------------------------------------------------------------------------
(* The clamps, field by field *)

\* Every limit is a number.
LEMMA Limits ==
    /\ Limit.short \in Nat /\ Limit.ask \in Nat /\ Limit.askID \in Nat /\ Limit.answer \in Nat
    /\ Limit.workspaceName \in Nat /\ Limit.workspaces \in Nat /\ Limit.agents \in Nat
    /\ Limit.mode \in Nat /\ Limit.resets \in Nat /\ Limit.modelName \in Nat /\ Limit.ctxPct \in Nat
    /\ Limit.headline \in Nat /\ Limit.bullet \in Nat /\ Limit.agentBullets \in Nat
    /\ Limit.digestBullets \in Nat /\ Limit.cols \in Nat /\ Limit.rows \in Nat
    /\ Limit.fullText \in Nat /\ Limit.small \in Nat /\ Limit.replyState \in Nat
    /\ Limit.digestModel \in Nat
BY LimitsAreNatural DEF LimitName

\* A slice cut to a length.
LEMMA TruncateIs ==
    ASSUME NEW S, NEW s \in Seq(S), NEW n \in Nat
    PROVE  /\ Truncate(s, n) \in Seq(S) /\ Len(Truncate(s, n)) <= Len(s)
           /\ \A i \in DOMAIN Truncate(s, n) : i \in DOMAIN s /\ Truncate(s, n)[i] = s[i]
<1>1. Len(s) \in Nat /\ DOMAIN s = 1..Len(s)
  OBVIOUS
<1>2. CASE Len(s) > n
  <2>1. n \in 0..Len(s) /\ Truncate(s, n) = SubSeq(s, 1, n)
    BY <1>1, <1>2 DEF Truncate
  <2> QED
    BY <1>1, <2>1, Front
<1>3. CASE ~(Len(s) > n)
  BY <1>1, <1>3 DEF Truncate
<1> QED
  BY <1>2, <1>3

\* Bullets: fewer, and each clipped.
LEMMA BulletsIs ==
    ASSUME NEW b \in Seq(Text), NEW n \in Nat
    PROVE  /\ ClampBullets(b, n) \in Seq(Text)
           /\ \A i \in DOMAIN ClampBullets(b, n) :
                i \in DOMAIN b /\ ClampBullets(b, n)[i] = clip(b[i], Limit.bullet)
<1> DEFINE t == Truncate(b, n)
<1>1. t \in Seq(Text) /\ \A i \in DOMAIN t : i \in DOMAIN b /\ t[i] = b[i]
  BY TruncateIs
<1> HIDE DEF t
<1>2. ClampBullets(b, n) = [i \in DOMAIN t |-> clip(t[i], Limit.bullet)]
  BY DEF ClampBullets, Each, t
<1>3. \A x \in Text : clip(x, Limit.bullet) \in Text
  BY Limits, ClipFits
<1> HIDE DEF Text
<1> QED
  BY <1>1, <1>2, <1>3

\* The digest of an agent.
LEMMA AgentDigestIs ==
    ASSUME NEW d \in AgentDigest
    PROVE  ClampAgentDigest(d) =
             [Headline |-> clip(d.Headline, Limit.headline),
              Bullets |-> ClampBullets(d.Bullets, Limit.agentBullets), At |-> d.At]
<1>1. ClipFields(d, [Headline |-> Limit.headline]) =
               [Headline |-> clip(d.Headline, Limit.headline),
                Bullets |-> d.Bullets,
                At |-> d.At]
  BY DEF ClipFields, AgentDigest
<1> QED
  BY <1>1 DEF ClampAgentDigest

\* An agent's digest, gone when it has no headline left.
DigestOf(a) == LET digest == Each(ClampAgentDigest, a.Digest) IN
    IF digest # <<>> /\ digest[1].Headline = Empty THEN <<>> ELSE digest

\* An agent.
LEMMA AgentIs ==
    ASSUME NEW a \in Agent
    PROVE  ClampAgent(a) =
             [ID |-> clip(a.ID, Limit.askID), State |-> clip(a.State, Limit.short),
              Title |-> clip(a.Title, Limit.short), Ask |-> clip(a.Ask, Limit.ask),
              AskID |-> clip(a.AskID, Limit.askID), Model |-> clip(a.Model, Limit.short),
              CostUSD |-> a.CostUSD,
              CtxPct |-> IF a.CtxPct < 0 \/ a.CtxPct > Limit.ctxPct THEN 0 ELSE a.CtxPct,
              Digest |-> DigestOf(a), Attached |-> a.Attached,
              Now |-> clip(a.Now, Limit.short), NowAt |-> a.NowAt, LastEvent |-> a.LastEvent]
<1>1. ClipFields(a, [ID |-> Limit.askID, State |-> Limit.short, Title |-> Limit.short,
                     Ask |-> Limit.ask, AskID |-> Limit.askID, Model |-> Limit.short,
                     Now |-> Limit.short]) =
               [ID |-> clip(a.ID, Limit.askID),
                State |-> clip(a.State, Limit.short),
                Title |-> clip(a.Title, Limit.short),
                Ask |-> clip(a.Ask, Limit.ask),
                AskID |-> clip(a.AskID, Limit.askID),
                Model |-> clip(a.Model, Limit.short),
                CostUSD |-> a.CostUSD,
                CtxPct |-> a.CtxPct,
                Digest |-> a.Digest,
                Attached |-> a.Attached,
                Now |-> clip(a.Now, Limit.short),
                NowAt |-> a.NowAt,
                LastEvent |-> a.LastEvent]
  BY DEF ClipFields, Agent
<1> DEFINE r == ClipFields(a, [ID |-> Limit.askID, State |-> Limit.short, Title |-> Limit.short,
                               Ask |-> Limit.ask, AskID |-> Limit.askID, Model |-> Limit.short,
                               Now |-> Limit.short])
           P == IF r.CtxPct < 0 \/ r.CtxPct > Limit.ctxPct THEN 0 ELSE r.CtxPct
<1>2. ClampAgent(a) = [r EXCEPT !.CtxPct = P, !.Digest = DigestOf(a)]
  BY DEF ClampAgent, DigestOf
<1>3. P = IF a.CtxPct < 0 \/ a.CtxPct > Limit.ctxPct THEN 0 ELSE a.CtxPct
  BY <1>1
<1> HIDE DEF P
<1>4. r = [ID |-> clip(a.ID, Limit.askID), State |-> clip(a.State, Limit.short),
           Title |-> clip(a.Title, Limit.short), Ask |-> clip(a.Ask, Limit.ask),
           AskID |-> clip(a.AskID, Limit.askID), Model |-> clip(a.Model, Limit.short),
           CostUSD |-> a.CostUSD, CtxPct |-> a.CtxPct, Digest |-> a.Digest,
           Attached |-> a.Attached, Now |-> clip(a.Now, Limit.short), NowAt |-> a.NowAt,
           LastEvent |-> a.LastEvent]
  BY <1>1
<1> HIDE DEF r
<1>5. ClampAgent(a) =
        [ID |-> clip(a.ID, Limit.askID), State |-> clip(a.State, Limit.short),
         Title |-> clip(a.Title, Limit.short), Ask |-> clip(a.Ask, Limit.ask),
         AskID |-> clip(a.AskID, Limit.askID), Model |-> clip(a.Model, Limit.short),
         CostUSD |-> a.CostUSD, CtxPct |-> P, Digest |-> DigestOf(a),
         Attached |-> a.Attached, Now |-> clip(a.Now, Limit.short), NowAt |-> a.NowAt,
         LastEvent |-> a.LastEvent]
  BY <1>2, <1>4
<1> QED
  BY <1>3, <1>5

\* A workspace.
LEMMA WorkspaceIs ==
    ASSUME NEW w \in Workspace
    PROVE  ClampWorkspace(w) =
             [Name |-> clip(w.Name, Limit.short), Branch |-> clip(w.Branch, Limit.short),
              Attention |-> w.Attention,
              Agents |-> Each(ClampAgent, Truncate(w.Agents, Limit.agents))]
<1>1. ClipFields(w, [Name |-> Limit.short, Branch |-> Limit.short]) =
               [Name |-> clip(w.Name, Limit.short),
                Branch |-> clip(w.Branch, Limit.short),
                Attention |-> w.Attention,
                Agents |-> w.Agents]
  BY DEF ClipFields, Workspace
<1> QED
  BY <1>1 DEF ClampWorkspace

\* The usage.
LEMMA UsageIs ==
    ASSUME NEW u \in Usage
    PROVE  ClampUsage(u) =
             [Mode |-> clip(u.Mode, Limit.mode), SessionPct |-> u.SessionPct,
              SessionResets |-> clip(u.SessionResets, Limit.resets), WeekAllPct |-> u.WeekAllPct,
              WeekAllResets |-> clip(u.WeekAllResets, Limit.resets),
              WeekModelName |-> clip(u.WeekModelName, Limit.modelName),
              WeekModelPct |-> u.WeekModelPct,
              WeekModelResets |-> clip(u.WeekModelResets, Limit.resets), At |-> u.At,
              AgentTodayUSD |-> u.AgentTodayUSD, AgentWeekUSD |-> u.AgentWeekUSD]
BY DEF ClampUsage, ClipFields, Usage

\* A status.
LEMMA StatusIs ==
    ASSUME NEW s \in Status
    PROVE  ClampStatus(s) =
             [Hostname |-> clip(s.Hostname, Limit.short),
              RookVersion |-> clip(s.RookVersion, Limit.short),
              HostID |-> clip(s.HostID, Limit.askID), Usage |-> Each(ClampUsage, s.Usage),
              Workspaces |-> Each(ClampWorkspace, Truncate(s.Workspaces, Limit.workspaces))]
<1>1. ClipFields(s, [Hostname |-> Limit.short, RookVersion |-> Limit.short,
                     HostID |-> Limit.askID]) =
               [Hostname |-> clip(s.Hostname, Limit.short),
                RookVersion |-> clip(s.RookVersion, Limit.short),
                HostID |-> clip(s.HostID, Limit.askID),
                Usage |-> s.Usage,
                Workspaces |-> s.Workspaces]
  BY DEF ClipFields, Status
<1> DEFINE r == ClipFields(s, [Hostname |-> Limit.short, RookVersion |-> Limit.short,
                               HostID |-> Limit.askID])
           U == Each(ClampUsage, r.Usage)
           W == Each(ClampWorkspace, Truncate(r.Workspaces, Limit.workspaces))
<1>2. ClampStatus(s) = [r EXCEPT !.Usage = U, !.Workspaces = W]
  BY DEF ClampStatus
<1>3. r.Usage = s.Usage /\ r.Workspaces = s.Workspaces
  BY <1>1
<1>4. /\ U = Each(ClampUsage, s.Usage)
      /\ W = Each(ClampWorkspace, Truncate(s.Workspaces, Limit.workspaces))
  <2> HIDE DEF r
  <2> QED
    BY <1>3
<1> HIDE DEF U, W
<1>5. r = [Hostname |-> clip(s.Hostname, Limit.short), RookVersion |-> clip(s.RookVersion, Limit.short),
           HostID |-> clip(s.HostID, Limit.askID), Usage |-> s.Usage, Workspaces |-> s.Workspaces]
  BY <1>1
<1> HIDE DEF r
<1>6. ClampStatus(s) =
        [Hostname |-> clip(s.Hostname, Limit.short), RookVersion |-> clip(s.RookVersion, Limit.short),
         HostID |-> clip(s.HostID, Limit.askID), Usage |-> U, Workspaces |-> W]
  BY <1>2, <1>5
<1> QED
  BY <1>4, <1>6

\* A digest.
LEMMA DigestIs ==
    ASSUME NEW d \in Digest
    PROVE  ClampDigest(d) =
             [ID |-> clip(d.ID, Limit.askID), SessionID |-> clip(d.SessionID, Limit.askID),
              Headline |-> clip(d.Headline, Limit.headline),
              Bullets |-> ClampBullets(d.Bullets, Limit.digestBullets),
              FullText |-> clip(d.FullText, Limit.fullText), Prompt |-> clip(d.Prompt, Limit.small),
              Reply |-> clip(d.Reply, Limit.small),
              ReplyState |-> clip(d.ReplyState, Limit.replyState), At |-> d.At,
              Model |-> clip(d.Model, Limit.digestModel), CostUSD |-> d.CostUSD]
<1>1. ClipFields(d, [ID |-> Limit.askID, SessionID |-> Limit.askID,
                     Headline |-> Limit.headline, FullText |-> Limit.fullText,
                     Prompt |-> Limit.small, Reply |-> Limit.small,
                     ReplyState |-> Limit.replyState, Model |-> Limit.digestModel]) =
               [ID |-> clip(d.ID, Limit.askID),
                SessionID |-> clip(d.SessionID, Limit.askID),
                Headline |-> clip(d.Headline, Limit.headline),
                Bullets |-> d.Bullets,
                FullText |-> clip(d.FullText, Limit.fullText),
                Prompt |-> clip(d.Prompt, Limit.small),
                Reply |-> clip(d.Reply, Limit.small),
                ReplyState |-> clip(d.ReplyState, Limit.replyState),
                At |-> d.At,
                Model |-> clip(d.Model, Limit.digestModel),
                CostUSD |-> d.CostUSD]
  BY DEF ClipFields, Digest
<1> QED
  BY <1>1 DEF ClampDigest

\* A row of a pane.
RowOf(r) == [Text |-> clip(r.Text, 4 * Limit.cols), Runs |-> Truncate(r.Runs, Limit.cols)]
Bounded(n, max) == IF n < 0 \/ n > max THEN max ELSE n

\* A pane frame.
LEMMA PaneIs ==
    ASSUME NEW f \in PaneFrame
    PROVE  ClampPane(f) =
             [Cols |-> Bounded(f.Cols, Limit.cols), Rows |-> Bounded(f.Rows, Limit.rows),
              CursorX |-> IF f.CursorX < 0 THEN 0 ELSE f.CursorX,
              CursorY |-> IF f.CursorY < 0 THEN 0 ELSE f.CursorY,
              CursorVisible |-> f.CursorVisible,
              Lines |-> [i \in DOMAIN Truncate(f.Lines, Limit.rows) |->
                           RowOf(Truncate(f.Lines, Limit.rows)[i])]]
<1> DEFINE t == Truncate(f.Lines, Limit.rows)
           Row(r) == [ClipFields(r, [Text |-> 4 * Limit.cols]) EXCEPT !.Runs = Truncate(@, Limit.cols)]
           L == [i \in DOMAIN t |-> Row(t[i])]
<1>1. t \in Seq(PaneRow)
  BY Limits, TruncateIs DEF PaneFrame
<1>2. ASSUME NEW r \in PaneRow PROVE Row(r) = RowOf(r)
  <2>1. ClipFields(r, [Text |-> 4 * Limit.cols]) = [Text |-> clip(r.Text, 4 * Limit.cols), Runs |-> r.Runs]
    BY DEF ClipFields, PaneRow
  <2> QED
    BY <2>1 DEF RowOf
<1>3. L = [i \in DOMAIN t |-> RowOf(t[i])]
  <2> HIDE DEF t, Row
  <2> QED
    BY <1>1, <1>2
<1>4. ClampPane(f) = [f EXCEPT !.Cols = Bounded(f.Cols, Limit.cols), !.Rows = Bounded(f.Rows, Limit.rows),
                               !.CursorX = IF f.CursorX < 0 THEN 0 ELSE f.CursorX,
                               !.CursorY = IF f.CursorY < 0 THEN 0 ELSE f.CursorY, !.Lines = L]
  BY DEF ClampPane, Each, Bounded
<1> HIDE DEF L
<1>5. ClampPane(f) =
             [Cols |-> Bounded(f.Cols, Limit.cols), Rows |-> Bounded(f.Rows, Limit.rows),
              CursorX |-> IF f.CursorX < 0 THEN 0 ELSE f.CursorX,
              CursorY |-> IF f.CursorY < 0 THEN 0 ELSE f.CursorY,
              CursorVisible |-> f.CursorVisible, Lines |-> L]
  BY <1>4 DEF PaneFrame
<1> QED
  BY <1>3, <1>5

-----------------------------------------------------------------------------
(* The numbers of the wire *)

\* The range of the wire's integers.
LEMMA Widths == LET H == 2 ^ (Width - 1) IN
    /\ H \in Nat /\ H > 0 /\ 2 ^ Width = 2 * H /\ Int32 = -H .. H - 1 /\ Uint32 = 0 .. 2 * H - 1
    /\ Limit.ctxPct < H /\ Limit.cols < 2 * H /\ Limit.rows < 2 * H
<1>1. 2 ^ (Width - 1) \in Int
  BY WidthHoldsLimits
<1> QED
  BY <1>1, Limits, WidthHoldsLimits DEF Int32, Uint32

\* A conversion to 32 bits yields such a number, and keeps one.
LEMMA Int32Is ==
    ASSUME NEW n \in Int
    PROVE  int32(n) \in Int32 /\ (n \in Int32 => int32(n) = n)
<1> DEFINE H == 2 ^ (Width - 1)
<1>1. /\ H \in Nat /\ H > 0 /\ Int32 = -H .. H - 1 /\ int32(n) = ((n + H) % (2 * H)) - H
  BY Widths DEF int32
<1> HIDE DEF H
<1>2. 2 * H \in Nat /\ 2 * H > 0 /\ n + H \in Int
  BY <1>1
<1>3. (n + H) % (2 * H) \in 0 .. 2 * H - 1
  BY <1>2
<1>4. n \in -H .. H - 1 => (n + H) % (2 * H) = n + H
  BY <1>1, <1>2
<1> QED
  BY <1>1, <1>3, <1>4

\* The same without a sign.
LEMMA Uint32Is ==
    ASSUME NEW n \in Int
    PROVE  uint32(n) \in Uint32 /\ (n \in Uint32 => uint32(n) = n)
<1> DEFINE D == 2 ^ Width
<1>1. D \in Nat /\ D > 0 /\ Uint32 = 0 .. D - 1 /\ uint32(n) = n % D
  BY Widths DEF uint32
<1> HIDE DEF D
<1>2. n % D \in 0 .. D - 1
  BY <1>1
<1>3. n \in 0 .. D - 1 => n % D = n
  BY <1>1
<1> QED
  BY <1>1, <1>2, <1>3

\* A time crosses as an optional timestamp, and comes back.
LEMMA StampIs ==
    ASSUME NEW t \in Nat
    PROVE  stamp(t) \in Timestamp /\ asTime(stamp(t)) = t
BY DEF stamp, asTime, Timestamp, Pointer

-----------------------------------------------------------------------------
(* What is clamped keeps its type *)

\* The digest of an agent.
LEMMA AgentDigestTyped == \A d \in AgentDigest : ClampAgentDigest(d) \in AgentDigest
<1> SUFFICES ASSUME NEW d \in AgentDigest PROVE ClampAgentDigest(d) \in AgentDigest
  OBVIOUS
<1>1. d.Headline \in Text /\ d.Bullets \in Seq(Text) /\ d.At \in Nat
  BY DEF AgentDigest
<1>2. /\ clip(d.Headline, Limit.headline) \in Text
      /\ ClampBullets(d.Bullets, Limit.agentBullets) \in Seq(Text)
  BY <1>1, Limits, ClipFits, BulletsIs
<1> QED
  BY <1>1, <1>2, AgentDigestIs DEF AgentDigest

\* The one digest an agent may have.
LEMMA DigestOfTyped ==
    ASSUME NEW a \in Agent
    PROVE  /\ DigestOf(a) \in Pointer(AgentDigest)
           /\ \A i \in DOMAIN DigestOf(a) : /\ i \in DOMAIN a.Digest
                                            /\ DigestOf(a)[i] = ClampAgentDigest(a.Digest[i])
<1> DEFINE e == [i \in DOMAIN a.Digest |-> ClampAgentDigest(a.Digest[i])]
<1>1. a.Digest \in Seq(AgentDigest) /\ Len(a.Digest) <= 1
  BY DEF Agent, Pointer
<1>2. e \in Seq(AgentDigest) /\ Len(e) = Len(a.Digest)
  BY <1>1, AgentDigestTyped
<1>3. DigestOf(a) = e \/ DigestOf(a) = <<>>
  BY DEF DigestOf, Each
<1>4. e \in Pointer(AgentDigest) /\ <<>> \in Pointer(AgentDigest)
  BY <1>1, <1>2 DEF Pointer
<1> QED
  BY <1>3, <1>4

\* An agent.
LEMMA AgentTyped == \A a \in Agent : ClampAgent(a) \in Agent
<1> SUFFICES ASSUME NEW a \in Agent PROVE ClampAgent(a) \in Agent
  OBVIOUS
<1>1. /\ a.ID \in Text /\ a.State \in Text /\ a.Title \in Text /\ a.Ask \in Text /\ a.AskID \in Text
      /\ a.Model \in Text /\ a.CostUSD \in Nat /\ a.CtxPct \in Int /\ a.Attached \in BOOLEAN
      /\ a.Now \in Text /\ a.NowAt \in Nat /\ a.LastEvent \in Nat
  BY DEF Agent
<1>2. /\ clip(a.ID, Limit.askID) \in Text /\ clip(a.State, Limit.short) \in Text
      /\ clip(a.Title, Limit.short) \in Text /\ clip(a.Ask, Limit.ask) \in Text
      /\ clip(a.AskID, Limit.askID) \in Text /\ clip(a.Model, Limit.short) \in Text
      /\ clip(a.Now, Limit.short) \in Text
  BY <1>1, Limits, ClipFits
<1> DEFINE pct == IF a.CtxPct < 0 \/ a.CtxPct > Limit.ctxPct THEN 0 ELSE a.CtxPct
<1>3. pct \in Int /\ DigestOf(a) \in Pointer(AgentDigest)
  BY <1>1, DigestOfTyped
<1> HIDE DEF pct
<1>4. ClampAgent(a) =
             [ID |-> clip(a.ID, Limit.askID), State |-> clip(a.State, Limit.short),
              Title |-> clip(a.Title, Limit.short), Ask |-> clip(a.Ask, Limit.ask),
              AskID |-> clip(a.AskID, Limit.askID), Model |-> clip(a.Model, Limit.short),
              CostUSD |-> a.CostUSD, CtxPct |-> pct, Digest |-> DigestOf(a),
              Attached |-> a.Attached, Now |-> clip(a.Now, Limit.short), NowAt |-> a.NowAt,
              LastEvent |-> a.LastEvent]
  BY AgentIs DEF pct
<1> QED
  BY <1>1, <1>2, <1>3, <1>4 DEF Agent

\* The agents of a workspace.
LEMMA AgentsTyped ==
    ASSUME NEW w \in Workspace
    PROVE  LET c == ClampWorkspace(w).Agents IN
           /\ c \in Seq(Agent)
           /\ \A i \in DOMAIN c : i \in DOMAIN w.Agents /\ c[i] = ClampAgent(w.Agents[i])
<1> DEFINE t == Truncate(w.Agents, Limit.agents)
           c == [i \in DOMAIN t |-> ClampAgent(t[i])]
<1>1. w.Agents \in Seq(Agent)
  BY DEF Workspace
<1>2. t \in Seq(Agent) /\ \A i \in DOMAIN t : i \in DOMAIN w.Agents /\ t[i] = w.Agents[i]
  <2>1. Limit.agents \in Nat
    BY Limits
  <2> HIDE DEF Agent
  <2> QED
    BY <1>1, <2>1, TruncateIs, Zenon
<1>3. ClampWorkspace(w).Agents = c
  BY WorkspaceIs DEF Each
<1> HIDE DEF t
<1>4. c \in Seq(Agent)
  BY <1>2, AgentTyped
<1> QED
  BY <1>2, <1>3, <1>4

\* A workspace.
LEMMA WorkspaceTyped == \A w \in Workspace : ClampWorkspace(w) \in Workspace
<1> SUFFICES ASSUME NEW w \in Workspace PROVE ClampWorkspace(w) \in Workspace
  OBVIOUS
<1>1. w.Name \in Text /\ w.Branch \in Text /\ w.Attention \in Int
  BY DEF Workspace
<1>2. clip(w.Name, Limit.short) \in Text /\ clip(w.Branch, Limit.short) \in Text
  BY <1>1, Limits, ClipFits
<1> DEFINE c == Each(ClampAgent, Truncate(w.Agents, Limit.agents))
<1>3. ClampWorkspace(w) = [Name |-> clip(w.Name, Limit.short), Branch |-> clip(w.Branch, Limit.short),
                           Attention |-> w.Attention, Agents |-> c]
  BY WorkspaceIs
<1> HIDE DEF c
<1>4. c \in Seq(Agent)
  BY <1>3, AgentsTyped
<1> QED
  BY <1>1, <1>2, <1>3, <1>4 DEF Workspace

\* The usage.
LEMMA UsageTyped == \A u \in Usage : ClampUsage(u) \in Usage
<1> SUFFICES ASSUME NEW u \in Usage PROVE ClampUsage(u) \in Usage
  OBVIOUS
<1>1. /\ u.Mode \in Text /\ u.SessionPct \in Int /\ u.SessionResets \in Text /\ u.WeekAllPct \in Int
      /\ u.WeekAllResets \in Text /\ u.WeekModelName \in Text /\ u.WeekModelPct \in Int
      /\ u.WeekModelResets \in Text /\ u.At \in Nat /\ u.AgentTodayUSD \in Nat /\ u.AgentWeekUSD \in Nat
  BY DEF Usage
<1>2. /\ clip(u.Mode, Limit.mode) \in Text /\ clip(u.SessionResets, Limit.resets) \in Text
      /\ clip(u.WeekAllResets, Limit.resets) \in Text /\ clip(u.WeekModelName, Limit.modelName) \in Text
      /\ clip(u.WeekModelResets, Limit.resets) \in Text
  BY <1>1, Limits, ClipFits
<1> QED
  BY <1>1, <1>2, UsageIs DEF Usage

\* A status, and its parts.
LEMMA StatusTyped ==
    ASSUME NEW s \in Status
    PROVE  LET c == ClampStatus(s) IN
           /\ c \in Status
           /\ \A i \in DOMAIN c.Usage : i \in DOMAIN s.Usage /\ c.Usage[i] = ClampUsage(s.Usage[i])
           /\ \A i \in DOMAIN c.Workspaces : /\ i \in DOMAIN s.Workspaces
                                             /\ c.Workspaces[i] = ClampWorkspace(s.Workspaces[i])
<1> DEFINE t == Truncate(s.Workspaces, Limit.workspaces)
           U == [i \in DOMAIN s.Usage |-> ClampUsage(s.Usage[i])]
           W == [i \in DOMAIN t |-> ClampWorkspace(t[i])]
<1>1. /\ s.Hostname \in Text /\ s.RookVersion \in Text /\ s.HostID \in Text
      /\ s.Usage \in Seq(Usage) /\ Len(s.Usage) <= 1 /\ s.Workspaces \in Seq(Workspace)
  BY DEF Status, Pointer
<1>2. t \in Seq(Workspace) /\ \A i \in DOMAIN t : i \in DOMAIN s.Workspaces /\ t[i] = s.Workspaces[i]
  <2>1. Limit.workspaces \in Nat
    BY Limits
  <2> HIDE DEF Workspace, Status
  <2> QED
    BY <1>1, <2>1, TruncateIs, Zenon
<1>3. ClampStatus(s) = [Hostname |-> clip(s.Hostname, Limit.short),
                        RookVersion |-> clip(s.RookVersion, Limit.short),
                        HostID |-> clip(s.HostID, Limit.askID), Usage |-> U, Workspaces |-> W]
  BY StatusIs DEF Each
<1> HIDE DEF t
<1>4. W \in Seq(Workspace)
  BY <1>2, WorkspaceTyped
<1>5. U \in Seq(Usage) /\ Len(U) <= 1
  BY <1>1, UsageTyped
<1>6. U \in Pointer(Usage)
  BY <1>5 DEF Pointer
<1>7. /\ clip(s.Hostname, Limit.short) \in Text /\ clip(s.RookVersion, Limit.short) \in Text
      /\ clip(s.HostID, Limit.askID) \in Text
  BY <1>1, Limits, ClipFits
<1>8. \A i \in DOMAIN U : i \in DOMAIN s.Usage /\ U[i] = ClampUsage(s.Usage[i])
  OBVIOUS
<1>9. \A i \in DOMAIN W : i \in DOMAIN s.Workspaces /\ W[i] = ClampWorkspace(s.Workspaces[i])
  BY <1>2
<1> HIDE DEF U, W
<1>10. ClampStatus(s) \in Status
  BY <1>3, <1>4, <1>6, <1>7 DEF Status
<1> QED
  BY <1>3, <1>8, <1>9, <1>10

\* A digest.
LEMMA DigestTyped ==
    ASSUME NEW d \in Digest
    PROVE  ClampDigest(d) \in Digest
<1>1. /\ d.ID \in Text /\ d.SessionID \in Text /\ d.Headline \in Text /\ d.Bullets \in Seq(Text)
      /\ d.FullText \in Text /\ d.Prompt \in Text /\ d.Reply \in Text /\ d.ReplyState \in Text
      /\ d.At \in Nat /\ d.Model \in Text /\ d.CostUSD \in Nat
  BY DEF Digest
<1>2. /\ clip(d.ID, Limit.askID) \in Text /\ clip(d.SessionID, Limit.askID) \in Text
      /\ clip(d.Headline, Limit.headline) \in Text /\ clip(d.FullText, Limit.fullText) \in Text
      /\ clip(d.Prompt, Limit.small) \in Text /\ clip(d.Reply, Limit.small) \in Text
      /\ clip(d.ReplyState, Limit.replyState) \in Text /\ clip(d.Model, Limit.digestModel) \in Text
  BY <1>1, Limits, ClipFits
<1>3. ClampBullets(d.Bullets, Limit.digestBullets) \in Seq(Text)
  BY <1>1, Limits, BulletsIs
<1> QED
  BY <1>1, <1>2, <1>3, DigestIs DEF Digest

\* A row.
LEMMA RowTyped == \A r \in PaneRow : RowOf(r) \in PaneRow
<1> SUFFICES ASSUME NEW r \in PaneRow PROVE RowOf(r) \in PaneRow
  OBVIOUS
<1>1. r.Text \in Text /\ r.Runs \in Seq(StyleRun) /\ Limit.cols \in Nat /\ 4 * Limit.cols \in Nat
  <2>1. r.Text \in Text /\ r.Runs \in Seq(StyleRun)
    BY DEF PaneRow
  <2>2. Limit.cols \in Nat
    BY Limits
  <2> QED
    BY <2>1, <2>2
<1>2. clip(r.Text, 4 * Limit.cols) \in Text
  BY <1>1, ClipFits
<1>3. Truncate(r.Runs, Limit.cols) \in Seq(StyleRun)
  <2> HIDE DEF StyleRun
  <2> QED
    BY <1>1, TruncateIs, Zenon
<1> QED
  BY <1>2, <1>3 DEF RowOf, PaneRow

\* A pane frame, whose size and cursor are also in range.
LEMMA PaneTyped ==
    ASSUME NEW f \in PaneFrame
    PROVE  LET c == ClampPane(f) IN
           /\ c \in PaneFrame
           /\ \A i \in DOMAIN c.Lines : i \in DOMAIN f.Lines /\ c.Lines[i] = RowOf(f.Lines[i])
           /\ c.Cols \in Uint32 /\ c.Rows \in Uint32
           /\ f.CursorX \in Int32 => c.CursorX \in Uint32
           /\ f.CursorY \in Int32 => c.CursorY \in Uint32
<1> DEFINE t == Truncate(f.Lines, Limit.rows)
           L == [i \in DOMAIN t |-> RowOf(t[i])]
           X == IF f.CursorX < 0 THEN 0 ELSE f.CursorX
           Y == IF f.CursorY < 0 THEN 0 ELSE f.CursorY
           C == Bounded(f.Cols, Limit.cols)
           R == Bounded(f.Rows, Limit.rows)
<1>1. /\ f.Cols \in Int /\ f.Rows \in Int /\ f.CursorX \in Int /\ f.CursorY \in Int
      /\ f.CursorVisible \in BOOLEAN /\ f.Lines \in Seq(PaneRow)
  BY DEF PaneFrame
<1>2. t \in Seq(PaneRow) /\ \A i \in DOMAIN t : i \in DOMAIN f.Lines /\ t[i] = f.Lines[i]
  <2>1. Limit.rows \in Nat
    BY Limits
  <2> HIDE DEF PaneRow
  <2> QED
    BY <1>1, <2>1, TruncateIs, Zenon
<1>3. L \in Seq(PaneRow) /\ \A i \in DOMAIN L : i \in DOMAIN f.Lines /\ L[i] = RowOf(f.Lines[i])
  <2> HIDE DEF t, PaneRow
  <2> QED
    BY <1>2, RowTyped
<1>4. ClampPane(f) = [Cols |-> C, Rows |-> R, CursorX |-> X, CursorY |-> Y,
                      CursorVisible |-> f.CursorVisible, Lines |-> L]
  BY PaneIs
<1>5. C \in Uint32 /\ R \in Uint32 /\ C \in Int /\ R \in Int
  <2> DEFINE H == 2 ^ (Width - 1)
  <2>1. H \in Nat /\ Uint32 = 0 .. 2 * H - 1 /\ Limit.cols < 2 * H /\ Limit.rows < 2 * H
    BY Widths
  <2>2. Limit.cols \in Nat /\ Limit.rows \in Nat
    BY Limits
  <2> HIDE DEF H
  <2> QED
    BY <1>1, <2>1, <2>2 DEF Bounded
<1>6. /\ X \in Int /\ Y \in Int /\ (f.CursorX \in Int32 => X \in Uint32)
      /\ (f.CursorY \in Int32 => Y \in Uint32)
  <2> DEFINE H == 2 ^ (Width - 1)
  <2>1. H \in Nat /\ H > 0 /\ Uint32 = 0 .. 2 * H - 1 /\ Int32 = -H .. H - 1
    BY Widths
  <2> HIDE DEF H
  <2> QED
    BY <1>1, <2>1
<1> HIDE DEF L, X, Y, C, R
<1>7. ClampPane(f) \in PaneFrame
  BY <1>1, <1>3, <1>4, <1>5, <1>6 DEF PaneFrame
<1> QED
  BY <1>3, <1>4, <1>5, <1>6, <1>7

-----------------------------------------------------------------------------
(* The converters: types, texts and the way back *)

\* The digest of an agent.
LEMMA AgentDigestCrosses == \A d \in AgentDigest :
    /\ AgentDigestToProto(d) \in WireAgentDigest
    /\ AgentDigestTexts(AgentDigestToProto(d)) = AgentDigestTexts(d)
    /\ AgentDigestFromProto(AgentDigestToProto(d)) = d
<1> TAKE d \in AgentDigest
<1>1. /\ d.Headline \in Text /\ d.Bullets \in Seq(Text) /\ d.At \in Nat
      /\ d = [Headline |-> d.Headline, Bullets |-> d.Bullets, At |-> d.At]
  BY DEF AgentDigest
<1>2. stamp(d.At) \in Timestamp /\ asTime(stamp(d.At)) = d.At
  BY <1>1, StampIs
<1>3. AgentDigestToProto(d) = [Headline |-> d.Headline, Bullets |-> d.Bullets, At |-> stamp(d.At)]
  BY <1>1 DEF AgentDigestToProto
<1>4. AgentDigestFromProto(AgentDigestToProto(d)) =
        [Headline |-> d.Headline, Bullets |-> d.Bullets, At |-> asTime(stamp(d.At))]
  BY <1>3 DEF AgentDigestFromProto
<1>5. AgentDigestTexts(AgentDigestToProto(d)) = AgentDigestTexts(d)
  BY <1>3 DEF AgentDigestTexts
<1>6. AgentDigestToProto(d) \in WireAgentDigest
  BY <1>1, <1>2, <1>3 DEF WireAgentDigest
<1> QED
  BY <1>1, <1>2, <1>4, <1>5, <1>6

\* An agent, whose state comes back when it is one of the canon.
LEMMA AgentCrosses == \A a \in Agent :
    /\ AgentToProto(a) \in WireAgent
    /\ AgentTexts(AgentToProto(a)) = AgentTexts(a)
    /\ a.CtxPct \in Int32 /\ a.State \in {Working, NeedsInput, Quiet, Empty} =>
         AgentFromProto(AgentToProto(a)) = a
    /\ AgentFromProto(AgentToProto(a)).CtxPct = int32(a.CtxPct)
    /\ AgentFromProto(AgentToProto(a)).ID = a.ID /\ AgentFromProto(AgentToProto(a)).AskID = a.AskID
<1> TAKE a \in Agent
<1> DEFINE D == [i \in DOMAIN a.Digest |-> AgentDigestToProto(a.Digest[i])]
           w == AgentToProto(a)
           back == [i \in DOMAIN D |-> AgentDigestFromProto(D[i])]
<1>1. /\ a.ID \in Text /\ a.State \in Text /\ a.Title \in Text /\ a.Ask \in Text /\ a.AskID \in Text
      /\ a.Model \in Text /\ a.CostUSD \in Nat /\ a.CtxPct \in Int /\ a.Attached \in BOOLEAN
      /\ a.Now \in Text /\ a.NowAt \in Nat /\ a.LastEvent \in Nat /\ a.Digest \in Pointer(AgentDigest)
  BY DEF Agent
<1>2. a = [ID |-> a.ID, State |-> a.State, Title |-> a.Title, Ask |-> a.Ask, AskID |-> a.AskID,
           Model |-> a.Model, CostUSD |-> a.CostUSD, CtxPct |-> a.CtxPct, Digest |-> a.Digest,
           Attached |-> a.Attached, Now |-> a.Now, NowAt |-> a.NowAt, LastEvent |-> a.LastEvent]
  BY DEF Agent
<1>3. w = [a EXCEPT !.State = stateToProto(a.State), !.CtxPct = int32(a.CtxPct), !.Digest = D,
                    !.NowAt = stamp(a.NowAt), !.LastEvent = stamp(a.LastEvent)]
  BY DEF AgentToProto, Each
<1>4. a.Digest \in Seq(AgentDigest) /\ Len(a.Digest) <= 1
  BY <1>1 DEF Pointer
<1>5. D \in Seq(WireAgentDigest) /\ Len(D) = Len(a.Digest) /\ DOMAIN D = DOMAIN a.Digest
  <2> HIDE DEF AgentDigest, WireAgentDigest
  <2> QED
    BY <1>4, AgentDigestCrosses
<1>6. \A i \in DOMAIN D : /\ D[i] = AgentDigestToProto(a.Digest[i]) /\ a.Digest[i] \in AgentDigest
  BY <1>4
<1>7. back = a.Digest
  <2>1. \A i \in DOMAIN D : AgentDigestFromProto(D[i]) = a.Digest[i]
    BY <1>6, AgentDigestCrosses
  <2>2. a.Digest = [i \in DOMAIN a.Digest |-> a.Digest[i]]
    BY <1>4
  <2> HIDE DEF D
  <2> QED
    BY <1>5, <2>1, <2>2
<1>8. Texts(AgentDigestTexts, D) = Texts(AgentDigestTexts, a.Digest)
  <2>1. \A i \in DOMAIN D : AgentDigestTexts(D[i]) = AgentDigestTexts(a.Digest[i])
    BY <1>6, AgentDigestCrosses
  <2> HIDE DEF D
  <2> QED
    BY <1>5, <2>1 DEF Texts
<1>9. back = Each(AgentDigestFromProto, D)
  BY DEF Each
<1> HIDE DEF D, back
<1>10. w = [ID |-> a.ID, State |-> stateToProto(a.State), Title |-> a.Title, Ask |-> a.Ask,
            AskID |-> a.AskID, Model |-> a.Model, CostUSD |-> a.CostUSD, CtxPct |-> int32(a.CtxPct),
            Digest |-> D, Attached |-> a.Attached, Now |-> a.Now, NowAt |-> stamp(a.NowAt),
            LastEvent |-> stamp(a.LastEvent)]
  BY <1>2, <1>3
<1> HIDE DEF w
<1>11. AgentTexts(w) = AgentTexts(a)
  BY <1>8, <1>10 DEF AgentTexts
<1>12. /\ stamp(a.NowAt) \in Timestamp /\ asTime(stamp(a.NowAt)) = a.NowAt
       /\ stamp(a.LastEvent) \in Timestamp /\ asTime(stamp(a.LastEvent)) = a.LastEvent
       /\ int32(a.CtxPct) \in Int32 /\ (a.CtxPct \in Int32 => int32(a.CtxPct) = a.CtxPct)
  BY <1>1, StampIs, Int32Is
<1>13. stateToProto(a.State) \in AgentState
  BY DEF stateToProto, AgentState
<1>14. D \in Pointer(WireAgentDigest)
  BY <1>4, <1>5 DEF Pointer
<1>15. w \in WireAgent
  BY <1>1, <1>10, <1>12, <1>13, <1>14 DEF WireAgent
<1>16. AgentFromProto(w) = [w EXCEPT !.State = stateFromProto(stateToProto(a.State)), !.Digest = back,
                                     !.NowAt = asTime(stamp(a.NowAt)),
                                     !.LastEvent = asTime(stamp(a.LastEvent))]
  <2>1. /\ w.State = stateToProto(a.State) /\ w.Digest = D /\ w.NowAt = stamp(a.NowAt)
        /\ w.LastEvent = stamp(a.LastEvent)
    BY <1>10
  <2> QED
    BY <1>9, <2>1 DEF AgentFromProto
<1>17. AgentFromProto(w) =
           [ID |-> a.ID, State |-> stateFromProto(stateToProto(a.State)), Title |-> a.Title, Ask |-> a.Ask,
            AskID |-> a.AskID, Model |-> a.Model, CostUSD |-> a.CostUSD, CtxPct |-> int32(a.CtxPct),
            Digest |-> back, Attached |-> a.Attached, Now |-> a.Now, NowAt |-> asTime(stamp(a.NowAt)),
            LastEvent |-> asTime(stamp(a.LastEvent))]
  <2> DEFINE z == stateFromProto(stateToProto(a.State))
             n == asTime(stamp(a.NowAt))
             e == asTime(stamp(a.LastEvent))
             v == AgentFromProto(w)
  <2>1. v = [w EXCEPT !.State = z, !.Digest = back, !.NowAt = n, !.LastEvent = e]
    BY <1>16
  <2> HIDE DEF z, n, e, v
  <2>2. v = [ID |-> a.ID, State |-> z, Title |-> a.Title, Ask |-> a.Ask, AskID |-> a.AskID,
             Model |-> a.Model, CostUSD |-> a.CostUSD, CtxPct |-> int32(a.CtxPct), Digest |-> back,
             Attached |-> a.Attached, Now |-> a.Now, NowAt |-> n, LastEvent |-> e]
    BY <1>10, <2>1
  <2> QED
    BY <2>2 DEF z, n, e, v
<1>18. a.State \in {Working, NeedsInput, Quiet, Empty} => stateFromProto(stateToProto(a.State)) = a.State
  BY DEF stateFromProto, stateToProto, Working, NeedsInput, Quiet, Empty
<1>19. ASSUME a.CtxPct \in Int32, a.State \in {Working, NeedsInput, Quiet, Empty}
       PROVE  AgentFromProto(w) = a
  BY <1>2, <1>7, <1>12, <1>17, <1>18, <1>19
<1>20. /\ AgentFromProto(w).CtxPct = int32(a.CtxPct)
       /\ AgentFromProto(w).ID = a.ID /\ AgentFromProto(w).AskID = a.AskID
  BY <1>17
<1>21. w = AgentToProto(a)
  BY DEF w
<1> QED
  BY <1>11, <1>15, <1>19, <1>20, <1>21

\* A workspace.
LEMMA WorkspaceCrosses == \A w \in Workspace :
    LET p == WorkspaceToProto(w)
        back == WorkspaceFromProto(p) IN
    /\ p \in WireWorkspace
    /\ WorkspaceTexts(p) = WorkspaceTexts(w)
    /\ back.Name = w.Name /\ DOMAIN back.Agents = DOMAIN w.Agents
    /\ \A i \in DOMAIN w.Agents : back.Agents[i] = AgentFromProto(AgentToProto(w.Agents[i]))
    /\ w.Attention \in Int32 /\ back.Agents = w.Agents => back = w
<1> TAKE w \in Workspace
<1> DEFINE A == [i \in DOMAIN w.Agents |-> AgentToProto(w.Agents[i])]
           B == [i \in DOMAIN A |-> AgentFromProto(A[i])]
           p == WorkspaceToProto(w)
           back == WorkspaceFromProto(p)
<1>1. /\ w.Name \in Text /\ w.Branch \in Text /\ w.Attention \in Int /\ w.Agents \in Seq(Agent)
      /\ w = [Name |-> w.Name, Branch |-> w.Branch, Attention |-> w.Attention, Agents |-> w.Agents]
  BY DEF Workspace
<1>2. p = [w EXCEPT !.Attention = int32(w.Attention), !.Agents = A]
  BY DEF WorkspaceToProto, Each
<1>3. A \in Seq(WireAgent) /\ DOMAIN A = DOMAIN w.Agents
  <2> HIDE DEF Agent, WireAgent
  <2> QED
    BY <1>1, AgentCrosses
<1>4. Texts(AgentTexts, A) = Texts(AgentTexts, w.Agents)
  <2> HIDE DEF Agent
  <2>1. \A i \in DOMAIN w.Agents : A[i] = AgentToProto(w.Agents[i]) /\ w.Agents[i] \in Agent
    BY <1>1
  <2>2. \A i \in DOMAIN w.Agents : AgentTexts(A[i]) = AgentTexts(w.Agents[i])
    BY <2>1, AgentCrosses
  <2> HIDE DEF A
  <2> QED
    BY <1>3, <2>2 DEF Texts
<1>5. /\ DOMAIN B = DOMAIN w.Agents /\ B = Each(AgentFromProto, A)
      /\ \A i \in DOMAIN w.Agents : B[i] = AgentFromProto(AgentToProto(w.Agents[i]))
  BY DEF Each
<1> HIDE DEF A, B
<1>6. p = [Name |-> w.Name, Branch |-> w.Branch, Attention |-> int32(w.Attention), Agents |-> A]
  BY <1>1, <1>2
<1> HIDE DEF p
<1>7. back = [Name |-> w.Name, Branch |-> w.Branch, Attention |-> int32(w.Attention), Agents |-> B]
  BY <1>5, <1>6 DEF WorkspaceFromProto
<1>8. int32(w.Attention) \in Int32 /\ (w.Attention \in Int32 => int32(w.Attention) = w.Attention)
  BY <1>1, Int32Is
<1>9. p \in WireWorkspace
  BY <1>1, <1>3, <1>6, <1>8 DEF WireWorkspace
<1>10. WorkspaceTexts(p) = WorkspaceTexts(w)
  BY <1>4, <1>6 DEF WorkspaceTexts
<1>11. w.Attention \in Int32 /\ back.Agents = w.Agents => back = w
  BY <1>1, <1>7, <1>8
<1>12. back.Name = w.Name /\ back.Agents = B
  BY <1>7
<1> HIDE DEF back
<1>13. p = WorkspaceToProto(w) /\ back = WorkspaceFromProto(p)
  BY DEF p, back
<1> QED
  BY <1>5, <1>9, <1>10, <1>11, <1>12, <1>13

\* The usage.
LEMMA UsageCrosses == \A u \in Usage :
    /\ usageToProto(u) \in WireUsage
    /\ UsageTexts(usageToProto(u)) = UsageTexts(u)
    /\ {u.SessionPct, u.WeekAllPct, u.WeekModelPct} \subseteq Int32 =>
         usageFromProto(usageToProto(u)) = u
<1> TAKE u \in Usage
<1> DEFINE p == usageToProto(u)
<1>1. /\ u.Mode \in Text /\ u.SessionPct \in Int /\ u.SessionResets \in Text /\ u.WeekAllPct \in Int
      /\ u.WeekAllResets \in Text /\ u.WeekModelName \in Text /\ u.WeekModelPct \in Int
      /\ u.WeekModelResets \in Text /\ u.At \in Nat /\ u.AgentTodayUSD \in Nat /\ u.AgentWeekUSD \in Nat
  BY DEF Usage
<1>2. u = [Mode |-> u.Mode, SessionPct |-> u.SessionPct, SessionResets |-> u.SessionResets,
           WeekAllPct |-> u.WeekAllPct, WeekAllResets |-> u.WeekAllResets,
           WeekModelName |-> u.WeekModelName, WeekModelPct |-> u.WeekModelPct,
           WeekModelResets |-> u.WeekModelResets, At |-> u.At,
           AgentTodayUSD |-> u.AgentTodayUSD, AgentWeekUSD |-> u.AgentWeekUSD]
  BY DEF Usage
<1>3. p = [Mode |-> u.Mode, SessionPct |-> int32(u.SessionPct), SessionResets |-> u.SessionResets,
           WeekAllPct |-> int32(u.WeekAllPct), WeekAllResets |-> u.WeekAllResets,
           WeekModelName |-> u.WeekModelName, WeekModelPct |-> int32(u.WeekModelPct),
           WeekModelResets |-> u.WeekModelResets, At |-> stamp(u.At),
           AgentTodayUSD |-> u.AgentTodayUSD, AgentWeekUSD |-> u.AgentWeekUSD]
  <2> DEFINE x == int32(u.SessionPct)
             y == int32(u.WeekAllPct)
             z == int32(u.WeekModelPct)
             t == stamp(u.At)
  <2>1. p = [u EXCEPT !.SessionPct = x, !.WeekAllPct = y, !.WeekModelPct = z, !.At = t]
    BY DEF usageToProto
  <2> HIDE DEF x, y, z, t, p
  <2>2. p = [Mode |-> u.Mode, SessionPct |-> x, SessionResets |-> u.SessionResets,
             WeekAllPct |-> y, WeekAllResets |-> u.WeekAllResets,
             WeekModelName |-> u.WeekModelName, WeekModelPct |-> z,
             WeekModelResets |-> u.WeekModelResets, At |-> t,
             AgentTodayUSD |-> u.AgentTodayUSD, AgentWeekUSD |-> u.AgentWeekUSD]
    BY <1>2, <2>1
  <2> QED
    BY <2>2 DEF x, y, z, t
<1> HIDE DEF p
<1>4. /\ stamp(u.At) \in Timestamp /\ asTime(stamp(u.At)) = u.At
      /\ int32(u.SessionPct) \in Int32 /\ (u.SessionPct \in Int32 => int32(u.SessionPct) = u.SessionPct)
      /\ int32(u.WeekAllPct) \in Int32 /\ (u.WeekAllPct \in Int32 => int32(u.WeekAllPct) = u.WeekAllPct)
      /\ int32(u.WeekModelPct) \in Int32
      /\ (u.WeekModelPct \in Int32 => int32(u.WeekModelPct) = u.WeekModelPct)
  BY <1>1, StampIs, Int32Is
<1>5. p \in WireUsage
  BY <1>1, <1>3, <1>4 DEF WireUsage
<1>6. UsageTexts(p) = UsageTexts(u)
  BY <1>3 DEF UsageTexts
<1>7. usageFromProto(p) =
          [Mode |-> u.Mode, SessionPct |-> int32(u.SessionPct), SessionResets |-> u.SessionResets,
           WeekAllPct |-> int32(u.WeekAllPct), WeekAllResets |-> u.WeekAllResets,
           WeekModelName |-> u.WeekModelName, WeekModelPct |-> int32(u.WeekModelPct),
           WeekModelResets |-> u.WeekModelResets, At |-> asTime(stamp(u.At)),
           AgentTodayUSD |-> u.AgentTodayUSD, AgentWeekUSD |-> u.AgentWeekUSD]
  BY <1>3 DEF usageFromProto
<1>8. ASSUME {u.SessionPct, u.WeekAllPct, u.WeekModelPct} \subseteq Int32
      PROVE  usageFromProto(p) = u
  <2>1. u.SessionPct \in Int32 /\ u.WeekAllPct \in Int32 /\ u.WeekModelPct \in Int32
    BY <1>8
  <2> QED
    BY <1>2, <1>4, <1>7, <2>1
<1> QED
  BY <1>5, <1>6, <1>8 DEF p

\* A status: everything arrives when every part does.
LEMMA StatusCrosses == \A s \in Status, at \in Nat :
    LET p == statusToProto(s, at)
        back == statusFromProto(p) IN
    /\ p \in WireStatus
    /\ StatusTexts(p) = StatusTexts(s)
    /\ DOMAIN back.Workspaces = DOMAIN s.Workspaces
    /\ \A i \in DOMAIN s.Workspaces :
         back.Workspaces[i] = WorkspaceFromProto(WorkspaceToProto(s.Workspaces[i]))
    /\ /\ \A i \in DOMAIN s.Usage : usageFromProto(usageToProto(s.Usage[i])) = s.Usage[i]
       /\ back.Workspaces = s.Workspaces
       => back = s
<1> TAKE s \in Status, at \in Nat
<1> DEFINE U == [i \in DOMAIN s.Usage |-> usageToProto(s.Usage[i])]
           W == [i \in DOMAIN s.Workspaces |-> WorkspaceToProto(s.Workspaces[i])]
           u == [i \in DOMAIN U |-> usageFromProto(U[i])]
           w == [i \in DOMAIN W |-> WorkspaceFromProto(W[i])]
           p == statusToProto(s, at)
           back == statusFromProto(p)
<1>1. /\ s.Hostname \in Text /\ s.RookVersion \in Text /\ s.HostID \in Text
      /\ s.Usage \in Seq(Usage) /\ Len(s.Usage) <= 1 /\ s.Workspaces \in Seq(Workspace)
      /\ s = [Hostname |-> s.Hostname, RookVersion |-> s.RookVersion, HostID |-> s.HostID,
              Usage |-> s.Usage, Workspaces |-> s.Workspaces]
  BY DEF Status, Pointer
<1>2. p = [Hostname |-> s.Hostname, RookVersion |-> s.RookVersion, HostID |-> s.HostID,
           Usage |-> U, Workspaces |-> W, At |-> stamp(at)]
  BY DEF statusToProto, Each
<1>3. \A i \in DOMAIN s.Usage : s.Usage[i] \in Usage /\ U[i] = usageToProto(s.Usage[i])
  BY <1>1
<1>4. \A i \in DOMAIN s.Workspaces : /\ s.Workspaces[i] \in Workspace
                                     /\ W[i] = WorkspaceToProto(s.Workspaces[i])
  BY <1>1
<1>5. DOMAIN U = DOMAIN s.Usage /\ U \in Seq(WireUsage) /\ Len(U) = Len(s.Usage)
  <2> HIDE DEF Usage, WireUsage
  <2> QED
    BY <1>1, UsageCrosses
<1>6. DOMAIN W = DOMAIN s.Workspaces /\ W \in Seq(WireWorkspace)
  <2> HIDE DEF Workspace, WireWorkspace
  <2> QED
    BY <1>1, WorkspaceCrosses
<1>7. /\ DOMAIN u = DOMAIN s.Usage /\ u = Each(usageFromProto, U)
      /\ \A i \in DOMAIN s.Usage : u[i] = usageFromProto(usageToProto(s.Usage[i]))
  BY DEF Each
<1>8. /\ DOMAIN w = DOMAIN s.Workspaces /\ w = Each(WorkspaceFromProto, W)
      /\ \A i \in DOMAIN s.Workspaces :
           w[i] = WorkspaceFromProto(WorkspaceToProto(s.Workspaces[i]))
  BY DEF Each
<1>9. (\A i \in DOMAIN s.Usage : usageFromProto(usageToProto(s.Usage[i])) = s.Usage[i]) => u = s.Usage
  <2>1. s.Usage = [i \in DOMAIN s.Usage |-> s.Usage[i]]
    BY <1>1
  <2>2. u = [i \in DOMAIN s.Usage |-> usageFromProto(usageToProto(s.Usage[i]))]
    OBVIOUS
  <2> QED
    BY <2>1, <2>2
<1> HIDE DEF U, W, u, w
<1>10. Texts(UsageTexts, U) = Texts(UsageTexts, s.Usage)
  <2>1. \A i \in DOMAIN s.Usage : UsageTexts(U[i]) = UsageTexts(s.Usage[i])
    BY <1>3, UsageCrosses
  <2> QED
    BY <1>5, <2>1 DEF Texts
<1>11. Texts(WorkspaceTexts, W) = Texts(WorkspaceTexts, s.Workspaces)
  <2>1. \A i \in DOMAIN s.Workspaces : WorkspaceTexts(W[i]) = WorkspaceTexts(s.Workspaces[i])
    BY <1>4, WorkspaceCrosses
  <2> QED
    BY <1>6, <2>1 DEF Texts
<1>12. stamp(at) \in Timestamp
  BY StampIs
<1>13. p \in WireStatus
  <2>1. U \in Pointer(WireUsage)
    BY <1>1, <1>5 DEF Pointer
  <2> HIDE DEF p
  <2> QED
    BY <1>1, <1>2, <1>6, <1>12, <2>1 DEF WireStatus
<1>14. StatusTexts(p) = StatusTexts(s)
  <2> HIDE DEF p
  <2> QED
    BY <1>2, <1>10, <1>11 DEF StatusTexts
<1>15. back = [Hostname |-> s.Hostname, RookVersion |-> s.RookVersion, HostID |-> s.HostID,
               Usage |-> u, Workspaces |-> w]
  <2> HIDE DEF p
  <2> QED
    BY <1>2, <1>7, <1>8 DEF statusFromProto
<1>16. back.Workspaces = w /\ (u = s.Usage /\ w = s.Workspaces => back = s)
  <2> HIDE DEF back
  <2> QED
    BY <1>1, <1>15
<1> HIDE DEF p, back
<1>17. p = statusToProto(s, at) /\ back = statusFromProto(p)
  BY DEF p, back
<1> QED
  BY <1>8, <1>9, <1>13, <1>14, <1>16, <1>17

\* A pane frame that is within the limits of the wire.
LEMMA PaneCrosses == \A f \in PaneFrame :
    LET p == paneToProto(f) IN
    /\ p \in WirePaneFrame
    /\ PaneTexts(p) = PaneTexts(f)
    /\ {f.Cols, f.Rows, f.CursorX, f.CursorY} \subseteq Uint32 => paneFromProto(p) = f
<1> TAKE f \in PaneFrame
<1> DEFINE p == paneToProto(f)
           c == uint32(f.Cols)
           r == uint32(f.Rows)
           x == uint32(f.CursorX)
           y == uint32(f.CursorY)
<1>1. /\ f.Cols \in Int /\ f.Rows \in Int /\ f.CursorX \in Int /\ f.CursorY \in Int
      /\ f.CursorVisible \in BOOLEAN /\ f.Lines \in Seq(PaneRow)
      /\ f = [Cols |-> f.Cols, Rows |-> f.Rows, CursorX |-> f.CursorX, CursorY |-> f.CursorY,
              CursorVisible |-> f.CursorVisible, Lines |-> f.Lines]
  BY DEF PaneFrame
<1>2. p = [f EXCEPT !.Cols = c, !.Rows = r, !.CursorX = x, !.CursorY = y]
  BY DEF paneToProto
<1>3. /\ c \in Uint32 /\ (f.Cols \in Uint32 => c = f.Cols)
      /\ r \in Uint32 /\ (f.Rows \in Uint32 => r = f.Rows)
      /\ x \in Uint32 /\ (f.CursorX \in Uint32 => x = f.CursorX)
      /\ y \in Uint32 /\ (f.CursorY \in Uint32 => y = f.CursorY)
  BY <1>1, Uint32Is
<1> HIDE DEF c, r, x, y, p
<1>4. p = [Cols |-> c, Rows |-> r, CursorX |-> x, CursorY |-> y, CursorVisible |-> f.CursorVisible,
           Lines |-> f.Lines]
  BY <1>1, <1>2
<1>5. PaneRow = WirePaneRow
  BY DEF PaneRow, WirePaneRow, StyleRun, WireStyleRun
<1>6. p \in WirePaneFrame
  BY <1>1, <1>3, <1>4, <1>5 DEF WirePaneFrame
<1>7. PaneTexts(p) = PaneTexts(f)
  BY <1>4 DEF PaneTexts
<1>8. {f.Cols, f.Rows, f.CursorX, f.CursorY} \subseteq Uint32 => p = f
  BY <1>1, <1>3, <1>4
<1> QED
  BY <1>6, <1>7, <1>8 DEF p, paneFromProto

\* A digest.
LEMMA DigestCrosses == \A d \in Digest :
    /\ digestToProto(d) \in WireDigest
    /\ DigestTexts(digestToProto(d)) = DigestTexts(d)
    /\ digestFromProto(digestToProto(d)) = d
<1> TAKE d \in Digest
<1> DEFINE p == digestToProto(d)
<1>1. /\ d.ID \in Text /\ d.SessionID \in Text /\ d.Headline \in Text /\ d.Bullets \in Seq(Text)
      /\ d.FullText \in Text /\ d.Prompt \in Text /\ d.Reply \in Text /\ d.ReplyState \in Text
      /\ d.At \in Nat /\ d.Model \in Text /\ d.CostUSD \in Nat
      /\ d = [ID |-> d.ID, SessionID |-> d.SessionID, Headline |-> d.Headline, Bullets |-> d.Bullets,
              FullText |-> d.FullText, Prompt |-> d.Prompt, Reply |-> d.Reply,
              ReplyState |-> d.ReplyState, At |-> d.At, Model |-> d.Model, CostUSD |-> d.CostUSD]
  BY DEF Digest
<1>2. stamp(d.At) \in Timestamp /\ asTime(stamp(d.At)) = d.At
  BY <1>1, StampIs
<1>3. p = [d EXCEPT !.At = stamp(d.At)]
  BY DEF digestToProto
<1> HIDE DEF p
<1>4. p = [ID |-> d.ID, SessionID |-> d.SessionID, Headline |-> d.Headline, Bullets |-> d.Bullets,
           FullText |-> d.FullText, Prompt |-> d.Prompt, Reply |-> d.Reply,
           ReplyState |-> d.ReplyState, At |-> stamp(d.At), Model |-> d.Model, CostUSD |-> d.CostUSD]
  BY <1>1, <1>3
<1>5. p \in WireDigest
  BY <1>1, <1>2, <1>4 DEF WireDigest
<1>6. DigestTexts(p) = DigestTexts(d)
  BY <1>4 DEF DigestTexts
<1>7. digestFromProto(p) = [p EXCEPT !.At = d.At]
  BY <1>2, <1>4 DEF digestFromProto
<1>8. digestFromProto(p) = d
  BY <1>1, <1>4, <1>7
<1> QED
  BY <1>5, <1>6, <1>8 DEF p

-----------------------------------------------------------------------------
(* What is clamped can still be sent *)

\* The digest of an agent.
LEMMA AgentDigestSends == \A d \in AgentDigest :
    Marshals(AgentDigestTexts(d)) => Marshals(AgentDigestTexts(ClampAgentDigest(d)))
<1> SUFFICES ASSUME NEW d \in AgentDigest, Marshals(AgentDigestTexts(d))
             PROVE  Marshals(AgentDigestTexts(ClampAgentDigest(d)))
  OBVIOUS
<1> DEFINE b == ClampBullets(d.Bullets, Limit.agentBullets)
<1>1. /\ d.Headline \in Text /\ d.Bullets \in Seq(Text) /\ Limit.headline \in Nat
      /\ Limit.bullet \in Nat /\ Limit.agentBullets \in Nat
  BY Limits DEF AgentDigest
<1>2. Runes(d.Headline) /\ \A i \in DOMAIN d.Bullets : Runes(d.Bullets[i])
  BY DEF Marshals, AgentDigestTexts
<1>3. Runes(clip(d.Headline, Limit.headline))
  BY <1>1, <1>2, ClipKeepsRunes
<1>4. \A i \in DOMAIN b : i \in DOMAIN d.Bullets /\ b[i] = clip(d.Bullets[i], Limit.bullet)
  BY <1>1, BulletsIs
<1>5. \A i \in DOMAIN d.Bullets : Runes(clip(d.Bullets[i], Limit.bullet))
  BY <1>1, <1>2, ClipKeepsRunes
<1>6. ClampAgentDigest(d).Headline = clip(d.Headline, Limit.headline) /\ ClampAgentDigest(d).Bullets = b
  BY AgentDigestIs
<1> HIDE DEF b
<1> QED
  BY <1>3, <1>4, <1>5, <1>6 DEF Marshals, AgentDigestTexts

\* An agent.
LEMMA AgentSends == \A a \in Agent : Marshals(AgentTexts(a)) => Marshals(AgentTexts(ClampAgent(a)))
<1> SUFFICES ASSUME NEW a \in Agent, Marshals(AgentTexts(a)) PROVE Marshals(AgentTexts(ClampAgent(a)))
  OBVIOUS
<1> DEFINE c == ClampAgent(a)
<1>1. /\ a.ID \in Text /\ a.Title \in Text /\ a.Ask \in Text /\ a.AskID \in Text
      /\ a.Model \in Text /\ a.Now \in Text /\ a.Digest \in Seq(AgentDigest)
  BY DEF Agent, Pointer
<1>2. /\ Runes(a.ID) /\ Runes(a.Title) /\ Runes(a.Ask) /\ Runes(a.AskID) /\ Runes(a.Model)
      /\ Runes(a.Now) /\ \A i \in DOMAIN a.Digest : Marshals(AgentDigestTexts(a.Digest[i]))
  BY DEF Marshals, AgentTexts, Texts
<1>3. /\ Runes(clip(a.ID, Limit.askID)) /\ Runes(clip(a.Title, Limit.short))
      /\ Runes(clip(a.Ask, Limit.ask)) /\ Runes(clip(a.AskID, Limit.askID))
      /\ Runes(clip(a.Model, Limit.short)) /\ Runes(clip(a.Now, Limit.short))
  BY <1>1, <1>2, Limits, ClipKeepsRunes
<1>4. \A i \in DOMAIN DigestOf(a) : Marshals(AgentDigestTexts(DigestOf(a)[i]))
  <2>1. \A i \in DOMAIN DigestOf(a) : /\ i \in DOMAIN a.Digest
                                      /\ DigestOf(a)[i] = ClampAgentDigest(a.Digest[i])
    BY DigestOfTyped
  <2>2. \A i \in DOMAIN a.Digest : a.Digest[i] \in AgentDigest
    BY <1>1
  <2> QED
    BY <1>2, <2>1, <2>2, AgentDigestSends
<1>5. /\ c.ID = clip(a.ID, Limit.askID) /\ c.Title = clip(a.Title, Limit.short)
      /\ c.Ask = clip(a.Ask, Limit.ask) /\ c.AskID = clip(a.AskID, Limit.askID)
      /\ c.Model = clip(a.Model, Limit.short) /\ c.Now = clip(a.Now, Limit.short)
      /\ c.Digest = DigestOf(a)
  BY AgentIs
<1> HIDE DEF c
<1>6. Marshals(AgentTexts(c))
  BY <1>3, <1>4, <1>5 DEF Marshals, AgentTexts, Texts
<1> QED
  BY <1>6 DEF c

\* A workspace.
LEMMA WorkspaceSends == \A w \in Workspace :
    Marshals(WorkspaceTexts(w)) => Marshals(WorkspaceTexts(ClampWorkspace(w)))
<1> SUFFICES ASSUME NEW w \in Workspace, Marshals(WorkspaceTexts(w))
             PROVE  Marshals(WorkspaceTexts(ClampWorkspace(w)))
  OBVIOUS
<1> DEFINE c == ClampWorkspace(w)
<1>1. w.Name \in Text /\ w.Branch \in Text /\ \A i \in DOMAIN w.Agents : w.Agents[i] \in Agent
  BY DEF Workspace
<1>2. /\ Runes(w.Name) /\ Runes(w.Branch)
      /\ \A i \in DOMAIN w.Agents : Marshals(AgentTexts(w.Agents[i]))
  BY DEF Marshals, WorkspaceTexts, Texts
<1>3. Runes(clip(w.Name, Limit.short)) /\ Runes(clip(w.Branch, Limit.short))
  BY <1>1, <1>2, Limits, ClipKeepsRunes
<1>4. \A i \in DOMAIN c.Agents : i \in DOMAIN w.Agents /\ c.Agents[i] = ClampAgent(w.Agents[i])
  BY AgentsTyped
<1>5. c.Name = clip(w.Name, Limit.short) /\ c.Branch = clip(w.Branch, Limit.short)
  BY WorkspaceIs
<1> HIDE DEF c
<1>6. \A i \in DOMAIN c.Agents : Marshals(AgentTexts(c.Agents[i]))
  BY <1>1, <1>2, <1>4, AgentSends
<1>7. Marshals(WorkspaceTexts(c))
  BY <1>3, <1>5, <1>6 DEF Marshals, WorkspaceTexts, Texts
<1> QED
  BY <1>7 DEF c

\* The usage.
LEMMA UsageSends == \A u \in Usage : Marshals(UsageTexts(u)) => Marshals(UsageTexts(ClampUsage(u)))
<1> SUFFICES ASSUME NEW u \in Usage, Marshals(UsageTexts(u)) PROVE Marshals(UsageTexts(ClampUsage(u)))
  OBVIOUS
<1> DEFINE c == ClampUsage(u)
<1>1. /\ u.Mode \in Text /\ u.SessionResets \in Text /\ u.WeekAllResets \in Text
      /\ u.WeekModelName \in Text /\ u.WeekModelResets \in Text
  BY DEF Usage
<1>2. /\ Runes(u.Mode) /\ Runes(u.SessionResets) /\ Runes(u.WeekAllResets)
      /\ Runes(u.WeekModelName) /\ Runes(u.WeekModelResets)
  BY DEF Marshals, UsageTexts
<1>3. /\ Runes(clip(u.Mode, Limit.mode)) /\ Runes(clip(u.SessionResets, Limit.resets))
      /\ Runes(clip(u.WeekAllResets, Limit.resets)) /\ Runes(clip(u.WeekModelName, Limit.modelName))
      /\ Runes(clip(u.WeekModelResets, Limit.resets))
  BY <1>1, <1>2, Limits, ClipKeepsRunes
<1>4. /\ c.Mode = clip(u.Mode, Limit.mode) /\ c.SessionResets = clip(u.SessionResets, Limit.resets)
      /\ c.WeekAllResets = clip(u.WeekAllResets, Limit.resets)
      /\ c.WeekModelName = clip(u.WeekModelName, Limit.modelName)
      /\ c.WeekModelResets = clip(u.WeekModelResets, Limit.resets)
  BY UsageIs
<1> HIDE DEF c
<1>5. Marshals(UsageTexts(c))
  BY <1>3, <1>4 DEF Marshals, UsageTexts
<1> QED
  BY <1>5 DEF c

\* A status.
LEMMA StatusSends == \A s \in Status : Marshals(StatusTexts(s)) => Marshals(StatusTexts(ClampStatus(s)))
<1> SUFFICES ASSUME NEW s \in Status, Marshals(StatusTexts(s))
             PROVE  Marshals(StatusTexts(ClampStatus(s)))
  OBVIOUS
<1> DEFINE c == ClampStatus(s)
<1>1. /\ s.Hostname \in Text /\ s.RookVersion \in Text /\ s.HostID \in Text
      /\ \A i \in DOMAIN s.Usage : s.Usage[i] \in Usage
      /\ \A i \in DOMAIN s.Workspaces : s.Workspaces[i] \in Workspace
  BY DEF Status, Pointer
<1>2. /\ Runes(s.Hostname) /\ Runes(s.RookVersion) /\ Runes(s.HostID)
      /\ \A i \in DOMAIN s.Usage : Marshals(UsageTexts(s.Usage[i]))
      /\ \A i \in DOMAIN s.Workspaces : Marshals(WorkspaceTexts(s.Workspaces[i]))
  BY DEF Marshals, StatusTexts, Texts
<1>3. /\ Runes(clip(s.Hostname, Limit.short)) /\ Runes(clip(s.RookVersion, Limit.short))
      /\ Runes(clip(s.HostID, Limit.askID))
  BY <1>1, <1>2, Limits, ClipKeepsRunes
<1>4. /\ c.Hostname = clip(s.Hostname, Limit.short) /\ c.RookVersion = clip(s.RookVersion, Limit.short)
      /\ c.HostID = clip(s.HostID, Limit.askID)
  BY StatusIs
<1>5. /\ \A i \in DOMAIN c.Usage : i \in DOMAIN s.Usage /\ c.Usage[i] = ClampUsage(s.Usage[i])
      /\ \A i \in DOMAIN c.Workspaces : /\ i \in DOMAIN s.Workspaces
                                        /\ c.Workspaces[i] = ClampWorkspace(s.Workspaces[i])
  BY StatusTyped
<1> HIDE DEF c
<1>6. \A i \in DOMAIN c.Usage : Marshals(UsageTexts(c.Usage[i]))
  BY <1>1, <1>2, <1>5, UsageSends
<1>7. \A i \in DOMAIN c.Workspaces : Marshals(WorkspaceTexts(c.Workspaces[i]))
  BY <1>1, <1>2, <1>5, WorkspaceSends
<1>8. Marshals(StatusTexts(c))
  BY <1>3, <1>4, <1>6, <1>7 DEF Marshals, StatusTexts, Texts
<1> QED
  BY <1>8 DEF c

\* A pane frame.
LEMMA PaneSends == \A f \in PaneFrame : Marshals(PaneTexts(f)) => Marshals(PaneTexts(ClampPane(f)))
<1> SUFFICES ASSUME NEW f \in PaneFrame, Marshals(PaneTexts(f)) PROVE Marshals(PaneTexts(ClampPane(f)))
  OBVIOUS
<1> DEFINE c == ClampPane(f)
<1>1. \A i \in DOMAIN f.Lines : f.Lines[i].Text \in Text
  <2>1. \A r \in PaneRow : r.Text \in Text
    BY DEF PaneRow
  <2>2. \A i \in DOMAIN f.Lines : f.Lines[i] \in PaneRow
    BY DEF PaneFrame
  <2> QED
    BY <2>1, <2>2
<1>2. \A i \in DOMAIN f.Lines : Runes(f.Lines[i].Text)
  BY DEF Marshals, PaneTexts
<1>3. 4 * Limit.cols \in Nat
  <2>1. Limit.cols \in Nat
    BY Limits
  <2> QED
    BY <2>1
<1>4. \A i \in DOMAIN f.Lines : Runes(clip(f.Lines[i].Text, 4 * Limit.cols))
  BY <1>1, <1>2, <1>3, ClipKeepsRunes
<1>5. \A i \in DOMAIN c.Lines : i \in DOMAIN f.Lines /\ c.Lines[i] = RowOf(f.Lines[i])
  BY PaneTyped
<1>6. \A r : RowOf(r).Text = clip(r.Text, 4 * Limit.cols)
  BY DEF RowOf
<1> HIDE DEF c
<1>7. \A i \in DOMAIN c.Lines : Runes(c.Lines[i].Text)
  BY <1>4, <1>5, <1>6
<1>8. Marshals(PaneTexts(c))
  BY <1>7 DEF Marshals, PaneTexts
<1> QED
  BY <1>8 DEF c

\* A digest.
LEMMA DigestSends == \A d \in Digest : Marshals(DigestTexts(d)) => Marshals(DigestTexts(ClampDigest(d)))
<1> SUFFICES ASSUME NEW d \in Digest, Marshals(DigestTexts(d)) PROVE Marshals(DigestTexts(ClampDigest(d)))
  OBVIOUS
<1> DEFINE c == ClampDigest(d)
           b == ClampBullets(d.Bullets, Limit.digestBullets)
<1>1. /\ d.ID \in Text /\ d.SessionID \in Text /\ d.Headline \in Text /\ d.Bullets \in Seq(Text)
      /\ d.FullText \in Text /\ d.Prompt \in Text /\ d.Reply \in Text /\ d.ReplyState \in Text
      /\ d.Model \in Text
  BY DEF Digest
<1>2. /\ Runes(d.ID) /\ Runes(d.SessionID) /\ Runes(d.Headline) /\ Runes(d.FullText)
      /\ Runes(d.Prompt) /\ Runes(d.Reply) /\ Runes(d.ReplyState) /\ Runes(d.Model)
      /\ \A i \in DOMAIN d.Bullets : Runes(d.Bullets[i])
  BY DEF Marshals, DigestTexts
<1>3. /\ Runes(clip(d.ID, Limit.askID)) /\ Runes(clip(d.SessionID, Limit.askID))
      /\ Runes(clip(d.Headline, Limit.headline)) /\ Runes(clip(d.FullText, Limit.fullText))
      /\ Runes(clip(d.Prompt, Limit.small)) /\ Runes(clip(d.Reply, Limit.small))
      /\ Runes(clip(d.ReplyState, Limit.replyState)) /\ Runes(clip(d.Model, Limit.digestModel))
  <2>1. \A t \in Text, n \in Nat : Runes(t) => Runes(clip(t, n))
    BY ClipKeepsRunes
  <2> QED
    BY <1>1, <1>2, <2>1, Limits
<1>4. \A i \in DOMAIN b : i \in DOMAIN d.Bullets /\ b[i] = clip(d.Bullets[i], Limit.bullet)
  BY <1>1, Limits, BulletsIs
<1>5. \A i \in DOMAIN d.Bullets : Runes(clip(d.Bullets[i], Limit.bullet))
  <2>1. Limit.bullet \in Nat
    BY Limits
  <2> QED
    BY <1>1, <1>2, <2>1, ClipKeepsRunes
<1>6. /\ c.ID = clip(d.ID, Limit.askID) /\ c.SessionID = clip(d.SessionID, Limit.askID)
      /\ c.Headline = clip(d.Headline, Limit.headline) /\ c.FullText = clip(d.FullText, Limit.fullText)
      /\ c.Prompt = clip(d.Prompt, Limit.small) /\ c.Reply = clip(d.Reply, Limit.small)
      /\ c.ReplyState = clip(d.ReplyState, Limit.replyState)
      /\ c.Model = clip(d.Model, Limit.digestModel) /\ c.Bullets = b
  BY DigestIs
<1> HIDE DEF c, b
<1>7. \A i \in DOMAIN b : Runes(b[i])
  BY <1>4, <1>5
<1>8. Marshals(DigestTexts(c))
  BY <1>3, <1>6, <1>7 DEF Marshals, DigestTexts
<1> QED
  BY <1>8 DEF c

-----------------------------------------------------------------------------
(* TrimSpace *)

\* What is trimmed is a part of the text.
LEMMA TrimIs ==
    ASSUME NEW s \in Text
    PROVE  /\ TrimSpace(s) \in Text /\ Len(TrimSpace(s)) <= Len(s)
<1> DEFINE ink == {i \in DOMAIN s : s[i] # Space}
           a == CHOOSE i \in ink : \A j \in ink : i <= j
           b == CHOOSE i \in ink : \A j \in ink : i >= j
<1>1. s \in Seq(Byte) /\ Len(s) \in Nat /\ DOMAIN s = 1..Len(s)
  BY DEF Text
<1>2. CASE ink = {}
  <2>1. TrimSpace(s) = <<>>
    BY <1>2 DEF TrimSpace, Empty
  <2> QED
    BY <1>1, <2>1 DEF Text
<1>3. CASE ink # {}
  <2>1. ink \in SUBSET Nat /\ ink \in SUBSET (0..Len(s)) /\ ink \subseteq 1..Len(s)
    BY <1>1
  <2>2. TrimSpace(s) = SubSeq(s, a, b)
    BY <1>3 DEF TrimSpace
  <2> HIDE DEF ink
  <2>3. \E i \in ink : \A j \in ink : i <= j
    BY <1>3, <2>1, Least
  <2>4. \E i \in ink : \A j \in ink : j <= i
    BY <1>1, <1>3, <2>1, Greatest
  <2>5. \E i \in ink : \A j \in ink : i >= j
    BY <2>1, <2>4
  <2>6. a \in ink /\ b \in ink /\ a <= b
    BY <2>3, <2>5
  <2> HIDE DEF a, b
  <2>7. a \in 1..Len(s) /\ b \in 1..Len(s)
    BY <2>1, <2>6
  <2>8. SubSeq(s, a, b) \in Seq(Byte) /\ Len(SubSeq(s, a, b)) = b - a + 1
    BY <1>1, <2>6, <2>7
  <2> QED
    BY <1>1, <2>2, <2>6, <2>7, <2>8 DEF Text
<1> QED
  BY <1>2, <1>3

\* Words of one byte, and the empty text, stay as they are.
LEMMA TrimWord ==
    /\ TrimSpace(Empty) = Empty
    /\ \A b \in Byte \ {Space} : TrimSpace(<<b>>) = <<b>>
<1>1. TrimSpace(Empty) = Empty
  BY DEF TrimSpace, Empty
<1>2. ASSUME NEW b \in Byte \ {Space} PROVE TrimSpace(<<b>>) = <<b>>
  <2> DEFINE ink == {i \in DOMAIN <<b>> : <<b>>[i] # Space}
  <2>1. ink = {1}
    OBVIOUS
  <2>2. (CHOOSE i \in ink : \A j \in ink : i <= j) = 1 /\ (CHOOSE i \in ink : \A j \in ink : i >= j) = 1
    BY <2>1
  <2>3. TrimSpace(<<b>>) = SubSeq(<<b>>, 1, 1)
    BY <2>1, <2>2 DEF TrimSpace
  <2> QED
    BY <2>3
<1> QED
  BY <1>1, <1>2

-----------------------------------------------------------------------------
(* The natural keys *)

\* Two texts joined.
LEMMA Joined == \A p, q \in Text :
    /\ p \o q \in Text /\ Len(p \o q) = Len(p) + Len(q)
    /\ \A i \in 1..Len(p) : (p \o q)[i] = p[i]
    /\ \A i \in 1..Len(q) : (p \o q)[Len(p) + i] = q[i]
<1> TAKE p, q \in Text
<1> DEFINE n == Len(p)
           m == Len(q)
           P == p \o q
<1>1. p \in Seq(Byte) /\ q \in Seq(Byte)
  BY DEF Text
<1>2. /\ P \in Seq(Byte) /\ Len(P) = n + m
      /\ \A i \in 1..n + m : P[i] = IF i <= n THEN p[i] ELSE q[i - n]
  BY <1>1, ConcatProperties
<1>3. n \in Nat /\ m \in Nat
  BY <1>1
<1> HIDE DEF P, n, m
<1>4. ASSUME NEW i \in 1..n PROVE P[i] = p[i]
  BY <1>2, <1>3
<1>5. ASSUME NEW i \in 1..m PROVE P[n + i] = q[i]
  <2> DEFINE j == n + i
  <2>1. j \in 1..n + m /\ ~(j <= n) /\ j - n = i
    BY <1>3
  <2> HIDE DEF j
  <2>2. P[j] = q[i]
    BY <1>2, <2>1
  <2> QED
    BY <2>2 DEF j
<1> QED
  BY <1>2, <1>4, <1>5 DEF P, n, m, Text

\* Texts that begin, or end, with parts of one length agree on both parts.
Agree(p, a, q, b) ==
    p \o a = q \o b /\ (Len(p) = Len(q) \/ Len(a) = Len(b)) => p = q /\ a = b

\* They always do.
LEMMA Cancels == \A p, q, a, b \in Text : Agree(p, a, q, b)
<1> TAKE p, q, a, b \in Text
<1> USE DEF Agree
<1> HAVE p \o a = q \o b /\ (Len(p) = Len(q) \/ Len(a) = Len(b))
<1> DEFINE P == p \o a
           Q == q \o b
<1>1. /\ p \in Seq(Byte) /\ q \in Seq(Byte) /\ a \in Seq(Byte) /\ b \in Seq(Byte)
      /\ Len(p) \in Nat /\ Len(q) \in Nat /\ Len(a) \in Nat /\ Len(b) \in Nat
  BY DEF Text
<1>2. /\ Len(P) = Len(p) + Len(a) /\ \A i \in 1..Len(p) : P[i] = p[i]
      /\ \A i \in 1..Len(a) : P[Len(p) + i] = a[i]
  BY Joined, Zenon
<1>3. /\ Len(Q) = Len(q) + Len(b) /\ \A i \in 1..Len(q) : Q[i] = q[i]
      /\ \A i \in 1..Len(b) : Q[Len(q) + i] = b[i]
  BY Joined, Zenon
<1>4. P = Q
  OBVIOUS
<1> HIDE DEF P, Q
<1>5. Len(p) = Len(q) /\ Len(a) = Len(b)
  BY <1>1, <1>2, <1>3, <1>4
<1>6. p = q
  <2>1. \A i \in 1..Len(p) : p[i] = q[i]
    BY <1>2, <1>3, <1>4, <1>5
  <2> QED
    BY <1>1, <1>5, <2>1, SeqEqual
<1>7. a = b
  <2>1. \A i \in 1..Len(a) : a[i] = b[i]
    BY <1>2, <1>3, <1>4, <1>5, Zenon
  <2> QED
    BY <1>1, <1>5, <2>1, SeqEqual
<1> QED
  BY <1>6, <1>7

\* A kind and what it is about, as a key begins.
Sep(k, a) == k \o <<Colon>> \o a

\* A key of two parts says both.
LEMMA ShortKey == \A k, l, a, b \in Text :
    Len(k) = 1 /\ Len(l) = 1 => Sep(k, a) \in Text /\ (Sep(k, a) = Sep(l, b) => k = l /\ a = b)
<1> TAKE k, l, a, b \in Text
<1> HAVE Len(k) = 1 /\ Len(l) = 1
<1> DEFINE K == k \o <<Colon>>
           L == l \o <<Colon>>
<1>1. <<Colon>> \in Text /\ Len(<<Colon>>) = 1
  BY DEF Colon, Byte, Text
<1>2. K \in Text /\ L \in Text /\ Len(K) = Len(L)
  <2>1. /\ K \in Text /\ Len(K) = Len(k) + Len(<<Colon>>)
        /\ L \in Text /\ Len(L) = Len(l) + Len(<<Colon>>)
    BY <1>1, Joined, Zenon
  <2>2. Len(k) = Len(l)
    OBVIOUS
  <2> QED
    BY <2>1, <2>2, Zenon
<1>3. K = L => k = l
  <2>1. Agree(k, <<Colon>>, l, <<Colon>>)
    BY <1>1, Cancels, Zenon
  <2> QED
    BY <2>1, Zenon DEF Agree
<1>4. Sep(k, a) = K \o a /\ Sep(l, b) = L \o b
  BY DEF Sep
<1> HIDE DEF K, L
<1>5. K \o a \in Text /\ (K \o a = L \o b => K = L /\ a = b)
  <2>1. Agree(K, a, L, b) /\ K \o a \in Text
    BY <1>2, Joined, Cancels, Zenon
  <2> QED
    BY <1>2, <2>1, Zenon DEF Agree
<1> QED
  BY <1>3, <1>4, <1>5

\* A key of three parts says them all, when the last has one letter.
KeySays(k, a, x, l, b, y) ==
    /\ Len(k) = 1 /\ Len(l) = 1 /\ Len(x) = 1 /\ Len(y) = 1
    /\ Sep(k, a) \o <<Colon>> \o x = Sep(l, b) \o <<Colon>> \o y
    => k = l /\ a = b /\ x = y

\* It does.
LEMMA LongKey == \A k, l, a, b, x, y \in Text : KeySays(k, a, x, l, b, y)
<1> TAKE k, l, a, b, x, y \in Text
<1> USE DEF KeySays
<1> HAVE /\ Len(k) = 1 /\ Len(l) = 1 /\ Len(x) = 1 /\ Len(y) = 1
         /\ Sep(k, a) \o <<Colon>> \o x = Sep(l, b) \o <<Colon>> \o y
<1> DEFINE AA == Sep(k, a) \o <<Colon>>
           BB == Sep(l, b) \o <<Colon>>
<1>1. <<Colon>> \in Text /\ Len(<<Colon>>) = 1
  BY DEF Colon, Byte, Text
<1>2. Sep(k, a) \in Text /\ Sep(l, b) \in Text /\ (Sep(k, a) = Sep(l, b) => k = l /\ a = b)
  BY ShortKey, Zenon
<1>3. AA \o x = BB \o y
  OBVIOUS
<1>4. AA \in Text /\ BB \in Text
  BY <1>1, <1>2, ConcatProperties DEF Text
<1>5. AA = BB => Sep(k, a) = Sep(l, b)
  <2>1. Agree(Sep(k, a), <<Colon>>, Sep(l, b), <<Colon>>)
    BY <1>1, <1>2, Cancels, Zenon
  <2> QED
    BY <2>1, Zenon DEF Agree
<1> HIDE DEF AA, BB
<1>6. AA = BB /\ x = y
  <2>1. Agree(AA, x, BB, y)
    BY <1>4, Cancels, Zenon
  <2>2. Len(x) = Len(y)
    OBVIOUS
  <2> QED
    BY <1>3, <2>1, <2>2 DEF Agree
<1> QED
  BY <1>2, <1>5, <1>6

\* The kinds of command, and the words they are to ValidCommand.
LEMMA KindsAre ==
    /\ \A k \in {Compact, Resume, Spawn, Say} : k \in Text /\ Len(k) = 1 /\ TrimSpace(k) = k
    /\ TrimSpace(Empty) = Empty
    /\ Compact # Resume /\ Compact # Spawn /\ Compact # Say /\ Resume # Spawn /\ Resume # Say
    /\ Spawn # Say /\ Empty \notin {Compact, Resume, Spawn, Say}
<1>1. 99 \in Byte \ {Space} /\ 114 \in Byte \ {Space} /\ 112 \in Byte \ {Space} /\ 115 \in Byte \ {Space}
  BY DEF Byte, Space
<1>2. /\ TrimSpace(<<99>>) = <<99>> /\ TrimSpace(<<114>>) = <<114>> /\ TrimSpace(<<112>>) = <<112>>
      /\ TrimSpace(<<115>>) = <<115>>
  BY <1>1, TrimWord, Zenon
<1>3. TrimSpace(Empty) = Empty
  BY TrimWord
<1>4. /\ <<99>> \in Seq(Byte) /\ <<114>> \in Seq(Byte) /\ <<112>> \in Seq(Byte) /\ <<115>> \in Seq(Byte)
      /\ Len(<<99>>) = 1 /\ Len(<<114>>) = 1 /\ Len(<<112>>) = 1 /\ Len(<<115>>) = 1
  BY <1>1
<1>5. /\ <<99>> # <<114>> /\ <<99>> # <<112>> /\ <<99>> # <<115>> /\ <<114>> # <<112>>
      /\ <<114>> # <<115>> /\ <<112>> # <<115>>
      /\ <<>> # <<99>> /\ <<>> # <<114>> /\ <<>> # <<112>> /\ <<>> # <<115>>
  OBVIOUS
<1> QED
  BY <1>2, <1>3, <1>4, <1>5 DEF Compact, Resume, Spawn, Say, Empty, Text

\* The parts of a request, trimmed.
LEMMA AskedIs == \A r \in Asked :
    /\ r.kind \in CommandKind \cup {"ANSWER"} /\ (r.kind = "ANSWER" => r.workspace = Empty)
    /\ r.target \in Text /\ r.workspace \in Text /\ r.text \in Prompts \cup {Empty}
    /\ TrimSpace(r.target) \in Text /\ TrimSpace(r.workspace) \in Text /\ TrimSpace(r.text) \in Typed
<1> TAKE r \in Asked
<1>1. /\ r.kind \in CommandKind \cup {"ANSWER"} /\ (r.kind = "ANSWER" => r.workspace = Empty)
      /\ r.target \in Text /\ r.workspace \in Text /\ r.text \in Prompts \cup {Empty}
  BY DEF Asked
<1> QED
  BY <1>1, TrimIs DEF Typed

\* A hash is one letter and tells the prompts, and for a say the minutes, apart.
LEMMA HashIs ==
    /\ \A p \in Typed : fnv8(p) \in Text /\ Len(fnv8(p)) = 1
    /\ \A p, q \in Typed : fnv8(p) = fnv8(q) => p = q
    /\ \A p \in Typed, m \in 0..MaxMinute : fnv8(AtMinute(p, m)) \in Text /\ Len(fnv8(AtMinute(p, m))) = 1
    /\ \A p, q \in Typed, m, n \in 0..MaxMinute :
         fnv8(AtMinute(p, m)) = fnv8(AtMinute(q, n)) => p = q /\ m = n
BY NoPromptsCollide, Zenon

\* The command a request becomes.
CommandOf(r) == [ID |-> Empty, Kind |-> kindFromProto(r.kind), SessionID |-> TrimSpace(r.target),
                 Workspace |-> TrimSpace(r.workspace), Prompt |-> TrimSpace(r.text)]

Key(of, key) == <<[of |-> of, key |-> key]>>

\* A command's key is the natural key of the command.
LEMMA CommandKey == \A r \in Asked : \A m :
    r.kind # "ANSWER" =>
      KeyOf(r, m) = IF Wellformed(CommandOf(r)) THEN Key("command", NaturalKey(CommandOf(r), m)) ELSE <<>>
<1> TAKE r \in Asked
<1> TAKE m
<1> HAVE r.kind # "ANSWER"
<1> DEFINE c == CommandOf(r)
           v == ValidCommand(kindFromProto(r.kind), r.target, r.workspace, r.text, m)
<1>1. TrimSpace(kindFromProto(r.kind)) = kindFromProto(r.kind)
  BY KindsAre DEF kindFromProto
<1>2. v = IF Wellformed(c) THEN <<[c EXCEPT !.ID = NaturalKey(c, m)]>> ELSE <<>>
  BY <1>1 DEF ValidCommand, CommandOf
<1>3. KeyOf(r, m) = IF v = <<>> THEN <<>> ELSE <<[of |-> "command", key |-> v[1].ID]>>
  BY DEF KeyOf
<1>4. [c EXCEPT !.ID = NaturalKey(c, m)].ID = NaturalKey(c, m)
  BY DEF CommandOf
<1> HIDE DEF c, v
<1>5. CASE Wellformed(c)
  <2>1. v = <<[c EXCEPT !.ID = NaturalKey(c, m)]>>
    BY <1>2, <1>5
  <2>2. v # <<>> /\ v[1].ID = NaturalKey(c, m)
    BY <1>4, <2>1
  <2> QED
    BY <1>3, <1>5, <2>2 DEF Key, c
<1>6. CASE ~Wellformed(c)
  BY <1>2, <1>3, <1>6 DEF c
<1> QED
  BY <1>5, <1>6

\* No key but a say's depends on the minute.
LEMMA OnlySayHasMinute == \A r \in Asked : \A m : KeyOf(r, When(r, m)) = KeyOf(r, m)
<1> TAKE r \in Asked
<1> TAKE m
<1>1. CASE r.kind = "COMMAND_KIND_SAY"
  BY <1>1 DEF When
<1>2. CASE r.kind = "ANSWER"
  BY <1>2 DEF KeyOf
<1>3. CASE r.kind \notin {"COMMAND_KIND_SAY", "ANSWER"}
  <2>1. CommandOf(r).Kind # Say
    BY <1>3, KindsAre DEF CommandOf, kindFromProto
  <2>2. NaturalKey(CommandOf(r), m) = NaturalKey(CommandOf(r), 0)
    BY <2>1, KindsAre DEF NaturalKey
  <2> QED
    BY <1>3, <2>2, CommandKey DEF When
<1> QED
  BY <1>1, <1>2, <1>3

\* What the key of a request looks like.
KeyShape(r, m) ==
    LET target == TrimSpace(r.target)
        workspace == TrimSpace(r.workspace)
        text == TrimSpace(r.text) IN
    \/ /\ r.kind = "ANSWER" /\ workspace = Empty
       /\ KeyOf(r, m) = Key("answer", target)
    \/ /\ r.kind \in {"COMMAND_KIND_COMPACT", "COMMAND_KIND_RESUME"}
       /\ workspace = Empty /\ text = Empty
       /\ KeyOf(r, m) = Key("command", Sep(kindFromProto(r.kind), target))
    \/ /\ r.kind = "COMMAND_KIND_SPAWN" /\ target = Empty
       /\ KeyOf(r, m) = Key("command", Sep(Spawn, workspace) \o <<Colon>> \o fnv8(text))
    \/ /\ r.kind = "COMMAND_KIND_SAY" /\ workspace = Empty
       /\ KeyOf(r, m) = Key("command", Sep(Say, target) \o <<Colon>> \o fnv8(AtMinute(text, m)))

\* That is its shape, if it has one.
LEMMA ShapeIs == \A r \in Asked : \A m : KeyOf(r, m) # <<>> => KeyShape(r, m)
<1> TAKE r \in Asked
<1> TAKE m
<1> HAVE KeyOf(r, m) # <<>>
<1> DEFINE c == CommandOf(r)
<1>1. CASE r.kind = "ANSWER"
  <2> DEFINE v == ValidAnswer(r.target, r.text)
  <2>1. v = <<>> \/ v = <<[AskID |-> TrimSpace(r.target), Text |-> TrimSpace(r.text)]>>
    BY DEF ValidAnswer
  <2>2. KeyOf(r, m) = IF v = <<>> THEN <<>> ELSE <<[of |-> "answer", key |-> v[1].AskID]>>
    BY <1>1 DEF KeyOf
  <2> HIDE DEF v
  <2>3. v[1].AskID = TrimSpace(r.target) /\ v # <<>>
    BY <2>1, <2>2
  <2>4. KeyOf(r, m) = Key("answer", TrimSpace(r.target))
    BY <2>2, <2>3 DEF Key
  <2>5. TrimSpace(r.workspace) = Empty
    BY <1>1, AskedIs, TrimWord
  <2> QED
    BY <1>1, <2>4, <2>5 DEF KeyShape
<1>2. CASE r.kind # "ANSWER"
  <2>1. Wellformed(c) /\ KeyOf(r, m) = Key("command", NaturalKey(c, m))
    BY <1>2, CommandKey
  <2>2. /\ c.Kind = kindFromProto(r.kind) /\ c.SessionID = TrimSpace(r.target)
        /\ c.Workspace = TrimSpace(r.workspace) /\ c.Prompt = TrimSpace(r.text)
    BY DEF CommandOf
  <2>3. r.kind \in CommandKind
    BY <1>2, AskedIs
  <2> HIDE DEF c
  <2>4. CASE r.kind \in {"COMMAND_KIND_COMPACT", "COMMAND_KIND_RESUME"}
    <3>1. c.Kind \in {Compact, Resume} /\ c.Kind # Spawn /\ c.Kind # Say
      BY <2>2, <2>4, KindsAre DEF kindFromProto
    <3>2. c.Workspace = Empty /\ c.Prompt = Empty
      BY <2>1, <3>1 DEF Wellformed
    <3>3. NaturalKey(c, m) = Sep(c.Kind, c.SessionID)
      BY <3>1 DEF NaturalKey, Sep
    <3> QED
      BY <2>1, <2>2, <2>4, <3>2, <3>3 DEF KeyShape
  <2>5. CASE r.kind = "COMMAND_KIND_SPAWN"
    <3>1. c.Kind = Spawn /\ c.Kind \notin {Compact, Resume} /\ c.Kind # Say
      BY <2>2, <2>5, KindsAre DEF kindFromProto
    <3>2. c.SessionID = Empty
      BY <2>1, <3>1 DEF Wellformed
    <3>3. NaturalKey(c, m) = Sep(Spawn, c.Workspace) \o <<Colon>> \o fnv8(c.Prompt)
      BY <3>1, KindsAre DEF NaturalKey, Sep
    <3> QED
      BY <2>1, <2>2, <2>5, <3>2, <3>3 DEF KeyShape
  <2>6. CASE r.kind = "COMMAND_KIND_SAY"
    <3>1. c.Kind = Say /\ c.Kind \notin {Compact, Resume} /\ c.Kind # Spawn
      BY <2>2, <2>6, KindsAre DEF kindFromProto
    <3>2. c.Workspace = Empty
      BY <2>1, <3>1 DEF Wellformed
    <3>3. NaturalKey(c, m) = Sep(Say, c.SessionID) \o <<Colon>> \o fnv8(AtMinute(c.Prompt, m))
      BY <3>1, KindsAre DEF NaturalKey, Sep
    <3> QED
      BY <2>1, <2>2, <2>6, <3>2, <3>3 DEF KeyShape
  <2>7. CASE r.kind = "COMMAND_KIND_UNSPECIFIED"
    <3>1. c.Kind \notin {Compact, Resume, Spawn, Say}
      BY <2>2, <2>7, KindsAre DEF kindFromProto
    <3> QED
      BY <2>1, <3>1 DEF Wellformed
  <2> QED
    BY <2>3, <2>4, <2>5, <2>6, <2>7 DEF CommandKind
<1> QED
  BY <1>1, <1>2

\* The kind of a request can be read off its key.
KindIn(r, m) ==
    IF r.kind = "ANSWER" THEN KeyOf(r, m)[1].of = "answer"
    ELSE /\ KeyOf(r, m)[1].of = "command"
         /\ KeyOf(r, m)[1].key[1] = kindFromProto(r.kind)[1]

\* Every key begins with its kind.
LEMMA KeyBegins == \A r \in Asked, m \in 0..MaxMinute : KeyShape(r, m) => KindIn(r, m)
<1> TAKE r \in Asked, m \in 0..MaxMinute
<1> HAVE KeyShape(r, m)
<1> DEFINE k == kindFromProto(r.kind)
           Begins(kind, a, x) == Len(kind) = 1 => /\ Sep(kind, a)[1] = kind[1]
                                                  /\ (Sep(kind, a) \o <<Colon>> \o x)[1] = kind[1]
<1>1. \A kind, a, x \in Text : Begins(kind, a, x)
  <2> TAKE kind, a, x \in Text
  <2> HAVE Len(kind) = 1
  <2> DEFINE K == kind \o <<Colon>>
             S == K \o a
             T == S \o <<Colon>>
  <2>1. <<Colon>> \in Text /\ Len(<<Colon>>) = 1
    BY DEF Colon, Byte, Text
  <2>2. \A p, q \in Text : /\ p \o q \in Text /\ Len(p \o q) = Len(p) + Len(q)
                           /\ Len(p) > 0 => (p \o q)[1] = p[1] /\ Len(p \o q) > 0
    <3> TAKE p, q \in Text
    <3>1. Len(p) \in Nat /\ Len(q) \in Nat
      BY DEF Text
    <3>2. /\ p \o q \in Text /\ Len(p \o q) = Len(p) + Len(q)
          /\ \A i \in 1..Len(p) : (p \o q)[i] = p[i]
      BY Joined, Zenon
    <3> QED
      BY <3>1, <3>2
  <2>3. K \in Text /\ K[1] = kind[1] /\ Len(K) > 0
    <3>1. Len(kind) > 0
      OBVIOUS
    <3> QED
      BY <2>1, <2>2, <3>1, Zenon
  <2> HIDE DEF K
  <2>4. S \in Text /\ S[1] = kind[1] /\ Len(S) > 0
    BY <2>2, <2>3
  <2>5. Sep(kind, a) = S
    BY DEF Sep, K
  <2> HIDE DEF S
  <2>6. T \in Text /\ T[1] = kind[1] /\ Len(T) > 0
    BY <2>1, <2>2, <2>4
  <2> HIDE DEF T
  <2>7. (T \o x)[1] = kind[1]
    BY <2>2, <2>6
  <2> QED
    BY <2>4, <2>5, <2>7 DEF T
<1>2. \A of, key : Key(of, key)[1].of = of /\ Key(of, key)[1].key = key
  BY DEF Key
<1>3. /\ TrimSpace(r.target) \in Text /\ TrimSpace(r.workspace) \in Text
      /\ fnv8(TrimSpace(r.text)) \in Text /\ fnv8(AtMinute(TrimSpace(r.text), m)) \in Text
  BY AskedIs, HashIs
<1>4. CASE r.kind = "ANSWER"
  BY <1>2, <1>4 DEF KeyShape, KindIn
<1>5. CASE r.kind # "ANSWER"
  <2>1. r.kind \in {"COMMAND_KIND_COMPACT", "COMMAND_KIND_RESUME", "COMMAND_KIND_SPAWN", "COMMAND_KIND_SAY"}
    BY <1>5 DEF KeyShape
  <2>2. /\ k \in {Compact, Resume, Spawn, Say} /\ (r.kind = "COMMAND_KIND_SPAWN" => k = Spawn)
        /\ (r.kind = "COMMAND_KIND_SAY" => k = Say)
    BY <2>1 DEF kindFromProto
  <2>3. k \in Text /\ Len(k) = 1
    BY <2>2, KindsAre
  <2> HIDE DEF k, Begins
  <2>4. \E key : KeyOf(r, m) = Key("command", key) /\ key[1] = k[1]
    <3>1. CASE r.kind \in {"COMMAND_KIND_COMPACT", "COMMAND_KIND_RESUME"}
      <4>1. KeyOf(r, m) = Key("command", Sep(k, TrimSpace(r.target)))
        BY <3>1 DEF KeyShape, k
      <4>2. Begins(k, TrimSpace(r.target), fnv8(TrimSpace(r.text)))
        BY <1>1, <1>3, <2>3, Zenon
      <4> QED
        BY <2>3, <4>1, <4>2, Zenon DEF Begins
    <3>2. CASE r.kind = "COMMAND_KIND_SPAWN"
      <4>1. KeyOf(r, m) = Key("command", Sep(k, TrimSpace(r.workspace)) \o <<Colon>> \o fnv8(TrimSpace(r.text)))
        BY <2>2, <3>2 DEF KeyShape
      <4>2. Begins(k, TrimSpace(r.workspace), fnv8(TrimSpace(r.text)))
        BY <1>1, <1>3, <2>3, Zenon
      <4> QED
        BY <2>3, <4>1, <4>2, Zenon DEF Begins
    <3>3. CASE r.kind = "COMMAND_KIND_SAY"
      <4>1. KeyOf(r, m) = Key("command", Sep(k, TrimSpace(r.target)) \o <<Colon>>
                                           \o fnv8(AtMinute(TrimSpace(r.text), m)))
        BY <2>2, <3>3 DEF KeyShape
      <4>2. Begins(k, TrimSpace(r.target), fnv8(AtMinute(TrimSpace(r.text), m)))
        BY <1>1, <1>3, <2>3, Zenon
      <4> QED
        BY <2>3, <4>1, <4>2, Zenon DEF Begins
    <3> QED
      BY <2>1, <3>1, <3>2, <3>3
  <2> QED
    BY <1>2, <1>5, <2>4 DEF KindIn, k
<1> QED
  BY <1>4, <1>5

\* The four kinds of command begin differently.
LEMMA KindsDiffer ==
    \A k, l \in {"COMMAND_KIND_COMPACT", "COMMAND_KIND_RESUME", "COMMAND_KIND_SPAWN", "COMMAND_KIND_SAY"} :
      kindFromProto(k)[1] = kindFromProto(l)[1] => k = l
BY DEF kindFromProto, Compact, Resume, Spawn, Say

\* "different requests never share a key": a key says what is asked, and of a
\* say in which minute.
LEMMA KeysTellApart ==
    ASSUME NEW r \in Asked, NEW q \in Asked, NEW m \in 0..MaxMinute, NEW n \in 0..MaxMinute,
           KeyOf(r, m) # <<>>, KeyOf(r, m) = KeyOf(q, n)
    PROVE  Same(r, q) /\ (r.kind = "COMMAND_KIND_SAY" => m = n)
<1> DEFINE rt == TrimSpace(r.target)
           rw == TrimSpace(r.workspace)
           rp == TrimSpace(r.text)
           qt == TrimSpace(q.target)
           qw == TrimSpace(q.workspace)
           qp == TrimSpace(q.text)
<1>1. KeyShape(r, m) /\ KeyShape(q, n)
  BY ShapeIs
<1>2. KindIn(r, m) /\ KindIn(q, n)
  BY <1>1, KeyBegins
<1>3. r.kind = q.kind
  <2>1. r.kind = "ANSWER" <=> q.kind = "ANSWER"
    BY <1>2 DEF KindIn
  <2>2. ASSUME r.kind # "ANSWER" PROVE r.kind = q.kind
    <3>1. kindFromProto(r.kind)[1] = kindFromProto(q.kind)[1]
      BY <1>2, <2>1, <2>2 DEF KindIn
    <3>2. /\ r.kind \in {"COMMAND_KIND_COMPACT", "COMMAND_KIND_RESUME", "COMMAND_KIND_SPAWN",
                         "COMMAND_KIND_SAY"}
          /\ q.kind \in {"COMMAND_KIND_COMPACT", "COMMAND_KIND_RESUME", "COMMAND_KIND_SPAWN",
                         "COMMAND_KIND_SAY"}
      BY <1>1, <2>1, <2>2 DEF KeyShape
    <3> QED
      BY <3>1, <3>2, KindsDiffer
  <2> QED
    BY <2>1, <2>2
<1>4. \A of, o, a, b : Key(of, a) = Key(o, b) => a = b
  BY DEF Key
<1>5. /\ rt \in Text /\ rw \in Text /\ rp \in Typed /\ qt \in Text /\ qw \in Text /\ qp \in Typed
  BY AskedIs
<1>6. /\ fnv8(rp) \in Text /\ Len(fnv8(rp)) = 1 /\ fnv8(qp) \in Text /\ Len(fnv8(qp)) = 1
      /\ (fnv8(rp) = fnv8(qp) => rp = qp)
      /\ fnv8(AtMinute(rp, m)) \in Text /\ Len(fnv8(AtMinute(rp, m))) = 1
      /\ fnv8(AtMinute(qp, n)) \in Text /\ Len(fnv8(AtMinute(qp, n))) = 1
      /\ (fnv8(AtMinute(rp, m)) = fnv8(AtMinute(qp, n)) => rp = qp /\ m = n)
  BY <1>5, HashIs
<1>7. /\ r.kind = "ANSWER" => rw = Empty /\ KeyOf(r, m) = Key("answer", rt)
      /\ r.kind \in {"COMMAND_KIND_COMPACT", "COMMAND_KIND_RESUME"} =>
           rw = Empty /\ rp = Empty /\ KeyOf(r, m) = Key("command", Sep(kindFromProto(r.kind), rt))
      /\ r.kind = "COMMAND_KIND_SPAWN" =>
           rt = Empty /\ KeyOf(r, m) = Key("command", Sep(Spawn, rw) \o <<Colon>> \o fnv8(rp))
      /\ r.kind = "COMMAND_KIND_SAY" =>
           rw = Empty /\ KeyOf(r, m) = Key("command", Sep(Say, rt) \o <<Colon>> \o fnv8(AtMinute(rp, m)))
      /\ r.kind \in {"ANSWER", "COMMAND_KIND_COMPACT", "COMMAND_KIND_RESUME", "COMMAND_KIND_SPAWN",
                     "COMMAND_KIND_SAY"}
  BY <1>1 DEF KeyShape
<1>8. /\ q.kind = "ANSWER" => qw = Empty /\ KeyOf(q, n) = Key("answer", qt)
      /\ q.kind \in {"COMMAND_KIND_COMPACT", "COMMAND_KIND_RESUME"} =>
           qw = Empty /\ qp = Empty /\ KeyOf(q, n) = Key("command", Sep(kindFromProto(q.kind), qt))
      /\ q.kind = "COMMAND_KIND_SPAWN" =>
           qt = Empty /\ KeyOf(q, n) = Key("command", Sep(Spawn, qw) \o <<Colon>> \o fnv8(qp))
      /\ q.kind = "COMMAND_KIND_SAY" =>
           qw = Empty /\ KeyOf(q, n) = Key("command", Sep(Say, qt) \o <<Colon>> \o fnv8(AtMinute(qp, n)))
  BY <1>1 DEF KeyShape
<1>9. Same(r, q) <=> rt = qt /\ rw = qw /\ (r.kind # "ANSWER" => rp = qp)
  BY <1>3 DEF Same
<1>10. Spawn \in Text /\ Len(Spawn) = 1 /\ Say \in Text /\ Len(Say) = 1
  BY KindsAre
<1> HIDE DEF rt, rw, rp, qt, qw, qp
<1>11. CASE r.kind = "ANSWER"
  BY <1>3, <1>4, <1>7, <1>8, <1>9, <1>11
<1>12. CASE r.kind \in {"COMMAND_KIND_COMPACT", "COMMAND_KIND_RESUME"}
  <2> DEFINE k == kindFromProto(r.kind)
  <2>1. k \in Text /\ Len(k) = 1
    BY <1>12, KindsAre DEF kindFromProto
  <2>2. Key("command", Sep(k, rt)) = Key("command", Sep(k, qt))
    BY <1>3, <1>7, <1>8, <1>12
  <2>3. Sep(k, rt) = Sep(k, qt)
    BY <1>4, <2>2, Zenon
  <2> HIDE DEF k
  <2>4. rt = qt
    BY <1>5, <2>1, <2>3, ShortKey
  <2> QED
    BY <1>3, <1>7, <1>8, <1>9, <1>12, <2>4
<1>13. CASE r.kind = "COMMAND_KIND_SPAWN"
  <2>1. Key("command", Sep(Spawn, rw) \o <<Colon>> \o fnv8(rp)) =
        Key("command", Sep(Spawn, qw) \o <<Colon>> \o fnv8(qp))
    BY <1>3, <1>7, <1>8, <1>13
  <2>2. Sep(Spawn, rw) \o <<Colon>> \o fnv8(rp) = Sep(Spawn, qw) \o <<Colon>> \o fnv8(qp)
    BY <1>4, <2>1, Zenon
  <2>3. rw = qw /\ fnv8(rp) = fnv8(qp)
    <3>1. KeySays(Spawn, rw, fnv8(rp), Spawn, qw, fnv8(qp))
      BY <1>5, <1>6, <1>10, LongKey, Zenon
    <3> QED
      BY <1>6, <1>10, <2>2, <3>1, Zenon DEF KeySays
  <2> QED
    BY <1>3, <1>6, <1>7, <1>8, <1>9, <1>13, <2>3
<1>14. CASE r.kind = "COMMAND_KIND_SAY"
  <2>1. Key("command", Sep(Say, rt) \o <<Colon>> \o fnv8(AtMinute(rp, m))) =
        Key("command", Sep(Say, qt) \o <<Colon>> \o fnv8(AtMinute(qp, n)))
    BY <1>3, <1>7, <1>8, <1>14
  <2>2. Sep(Say, rt) \o <<Colon>> \o fnv8(AtMinute(rp, m)) = Sep(Say, qt) \o <<Colon>> \o fnv8(AtMinute(qp, n))
    BY <1>4, <2>1, Zenon
  <2>3. rt = qt /\ fnv8(AtMinute(rp, m)) = fnv8(AtMinute(qp, n))
    <3>1. KeySays(Say, rt, fnv8(AtMinute(rp, m)), Say, qt, fnv8(AtMinute(qp, n)))
      BY <1>5, <1>6, <1>10, LongKey, Zenon
    <3> QED
      BY <1>6, <1>10, <2>2, <3>1, Zenon DEF KeySays
  <2> QED
    BY <1>3, <1>6, <1>7, <1>8, <1>9, <1>14, <2>3
<1> QED
  BY <1>7, <1>11, <1>12, <1>13, <1>14

\* "resolves as Duplicate": requests alike have one key, a say in one minute.
LEMMA KeysAgree ==
    ASSUME NEW r \in Asked, NEW q \in Asked, NEW m \in 0..MaxMinute, NEW n \in 0..MaxMinute,
           KeyOf(r, m) # <<>>, KeyOf(q, n) # <<>>, Same(r, q), r.kind = "COMMAND_KIND_SAY" => m = n
    PROVE  KeyOf(r, m) = KeyOf(q, n)
<1>1. KeyShape(r, m) /\ KeyShape(q, n)
  BY ShapeIs
<1>2. /\ r.kind = q.kind /\ TrimSpace(r.target) = TrimSpace(q.target)
      /\ TrimSpace(r.workspace) = TrimSpace(q.workspace)
      /\ r.kind # "ANSWER" => TrimSpace(r.text) = TrimSpace(q.text)
  BY DEF Same
<1> QED
  BY <1>1, <1>2 DEF KeyShape

-----------------------------------------------------------------------------
(* What the surface shows *)

\* A workspace and an agent the surface shows are clamped ones of the machine.
LEMMA ShownIs ==
    ASSUME ViewInv, NEW i \in DOMAIN Shown
    PROVE  LET own == view.own.Workspaces[i] IN
           /\ view.own \in Status /\ i \in DOMAIN view.own.Workspaces /\ own \in Workspace
           /\ Shown[i].Name = clip(own.Name, Limit.short)
           /\ \A j \in DOMAIN Shown[i].Agents :
                /\ j \in DOMAIN own.Agents /\ own.Agents[j] \in Agent
                /\ Shown[i].Agents[j].ID = clip(own.Agents[j].ID, Limit.askID)
                /\ Shown[i].Agents[j].AskID = clip(own.Agents[j].AskID, Limit.askID)
<1> DEFINE o == view.own
           c == ClampStatus(o)
           s == statusFromProto(view.wire).Workspaces
           w == c.Workspaces[i]
<1>1. view.what = "status" /\ Shown = s
  BY DEF Shown
<1>2. /\ view.own \in Status
      /\ \E at \in 0..MaxMinute : view.wire = statusToProto(ClampStatus(view.own), at)
  BY <1>1 DEF ViewInv
<1>3. PICK at \in 0..MaxMinute : view.wire = statusToProto(c, at)
  BY <1>2
<1>4. /\ c \in Status
      /\ \A x \in DOMAIN c.Workspaces : /\ x \in DOMAIN o.Workspaces
                                        /\ c.Workspaces[x] = ClampWorkspace(o.Workspaces[x])
  BY <1>2, StatusTyped
<1> HIDE DEF c
<1>5. at \in Nat
  BY RailsConstants
<1>6. /\ DOMAIN s = DOMAIN c.Workspaces
      /\ \A x \in DOMAIN c.Workspaces :
           s[x] = WorkspaceFromProto(WorkspaceToProto(c.Workspaces[x]))
  BY <1>3, <1>4, <1>5, StatusCrosses
<1>7. i \in DOMAIN c.Workspaces /\ i \in DOMAIN o.Workspaces /\ w = ClampWorkspace(o.Workspaces[i])
  BY <1>1, <1>4, <1>6
<1>8. o.Workspaces[i] \in Workspace
  BY <1>2, <1>7 DEF Status
<1>9. w \in Workspace /\ Shown[i] = WorkspaceFromProto(WorkspaceToProto(w))
  BY <1>1, <1>6, <1>7, <1>8, WorkspaceTyped
<1>10. w.Name = clip(o.Workspaces[i].Name, Limit.short)
  BY <1>7, <1>8, WorkspaceIs
<1>11. \A j \in DOMAIN w.Agents : /\ j \in DOMAIN o.Workspaces[i].Agents
                                  /\ w.Agents[j] = ClampAgent(o.Workspaces[i].Agents[j])
  BY <1>7, <1>8, AgentsTyped
<1> HIDE DEF w
<1>12. /\ Shown[i].Name = w.Name /\ DOMAIN Shown[i].Agents = DOMAIN w.Agents
       /\ \A j \in DOMAIN w.Agents : Shown[i].Agents[j] = AgentFromProto(AgentToProto(w.Agents[j]))
  BY <1>9, WorkspaceCrosses
<1>13. ASSUME NEW j \in DOMAIN Shown[i].Agents
       PROVE  /\ j \in DOMAIN o.Workspaces[i].Agents /\ o.Workspaces[i].Agents[j] \in Agent
              /\ Shown[i].Agents[j].ID = clip(o.Workspaces[i].Agents[j].ID, Limit.askID)
              /\ Shown[i].Agents[j].AskID = clip(o.Workspaces[i].Agents[j].AskID, Limit.askID)
  <2> DEFINE a == o.Workspaces[i].Agents[j]
  <2>1. j \in DOMAIN w.Agents /\ j \in DOMAIN o.Workspaces[i].Agents /\ w.Agents[j] = ClampAgent(a)
    BY <1>11, <1>12
  <2>2. a \in Agent
    BY <1>8, <2>1 DEF Workspace
  <2>3. Shown[i].Agents[j] = AgentFromProto(AgentToProto(ClampAgent(a)))
    BY <1>12, <2>1
  <2> HIDE DEF a
  <2>4. ClampAgent(a) \in Agent
    BY <2>2, AgentTyped
  <2>5. Shown[i].Agents[j].ID = ClampAgent(a).ID /\ Shown[i].Agents[j].AskID = ClampAgent(a).AskID
    BY <2>3, <2>4, AgentCrosses
  <2>6. ClampAgent(a).ID = clip(a.ID, Limit.askID) /\ ClampAgent(a).AskID = clip(a.AskID, Limit.askID)
    BY <2>2, AgentIs
  <2> QED
    BY <2>1, <2>2, <2>5, <2>6 DEF a
<1> QED
  BY <1>2, <1>7, <1>8, <1>10, <1>12, <1>13

\* So what can be asked has the type of a request.
LEMMA RequestsTyped == ViewInv => Requests \subseteq Asked
<1> SUFFICES ASSUME ViewInv PROVE Requests \subseteq Asked
  OBVIOUS
<1>1. \A i \in DOMAIN Shown : Shown[i].Name \in Text
  <2> TAKE i \in DOMAIN Shown
  <2>1. /\ view.own.Workspaces[i] \in Workspace
        /\ Shown[i].Name = clip(view.own.Workspaces[i].Name, Limit.short)
    BY ShownIs
  <2>2. view.own.Workspaces[i].Name \in Text /\ Limit.short \in Nat
    BY <2>1, Limits DEF Workspace
  <2> QED
    BY <2>1, <2>2, ClipFits
<1>2. \A a \in Agents : a.ID \in Text /\ a.AskID \in Text
  <2> TAKE a \in Agents
  <2>1. PICK i \in DOMAIN Shown : \E j \in DOMAIN Shown[i].Agents : a = Shown[i].Agents[j]
    BY DEF Agents
  <2>2. PICK j \in DOMAIN Shown[i].Agents : a = Shown[i].Agents[j]
    BY <2>1
  <2> DEFINE b == view.own.Workspaces[i].Agents[j]
  <2>3. b \in Agent /\ a.ID = clip(b.ID, Limit.askID) /\ a.AskID = clip(b.AskID, Limit.askID)
    BY <2>2, ShownIs
  <2> HIDE DEF b
  <2>4. b.ID \in Text /\ b.AskID \in Text /\ Limit.askID \in Nat
    BY <2>3, Limits DEF Agent
  <2> QED
    BY <2>3, <2>4, ClipFits
<1>3. Empty \in Text
  BY DEF Empty, Text
<1>4. \A k \in CommandKind \cup {"ANSWER"}, t, w \in Text, p \in Prompts \cup {Empty} :
        (k = "ANSWER" => w = Empty) => Request(k, t, w, p) \in Asked
  BY DEF Request, Asked
<1>5. {"COMMAND_KIND_COMPACT", "COMMAND_KIND_RESUME", "COMMAND_KIND_UNSPECIFIED", "COMMAND_KIND_SAY",
       "COMMAND_KIND_SPAWN", "ANSWER"} \subseteq CommandKind \cup {"ANSWER"}
  BY DEF CommandKind
<1> SUFFICES ASSUME NEW r \in Requests PROVE r \in Asked
  OBVIOUS
<1>6. \/ \E k \in {"COMMAND_KIND_COMPACT", "COMMAND_KIND_RESUME", "COMMAND_KIND_UNSPECIFIED"}, a \in Agents :
           r = Request(k, a.ID, Empty, Empty)
      \/ \E a \in Agents, p \in Prompts : r = Request("COMMAND_KIND_SAY", a.ID, Empty, p)
      \/ \E i \in DOMAIN Shown, p \in Prompts \cup {Empty} :
           r = Request("COMMAND_KIND_SPAWN", Empty, Shown[i].Name, p)
      \/ \E a \in Agents, p \in Prompts : r = Request("ANSWER", a.AskID, Empty, p)
  BY DEF Requests
<1> QED
  BY <1>1, <1>2, <1>3, <1>4, <1>5, <1>6

-----------------------------------------------------------------------------
(* The inductive invariant *)

\* A message that is received.
LEMMA ReceiveView ==
    ASSUME NEW what, NEW own, NEW wire, NEW ok, Receive(what, own, wire, ok)
    PROVE  /\ view'.what = what /\ view'.own = own /\ view'.wire = wire /\ view'.sent = ok
           /\ UNCHANGED <<taps, minute, outbox, journal, arrived, done, told>>
BY DEF Receive

\* Every message is what the converters make of the clamped original.
LEMMA ViewStep == ViewInv /\ CountInv /\ [Next]_vars => ViewInv'
<1> SUFFICES ASSUME ViewInv, CountInv, [Next]_vars PROVE ViewInv'
  OBVIOUS
<1>1. ASSUME NEW s \in Snapshots, WatchStatus(s) PROVE ViewInv'
  <2> DEFINE own == [s EXCEPT !.HostID = HostID]
             wire == statusToProto(ClampStatus(own), minute)
             ok == Marshals(StatusTexts(wire))
  <2>1. own \in Status
    BY RailsConstants DEF Status
  <2>2. Receive("status", own, wire, ok)
    BY <1>1 DEF WatchStatus
  <2>3. minute \in 0..MaxMinute
    BY DEF CountInv
  <2>4. ok \in BOOLEAN
    BY DEF Marshals
  <2>5. wire = statusToProto(ClampStatus(own), minute) /\ ok = Marshals(StatusTexts(wire))
    OBVIOUS
  <2> HIDE DEF own, wire, ok
  <2>6. view'.what = "status" /\ view'.own = own /\ view'.wire = wire /\ view'.sent = ok
    BY <2>2, ReceiveView
  <2> QED
    BY <2>1, <2>3, <2>4, <2>5, <2>6 DEF ViewInv
<1>2. ASSUME NEW f \in Frames, WatchPane(f) PROVE ViewInv'
  <2> DEFINE wire == paneToProto(ClampPane(f))
             ok == Marshals(PaneTexts(wire))
  <2>1. f \in PaneFrame
    BY RailsConstants
  <2>2. Receive("pane", f, wire, ok)
    BY <1>2 DEF WatchPane
  <2>3. wire = paneToProto(ClampPane(f)) /\ ok = Marshals(PaneTexts(wire))
    OBVIOUS
  <2> HIDE DEF wire, ok
  <2>4. view'.what = "pane" /\ view'.own = f /\ view'.wire = wire /\ view'.sent = ok
    BY <2>2, ReceiveView
  <2> QED
    BY <2>1, <2>3, <2>4 DEF ViewInv
<1>3. ASSUME NEW a \in Agents, NEW d \in Digests, GetDigest(a.ID, d) PROVE ViewInv'
  <2> DEFINE wire == digestToProto(ClampDigest(d))
             ok == Marshals(DigestTexts(wire))
  <2>1. d \in Digest
    BY RailsConstants
  <2>2. Receive("digest", d, wire, ok)
    BY <1>3 DEF GetDigest
  <2>3. wire = digestToProto(ClampDigest(d)) /\ ok = Marshals(DigestTexts(wire))
    OBVIOUS
  <2> HIDE DEF wire, ok
  <2>4. view'.what = "digest" /\ view'.own = d /\ view'.wire = wire /\ view'.sent = ok
    BY <2>2, ReceiveView
  <2> QED
    BY <2>1, <2>3, <2>4 DEF ViewInv
<1>4. ASSUME NEW r \in Requests, Tap(r) PROVE ViewInv'
  BY <1>4 DEF Tap, ViewInv
<1>5. CASE UNCHANGED view
  BY <1>5 DEF ViewInv
<1>6. ASSUME \/ Tick \/ \E r \in taps : \/ SubmitRefused(r)
                                        \/ \E m \in 0..MaxMinute : CloudAccept(r, m)
                                        \/ \E o \in Outcomes : Submit(r, o)
             \/ \E x \in outbox, o \in Outcomes, acked \in BOOLEAN : CloudDeliver(x, o, acked)
             \/ UNCHANGED vars
      PROVE  UNCHANGED view
  BY <1>6 DEF Tick, SubmitRefused, CloudAccept, Submit, CloudDeliver, vars
<1> QED
  BY <1>1, <1>2, <1>3, <1>4, <1>5, <1>6 DEF Next

\* What waits keeps its key.
LEMMA PendingStep == ViewInv /\ PendingInv /\ CountInv /\ [Next]_vars => PendingInv'
<1> SUFFICES ASSUME ViewInv, PendingInv, CountInv, [Next]_vars PROVE PendingInv'
  OBVIOUS
<1>1. CASE UNCHANGED <<taps, outbox>>
  BY <1>1 DEF PendingInv, Keyed
<1>2. ASSUME NEW r \in Requests, Tap(r) PROVE PendingInv'
  <2>1. r \in Asked /\ taps' = taps \cup {r} /\ outbox' = outbox
    BY <1>2, RequestsTyped DEF Tap
  <2> QED
    BY <2>1 DEF PendingInv, Keyed
<1>3. ASSUME NEW r \in taps, NEW m \in 0..MaxMinute, CloudAccept(r, m) PROVE PendingInv'
  <2> DEFINE key == KeyOf(r, m)
             x == [request |-> r, key |-> key[1], at |-> When(r, m)]
  <2>1. taps' = taps /\ outbox' = outbox \cup {x} /\ key # <<>>
    BY <1>3 DEF CloudAccept
  <2>2. r \in Asked /\ 0 \in 0..MaxMinute
    BY RailsConstants DEF PendingInv
  <2>3. When(r, m) \in 0..MaxMinute /\ KeyOf(r, When(r, m)) = key
    BY <2>2, OnlySayHasMinute DEF When
  <2>4. key = <<key[1]>>
    <3>1. KeyShape(r, m)
      BY <2>1, <2>2, ShapeIs
    <3>2. \E of, k : key = Key(of, k)
      <4> HIDE DEF key
      <4> QED
        BY <3>1 DEF KeyShape, key
    <3> QED
      BY <3>2 DEF Key
  <2> HIDE DEF key
  <2>5. Keyed(x) /\ KeyOf(x.request, x.at) = <<x.key>>
    BY <2>2, <2>3, <2>4 DEF Keyed
  <2> HIDE DEF x
  <2> QED
    BY <2>1, <2>5 DEF PendingInv, Keyed
<1>4. ASSUME NEW x \in outbox, NEW o \in Outcomes, NEW acked \in BOOLEAN, CloudDeliver(x, o, acked)
      PROVE  PendingInv'
  <2>1. taps' = taps /\ outbox' \subseteq outbox
    BY <1>4 DEF CloudDeliver
  <2> QED
    BY <2>1 DEF PendingInv, Keyed
<1>5. ASSUME \/ \E s \in Snapshots : WatchStatus(s)
             \/ \E f \in Frames : WatchPane(f)
             \/ \E a \in Agents, d \in Digests : GetDigest(a.ID, d)
             \/ Tick
             \/ \E r \in taps : SubmitRefused(r) \/ \E o \in Outcomes : Submit(r, o)
             \/ UNCHANGED vars
      PROVE  UNCHANGED <<taps, outbox>>
  BY <1>5 DEF WatchStatus, WatchPane, GetDigest, Receive, Tick, SubmitRefused, Submit, vars
<1> QED
  BY <1>1, <1>2, <1>3, <1>4, <1>5 DEF Next

\* The Executor takes a request with its key: a new one takes effect, one
\* that is known does not.
LEMMA ExecuteStep ==
    ASSUME EffectInv, CountInv, NEW r \in Asked, NEW m \in 0..MaxMinute, NEW key, NEW o,
           KeyOf(r, m) = <<key>>, Execute(r, key, m, o), arrived' = arrived + 1
    PROVE  EffectInv' /\ \A e \in told' : e.answer \in Disposition \cup {"INVALID"}
<1> DEFINE at == When(r, m)
           d == [request |-> r, at |-> at, nth |-> arrived]
           t == [request |-> r, at |-> at, answer |-> dispositionToProto(o)]
<1>1. at \in 0..MaxMinute /\ KeyOf(r, at) = <<key>>
  <2>1. 0 \in 0..MaxMinute
    BY RailsConstants
  <2> QED
    BY <2>1, OnlySayHasMinute DEF When
<1>2. arrived \in Nat
  BY RailsConstants DEF CountInv
<1>3. told' = told \cup {t}
  BY DEF Execute
<1>4. Keyed(t) /\ t.request = r /\ t.at = at
  BY <1>1 DEF Keyed
<1>5. t.answer \in Disposition
  BY DEF dispositionToProto, Disposition
<1>6. o # "Duplicate" => t.answer # "DISPOSITION_DUPLICATE"
  BY DEF dispositionToProto
<1>7. Keyed(d) /\ d.request = r /\ d.at = at /\ d.nth = arrived
  BY <1>1 DEF Keyed
<1>8. CASE o = "Delivered"
  <2>1. key \notin journal /\ journal' = journal \cup {key} /\ done' = done \cup {d}
    BY <1>8 DEF Execute
  <2>2. t.answer # "DISPOSITION_DUPLICATE"
    BY <1>6, <1>8
  <2> HIDE DEF d, t, at
  <2>3. \A e \in done : KeyOf(e.request, e.at) # <<key>>
    BY <2>1 DEF EffectInv
  <2>4. \A e \in done' : /\ Keyed(e) /\ e.nth \in 0..arrived'-1
                         /\ \E k \in journal' : KeyOf(e.request, e.at) = <<k>>
    <3>1. ASSUME NEW e \in done
          PROVE  /\ Keyed(e) /\ e.nth \in 0..arrived'-1
                 /\ \E k \in journal' : KeyOf(e.request, e.at) = <<k>>
      <4>1. /\ Keyed(e) /\ e.nth \in 0..arrived-1
            /\ \E k \in journal : KeyOf(e.request, e.at) = <<k>>
        BY DEF EffectInv
      <4>2. e.nth \in 0..arrived'-1
        BY <1>2, <4>1
      <4> QED
        BY <2>1, <4>1, <4>2
    <3>2. /\ Keyed(d) /\ d.nth \in 0..arrived'-1
          /\ \E k \in journal' : KeyOf(d.request, d.at) = <<k>>
      <4>1. arrived \in 0..arrived'-1
        BY <1>2
      <4> QED
        BY <1>1, <1>7, <2>1, <4>1
    <3> QED
      BY <2>1, <3>1, <3>2
  <2>5. \A k \in journal' : \E e \in done' : KeyOf(e.request, e.at) = <<k>>
    BY <1>1, <1>7, <2>1 DEF EffectInv
  <2>6. \A e, f \in done' : KeyOf(e.request, e.at) = KeyOf(f.request, f.at) => e.nth = f.nth
    BY <1>1, <1>7, <2>1, <2>3 DEF EffectInv
  <2>7. \A e \in told' : e.answer = "DISPOSITION_DUPLICATE" =>
          Keyed(e) /\ \E k \in journal' : KeyOf(e.request, e.at) = <<k>>
    BY <1>3, <2>1, <2>2 DEF EffectInv
  <2> QED
    BY <1>3, <1>5, <2>4, <2>5, <2>6, <2>7 DEF EffectInv, CountInv, Keyed
<1>9. CASE o # "Delivered"
  <2>1. journal' = journal /\ done' = done
    BY <1>9 DEF Execute
  <2>2. t.answer = "DISPOSITION_DUPLICATE" => key \in journal
    BY <1>6, <1>9 DEF Execute
  <2> HIDE DEF d, t, at
  <2>3. \A e \in told' : e.answer = "DISPOSITION_DUPLICATE" =>
          Keyed(e) /\ \E k \in journal' : KeyOf(e.request, e.at) = <<k>>
    BY <1>1, <1>3, <1>4, <2>1, <2>2 DEF EffectInv
  <2>4. \A e \in done' : /\ Keyed(e) /\ e.nth \in 0..arrived'-1
                         /\ \E k \in journal' : KeyOf(e.request, e.at) = <<k>>
    <3> SUFFICES ASSUME NEW e \in done
                 PROVE  /\ Keyed(e) /\ e.nth \in 0..arrived'-1
                        /\ \E k \in journal' : KeyOf(e.request, e.at) = <<k>>
      BY <2>1
    <3>1. /\ Keyed(e) /\ e.nth \in 0..arrived-1
          /\ \E k \in journal : KeyOf(e.request, e.at) = <<k>>
      BY DEF EffectInv
    <3>2. e.nth \in 0..arrived'-1
      BY <1>2, <3>1
    <3> QED
      BY <2>1, <3>1, <3>2
  <2> QED
    BY <1>3, <1>5, <2>1, <2>3, <2>4 DEF EffectInv, CountInv, Keyed
<1> QED
  BY <1>8, <1>9

\* What took effect is what the journal says.
LEMMA EffectStep == PendingInv /\ EffectInv /\ CountInv /\ [Next]_vars =>
    EffectInv' /\ \A e \in told' : e.answer \in Disposition \cup {"INVALID"}
<1> SUFFICES ASSUME PendingInv, EffectInv, CountInv, [Next]_vars
             PROVE  EffectInv' /\ \A e \in told' : e.answer \in Disposition \cup {"INVALID"}
  OBVIOUS
<1>1. CASE UNCHANGED <<journal, arrived, done, told>>
  BY <1>1 DEF EffectInv, CountInv, Keyed
<1>2. ASSUME NEW r \in taps, NEW o \in Outcomes, Submit(r, o)
      PROVE  EffectInv' /\ \A e \in told' : e.answer \in Disposition \cup {"INVALID"}
  <2> DEFINE key == KeyOf(r, minute)
  <2>1. r \in Asked /\ minute \in 0..MaxMinute
    BY DEF PendingInv, CountInv
  <2>2. key # <<>> /\ Execute(r, key[1], minute, o) /\ arrived' = arrived + 1
    BY <1>2 DEF Submit
  <2>3. \E of, k : key = Key(of, k)
    <3>1. KeyShape(r, minute)
      BY <2>1, <2>2, ShapeIs
    <3> HIDE DEF key
    <3> QED
      BY <3>1 DEF KeyShape, key
  <2>4. KeyOf(r, minute) = <<key[1]>>
    BY <2>3 DEF Key
  <2> HIDE DEF key
  <2> QED
    BY <2>1, <2>2, <2>4, ExecuteStep
<1>3. ASSUME NEW x \in outbox, NEW o \in Outcomes, NEW acked \in BOOLEAN, CloudDeliver(x, o, acked)
      PROVE  EffectInv' /\ \A e \in told' : e.answer \in Disposition \cup {"INVALID"}
  <2>1. x.request \in Asked /\ x.at \in 0..MaxMinute /\ KeyOf(x.request, x.at) = <<x.key>>
    BY DEF PendingInv, Keyed
  <2>2. Execute(x.request, x.key, x.at, o) /\ arrived' = arrived + 1
    BY <1>3 DEF CloudDeliver
  <2> QED
    BY <2>1, <2>2, ExecuteStep
<1>4. ASSUME NEW r \in taps, SubmitRefused(r)
      PROVE  EffectInv' /\ \A e \in told' : e.answer \in Disposition \cup {"INVALID"}
  <2>1. arrived \in Nat
    BY RailsConstants DEF CountInv
  <2> DEFINE t == [request |-> r, at |-> When(r, minute), answer |-> "INVALID"]
  <2>2. t.answer = "INVALID" /\ told' = told \cup {t} /\ journal' = journal /\ done' = done /\ arrived' = arrived + 1
    BY <1>4 DEF SubmitRefused
  <2> HIDE DEF t
  <2>3. \A e \in done : e.nth \in 0..arrived'-1
    BY <2>1, <2>2 DEF EffectInv
  <2> QED
    BY <2>2, <2>3 DEF EffectInv, CountInv, Keyed
<1>5. ASSUME \/ \E s \in Snapshots : WatchStatus(s)
             \/ \E f \in Frames : WatchPane(f)
             \/ \E a \in Agents, d \in Digests : GetDigest(a.ID, d)
             \/ \E r \in Requests : Tap(r)
             \/ Tick
             \/ \E r \in taps, m \in 0..MaxMinute : CloudAccept(r, m)
             \/ UNCHANGED vars
      PROVE  UNCHANGED <<journal, arrived, done, told>>
  BY <1>5 DEF WatchStatus, WatchPane, GetDigest, Receive, Tap, Tick, CloudAccept, vars
<1> QED
  BY <1>1, <1>2, <1>3, <1>4, <1>5 DEF Next

\* The bounds hold.
LEMMA CountStep == CountInv /\ [Next]_vars /\ (\A e \in told' : e.answer \in Disposition \cup {"INVALID"})
                   => CountInv'
<1> SUFFICES ASSUME CountInv, [Next]_vars, \A e \in told' : e.answer \in Disposition \cup {"INVALID"}
             PROVE  CountInv'
  OBVIOUS
<1> DEFINE Numbers == minute' \in 0..MaxMinute /\ arrived' \in 0..MaxDeliveries
           Few == IsFiniteSet(taps') /\ Cardinality(taps') <= MaxTaps
           Small == IsFiniteSet(outbox') /\ Cardinality(outbox') <= MaxPending
<1>1. Numbers
  <2>1. \/ UNCHANGED <<minute, arrived>>
        \/ minute < MaxMinute /\ minute' = minute + 1 /\ arrived' = arrived
        \/ arrived < MaxDeliveries /\ arrived' = arrived + 1 /\ minute' = minute
    BY DEF Next, WatchStatus, WatchPane, GetDigest, Receive, Tap, Tick, Submit, SubmitRefused,
           CloudAccept, CloudDeliver, vars
  <2>2. minute \in 0..MaxMinute /\ arrived \in 0..MaxDeliveries /\ MaxMinute \in Nat /\ MaxDeliveries \in Nat
    BY RailsConstants DEF CountInv
  <2> QED
    BY <2>1, <2>2
<1>2. Few
  <2>1. \/ taps' = taps
        \/ Cardinality(taps) < MaxTaps /\ \E r : taps' = taps \cup {r}
    BY DEF Next, WatchStatus, WatchPane, GetDigest, Receive, Tap, Tick, Submit, SubmitRefused,
           CloudAccept, CloudDeliver, vars
  <2>2. IsFiniteSet(taps) /\ Cardinality(taps) <= MaxTaps /\ MaxTaps \in Nat /\ Cardinality(taps) \in Nat
    BY RailsConstants, FS_CardinalityType DEF CountInv
  <2>3. ASSUME NEW r, taps' = taps \cup {r}, Cardinality(taps) < MaxTaps PROVE Few
    <3>1. /\ IsFiniteSet(taps \cup {r})
          /\ Cardinality(taps \cup {r}) = Cardinality(taps) \/ Cardinality(taps \cup {r}) = Cardinality(taps) + 1
      BY <2>2, FS_AddElement
    <3> QED
      BY <2>2, <2>3, <3>1
  <2> QED
    BY <2>1, <2>2, <2>3
<1>3. Small
  <2>1. \/ outbox' = outbox
        \/ Cardinality(outbox) < MaxPending /\ \E x : outbox' = outbox \cup {x}
        \/ \E x \in outbox : outbox' = outbox \ {x}
    BY DEF Next, WatchStatus, WatchPane, GetDigest, Receive, Tap, Tick, Submit, SubmitRefused,
           CloudAccept, CloudDeliver, vars
  <2>2. IsFiniteSet(outbox) /\ Cardinality(outbox) <= MaxPending /\ MaxPending \in Nat
        /\ Cardinality(outbox) \in Nat
    BY RailsConstants, FS_CardinalityType DEF CountInv
  <2>3. ASSUME NEW x, outbox' = outbox \cup {x}, Cardinality(outbox) < MaxPending PROVE Small
    <3>1. /\ IsFiniteSet(outbox \cup {x})
          /\ \/ Cardinality(outbox \cup {x}) = Cardinality(outbox)
             \/ Cardinality(outbox \cup {x}) = Cardinality(outbox) + 1
      BY <2>2, FS_AddElement
    <3> QED
      BY <2>2, <2>3, <3>1
  <2>4. ASSUME NEW x \in outbox, outbox' = outbox \ {x} PROVE Small
    <3>1. /\ IsFiniteSet(outbox \ {x}) /\ Cardinality(outbox \ {x}) = Cardinality(outbox) - 1
      BY <2>2, FS_RemoveElement
    <3> QED
      BY <2>2, <2>4, <3>1
  <2> QED
    BY <2>1, <2>2, <2>3, <2>4
<1> QED
  BY <1>1, <1>2, <1>3 DEF CountInv

\* The invariant holds: every message is made by the clamps and converters of
\* what the machine has, and what took effect is what the journal has keys of.
THEOREM IInvHolds == Spec => []IInv
<1>1. Init => IInv
  <2> SUFFICES ASSUME Init PROVE IInv
    OBVIOUS
  <2>1. IsFiniteSet({}) /\ Cardinality({}) = 0
    BY FS_EmptySet
  <2>2. CountInv
    BY <2>1, RailsConstants DEF Init, CountInv
  <2>3. ViewInv /\ PendingInv /\ EffectInv
    BY DEF Init, ViewInv, PendingInv, EffectInv
  <2> QED
    BY <2>2, <2>3 DEF IInv
<1>2. IInv /\ [Next]_vars => IInv'
  BY ViewStep, PendingStep, EffectStep, CountStep DEF IInv
<1> QED
  BY <1>1, <1>2, PTL DEF Spec

-----------------------------------------------------------------------------
(* The properties *)

\* However long its texts and wherever they are cut, what the machine can say
\* in UTF-8 is always sent.
THEOREM AlwaysSent == Spec => []AlwaysSendable
<1>1. IInv => AlwaysSendable
  <2> SUFFICES ASSUME IInv PROVE AlwaysSendable
    OBVIOUS
  <2>1. ASSUME view.what = "status", Marshals(StatusTexts(view.own)) PROVE view.sent
    <3>1. view.own \in Status /\ (view.sent <=> Marshals(StatusTexts(view.wire)))
      BY <2>1 DEF IInv, ViewInv
    <3>2. PICK at \in 0..MaxMinute : view.wire = statusToProto(ClampStatus(view.own), at)
      BY <2>1 DEF IInv, ViewInv
    <3>3. ClampStatus(view.own) \in Status /\ at \in Nat
      BY <3>1, StatusTyped, RailsConstants
    <3>4. StatusTexts(view.wire) = StatusTexts(ClampStatus(view.own))
      BY <3>2, <3>3, StatusCrosses
    <3>5. Marshals(StatusTexts(ClampStatus(view.own)))
      BY <2>1, <3>1, StatusSends
    <3> QED
      BY <3>1, <3>4, <3>5
  <2>2. ASSUME view.what = "pane", Marshals(PaneTexts(view.own)) PROVE view.sent
    <3>1. /\ view.own \in PaneFrame /\ view.wire = paneToProto(ClampPane(view.own))
          /\ view.sent <=> Marshals(PaneTexts(view.wire))
      BY <2>2 DEF IInv, ViewInv
    <3>2. ClampPane(view.own) \in PaneFrame
      BY <3>1, PaneTyped
    <3>3. PaneTexts(view.wire) = PaneTexts(ClampPane(view.own))
      BY <3>1, <3>2, PaneCrosses
    <3>4. Marshals(PaneTexts(ClampPane(view.own)))
      BY <2>2, <3>1, PaneSends
    <3> QED
      BY <3>1, <3>3, <3>4
  <2>3. ASSUME view.what = "digest", Marshals(DigestTexts(view.own)) PROVE view.sent
    <3>1. /\ view.own \in Digest /\ view.wire = digestToProto(ClampDigest(view.own))
          /\ view.sent <=> Marshals(DigestTexts(view.wire))
      BY <2>3 DEF IInv, ViewInv
    <3>2. ClampDigest(view.own) \in Digest
      BY <3>1, DigestTyped
    <3>3. DigestTexts(view.wire) = DigestTexts(ClampDigest(view.own))
      BY <3>1, <3>2, DigestCrosses
    <3>4. Marshals(DigestTexts(ClampDigest(view.own)))
      BY <2>3, <3>1, DigestSends
    <3> QED
      BY <3>1, <3>3, <3>4
  <2> QED
    BY <2>1, <2>2, <2>3 DEF AlwaysSendable
<1> QED
  BY <1>1, IInvHolds, PTL

\* "a request that raced in twice (or over two rails) resolves as Duplicate",
\* a say when both were keyed in one minute: for any clocks of the two rails
\* and any prompts without a collision of fnv8.
THEOREM TakesEffectOnce == Spec => []KeyedOnce
<1>1. IInv => KeyedOnce
  <2> SUFFICES ASSUME IInv, NEW e \in done, NEW f \in done, e.nth # f.nth, Same(e.request, f.request),
                      ~(e.request.kind = "COMMAND_KIND_SAY" /\ e.at # f.at)
               PROVE  FALSE
    BY DEF KeyedOnce
  <2>1. /\ e.request \in Asked /\ e.at \in 0..MaxMinute /\ KeyOf(e.request, e.at) # <<>>
        /\ f.request \in Asked /\ f.at \in 0..MaxMinute /\ KeyOf(f.request, f.at) # <<>>
    BY DEF IInv, EffectInv, Keyed
  <2>2. KeyOf(e.request, e.at) = KeyOf(f.request, f.at)
    BY <2>1, KeysAgree
  <2> QED
    BY <2>2 DEF IInv, EffectInv
<1> QED
  BY <1>1, IInvHolds, PTL

\* And DUPLICATE always means that the same was done.
THEOREM NoneSwallowed == Spec => []NothingSwallowed
<1>1. IInv => NothingSwallowed
  <2> SUFFICES ASSUME IInv, NEW e \in told, e.answer = "DISPOSITION_DUPLICATE"
               PROVE  \E f \in done : /\ Same(e.request, f.request)
                                      /\ e.request.kind = "COMMAND_KIND_SAY" => f.at = e.at
    BY DEF NothingSwallowed
  <2>1. Keyed(e) /\ \E k \in journal : KeyOf(e.request, e.at) = <<k>>
    BY DEF IInv, EffectInv
  <2>2. PICK f \in done : KeyOf(f.request, f.at) = KeyOf(e.request, e.at) /\ KeyOf(f.request, f.at) # <<>>
    BY <2>1 DEF IInv, EffectInv
  <2>3. Keyed(f)
    BY <2>2 DEF IInv, EffectInv
  <2>4. Same(e.request, f.request) /\ (e.request.kind = "COMMAND_KIND_SAY" => e.at = f.at)
    BY <2>1, <2>2, <2>3, KeysTellApart DEF Keyed
  <2> QED
    BY <2>4
<1> QED
  BY <1>1, IInvHolds, PTL

-----------------------------------------------------------------------------
(* Handles: out clamped, back validated *)

\* A text within its limit is not clipped.
LEMMA ClipKeeps == \A t, n : Len(t) <= n => clip(t, n) = t
BY DEF clip

\* A text within a limit is within it when it is trimmed.
LEMMA TrimFits == \A t \in Text, n \in Nat : Len(t) <= n => Len(TrimSpace(t)) <= n
<1> TAKE t \in Text, n \in Nat
<1>1. TrimSpace(t) \in Text /\ Len(TrimSpace(t)) <= Len(t)
  BY TrimIs
<1>2. \A x \in Text : Len(x) \in Nat
  BY DEF Text
<1>3. Len(t) \in Nat /\ Len(TrimSpace(t)) \in Nat
  BY <1>1, <1>2
<1> QED
  BY <1>1, <1>3

\* The checks of the way back take a name that fits.
LEMMA SpawnTakes ==
    ASSUME NEW name \in Text, Len(name) <= Limit.workspaceName, TrimSpace(name) # Empty, NEW m
    PROVE  LET v == ValidCommand(Spawn, Empty, name, Empty, m) IN
           v # <<>> /\ v[1].Workspace = TrimSpace(name)
<1> DEFINE c == [ID |-> Empty, Kind |-> Spawn, SessionID |-> Empty, Workspace |-> TrimSpace(name),
                 Prompt |-> Empty]
<1>1. /\ TrimSpace(Spawn) = Spawn /\ TrimSpace(Empty) = Empty
      /\ Spawn # Compact /\ Spawn # Resume /\ Spawn # Say
  BY KindsAre
<1>2. Len(TrimSpace(name)) <= Limit.workspaceName
  <2>1. Limit.workspaceName \in Nat
    BY Limits
  <2> QED
    BY <2>1, TrimFits
<1>3. Len(Empty) <= Limit.answer
  <2>1. Limit.answer \in Nat
    BY Limits
  <2> QED
    BY <2>1 DEF Empty
<1>4. /\ c.Kind = Spawn /\ c.Workspace = TrimSpace(name) /\ c.Prompt = Empty /\ c.SessionID = Empty
  OBVIOUS
<1>5. ValidCommand(Spawn, Empty, name, Empty, m) =
        IF Wellformed(c) THEN <<[c EXCEPT !.ID = NaturalKey(c, m)]>> ELSE <<>>
  BY <1>1 DEF ValidCommand
<1>6. [c EXCEPT !.ID = NaturalKey(c, m)].Workspace = TrimSpace(name)
  OBVIOUS
<1> HIDE DEF c
<1>7. Wellformed(c)
  BY <1>1, <1>2, <1>3, <1>4 DEF Wellformed
<1> DEFINE e == [c EXCEPT !.ID = NaturalKey(c, m)]
<1>8. ValidCommand(Spawn, Empty, name, Empty, m) = <<e>>
  BY <1>5, <1>7
<1>9. e.Workspace = TrimSpace(name)
  BY <1>6
<1> HIDE DEF e
<1> QED
  BY <1>8, <1>9

\* A session id that fits.
LEMMA CompactTakes ==
    ASSUME NEW id \in Text, Len(id) <= Limit.askID, TrimSpace(id) # Empty, NEW m
    PROVE  LET v == ValidCommand(Compact, id, Empty, Empty, m) IN
           v # <<>> /\ v[1].SessionID = TrimSpace(id)
<1> DEFINE c == [ID |-> Empty, Kind |-> Compact, SessionID |-> TrimSpace(id), Workspace |-> Empty,
                 Prompt |-> Empty]
<1>1. /\ TrimSpace(Compact) = Compact /\ TrimSpace(Empty) = Empty
      /\ Compact # Spawn /\ Compact # Say
  BY KindsAre
<1>2. Len(TrimSpace(id)) <= Limit.askID
  <2>1. Limit.askID \in Nat
    BY Limits
  <2> QED
    BY <2>1, TrimFits
<1>3. /\ c.Kind = Compact /\ c.Workspace = Empty /\ c.Prompt = Empty /\ c.SessionID = TrimSpace(id)
  OBVIOUS
<1>4. ValidCommand(Compact, id, Empty, Empty, m) =
        IF Wellformed(c) THEN <<[c EXCEPT !.ID = NaturalKey(c, m)]>> ELSE <<>>
  BY <1>1 DEF ValidCommand
<1>5. [c EXCEPT !.ID = NaturalKey(c, m)].SessionID = TrimSpace(id)
  OBVIOUS
<1> HIDE DEF c
<1>6. Wellformed(c)
  BY <1>1, <1>2, <1>3 DEF Wellformed
<1> DEFINE e == [c EXCEPT !.ID = NaturalKey(c, m)]
<1>7. ValidCommand(Compact, id, Empty, Empty, m) = <<e>>
  BY <1>4, <1>6
<1>8. e.SessionID = TrimSpace(id)
  BY <1>5
<1> HIDE DEF e
<1> QED
  BY <1>7, <1>8

\* An ask id that fits, with an answer of one letter.
LEMMA AnswerTakes ==
    ASSUME NEW id \in Text, Len(id) <= Limit.askID, TrimSpace(id) # Empty
    PROVE  LET v == ValidAnswer(id, <<121>>) IN v # <<>> /\ v[1].AskID = TrimSpace(id)
<1> DEFINE a == [AskID |-> TrimSpace(id), Text |-> <<121>>]
<1>1. TrimSpace(<<121>>) = <<121>>
  <2>1. 121 \in Byte \ {Space}
    BY DEF Byte, Space
  <2> QED
    BY <2>1, TrimWord, Zenon
<1>2. Len(TrimSpace(id)) <= Limit.askID
  <2>1. Limit.askID \in Nat
    BY Limits
  <2> QED
    BY <2>1, TrimFits
<1>3. Len(TrimSpace(id)) \in Nat /\ Limit.askID \in Nat /\ Limit.answer \in Nat /\ Limit.answer > 0
  BY TrimIs, Limits, LimitsAreNatural DEF Text
<1>4. /\ a.AskID # Empty /\ ~(Len(a.AskID) > Limit.askID)
      /\ a.Text # Empty /\ ~(Len(a.Text) > Limit.answer)
  BY <1>2, <1>3 DEF Empty
<1>5. ValidAnswer(id, <<121>>) = <<a>>
  BY <1>1, <1>4 DEF ValidAnswer
<1> QED
  BY <1>5

\* The clamps of the way out and the checks of the way back agree on every
\* handle, of any snapshot and for any limits that agree on a workspace's name.
THEOREM HandlesReturn == Spec => []HandlesComeBack
<1>1. IInv => HandlesComeBack
  <2> SUFFICES ASSUME IInv PROVE HandlesComeBack
    OBVIOUS
  <2>1. ViewInv
    BY DEF IInv
  <2> DEFINE own(i) == view.own.Workspaces[i]
             Space1(i) == LET spawn == ValidCommand(Spawn, Empty, Shown[i].Name, Empty, minute) IN
                            /\ TrimSpace(Shown[i].Name) # Empty => spawn # <<>>
                            /\ Proper(own(i).Name, Limit.workspaceName) => spawn[1].Workspace = own(i).Name
             Agent1(i, j) == LET a == Shown[i].Agents[j]
                                 b == own(i).Agents[j]
                                 compact == ValidCommand(Compact, a.ID, Empty, Empty, minute)
                                 answer == ValidAnswer(a.AskID, <<121>>) IN
                             /\ TrimSpace(a.ID) # Empty => compact # <<>>
                             /\ TrimSpace(a.AskID) # Empty => answer # <<>>
                             /\ Proper(b.ID, Limit.askID) => compact[1].SessionID = b.ID
                             /\ Proper(b.AskID, Limit.askID) => answer[1].AskID = b.AskID
  <2>2. ASSUME NEW i \in DOMAIN Shown PROVE Space1(i)
    <3> DEFINE n == Shown[i].Name
               spawn == ValidCommand(Spawn, Empty, n, Empty, minute)
    <3>1. own(i) \in Workspace /\ n = clip(own(i).Name, Limit.short)
      BY <2>1, ShownIs
    <3>2. own(i).Name \in Text /\ Limit.short \in Nat /\ Limit.workspaceName = Limit.short
      BY <3>1, Limits, LimitsAreNatural DEF Workspace
    <3> HIDE DEF own
    <3>3. n \in Text /\ Len(n) <= Limit.workspaceName
      BY <3>1, <3>2, ClipFits
    <3>4. Proper(own(i).Name, Limit.workspaceName) => n = own(i).Name
      BY <3>1, <3>2, ClipKeeps DEF Proper
    <3> HIDE DEF n
    <3>5. TrimSpace(n) # Empty => spawn # <<>> /\ spawn[1].Workspace = TrimSpace(n)
      BY <3>3, SpawnTakes
    <3> HIDE DEF spawn
    <3>6. /\ TrimSpace(n) # Empty => spawn # <<>>
          /\ Proper(own(i).Name, Limit.workspaceName) => spawn[1].Workspace = own(i).Name
      BY <3>4, <3>5 DEF Proper
    <3> QED
      BY <3>6 DEF spawn, n
  <2>3. ASSUME NEW i \in DOMAIN Shown, NEW j \in DOMAIN Shown[i].Agents PROVE Agent1(i, j)
    <3> DEFINE a == Shown[i].Agents[j]
               b == own(i).Agents[j]
               compact == ValidCommand(Compact, a.ID, Empty, Empty, minute)
               answer == ValidAnswer(a.AskID, <<121>>)
    <3>1. b \in Agent /\ a.ID = clip(b.ID, Limit.askID) /\ a.AskID = clip(b.AskID, Limit.askID)
      BY <2>1, ShownIs
    <3> HIDE DEF own, a, b
    <3>2. b.ID \in Text /\ b.AskID \in Text /\ Limit.askID \in Nat
      BY <3>1, Limits DEF Agent
    <3>3. /\ a.ID \in Text /\ Len(a.ID) <= Limit.askID
          /\ a.AskID \in Text /\ Len(a.AskID) <= Limit.askID
      BY <3>1, <3>2, ClipFits
    <3>4. /\ Proper(b.ID, Limit.askID) => a.ID = b.ID
          /\ Proper(b.AskID, Limit.askID) => a.AskID = b.AskID
      BY <3>1, ClipKeeps DEF Proper
    <3>5. TrimSpace(a.ID) # Empty => compact # <<>> /\ compact[1].SessionID = TrimSpace(a.ID)
      BY <3>3, CompactTakes
    <3>6. TrimSpace(a.AskID) # Empty => answer # <<>> /\ answer[1].AskID = TrimSpace(a.AskID)
      BY <3>3, AnswerTakes
    <3> HIDE DEF compact, answer
    <3>7. /\ TrimSpace(a.ID) # Empty => compact # <<>>
          /\ TrimSpace(a.AskID) # Empty => answer # <<>>
          /\ Proper(b.ID, Limit.askID) => compact[1].SessionID = b.ID
          /\ Proper(b.AskID, Limit.askID) => answer[1].AskID = b.AskID
      BY <3>4, <3>5, <3>6 DEF Proper
    <3> QED
      BY <3>7 DEF compact, answer, a, b
  <2>4. HandlesComeBack <=> \A i \in DOMAIN Shown :
                              Space1(i) /\ \A j \in DOMAIN Shown[i].Agents : Agent1(i, j)
    BY DEF HandlesComeBack
  <2> HIDE DEF Space1, Agent1
  <2> QED
    BY <2>2, <2>3, <2>4
<1> QED
  BY <1>1, IInvHolds, PTL

-----------------------------------------------------------------------------
(* There and back unchanged *)

\* The percentage the surface shows is the machine's, or 0.
LEMMA PercentArrives == \A a \in Agent :
    LET c == ClampAgent(a)
        b == AgentFromProto(AgentToProto(c)) IN
    /\ c.CtxPct \in Int32 /\ b.CtxPct \in {0, a.CtxPct}
    /\ a.State \in {Working, NeedsInput, Quiet, Empty} => b = c
<1> TAKE a \in Agent
<1> DEFINE c == ClampAgent(a)
           b == AgentFromProto(AgentToProto(c))
           H == 2 ^ (Width - 1)
<1>1. c \in Agent /\ a.CtxPct \in Int /\ a.State \in Text
  BY AgentTyped DEF Agent
<1>2. /\ c.CtxPct = IF a.CtxPct < 0 \/ a.CtxPct > Limit.ctxPct THEN 0 ELSE a.CtxPct
      /\ c.State = clip(a.State, Limit.short)
  BY AgentIs
<1>3. H \in Nat /\ H > 0 /\ Int32 = -H .. H - 1 /\ Limit.ctxPct < H
  BY Widths
<1>4. Limit.ctxPct \in Nat /\ Limit.short \in Nat
  BY Limits
<1> HIDE DEF c, H
<1>5. c.CtxPct \in Int32 /\ c.CtxPct \in {0, a.CtxPct}
  BY <1>1, <1>2, <1>3, <1>4
<1>6. int32(c.CtxPct) = c.CtxPct
  <2>1. c.CtxPct \in Int
    BY <1>1 DEF Agent
  <2> QED
    BY <1>5, <2>1, Int32Is
<1>7. b.CtxPct = int32(c.CtxPct)
  BY <1>1, AgentCrosses
<1>8. ASSUME a.State \in {Working, NeedsInput, Quiet, Empty} PROVE b = c
  <2>1. c.State \in {Working, NeedsInput, Quiet, Empty}
    <3>1. CASE Len(a.State) <= Limit.short
      BY <1>2, <1>8, <3>1, ClipKeeps
    <3>2. CASE ~(Len(a.State) <= Limit.short)
      <4> DEFINE l == Len(a.State)
      <4>1. l = 0 \/ l = 1
        BY <1>8 DEF Working, NeedsInput, Quiet, Empty
      <4>2. ~(l <= Limit.short)
        BY <3>2
      <4> HIDE DEF l
      <4>3. Limit.short = 0
        BY <1>4, <4>1, <4>2
      <4>4. c.State \in Text /\ Len(c.State) <= 0
        BY <1>1, <1>2, <1>4, <4>3, ClipFits
      <4> QED
        BY <4>4 DEF Text, Empty
    <3> QED
      BY <3>1, <3>2
  <2> QED
    BY <1>1, <1>5, <2>1, AgentCrosses
<1> HIDE DEF b
<1>9. /\ c.CtxPct \in Int32 /\ b.CtxPct \in {0, a.CtxPct}
      /\ a.State \in {Working, NeedsInput, Quiet, Empty} => b = c
  BY <1>5, <1>6, <1>7, <1>8
<1> QED
  BY <1>9 DEF b, c

\* A status whose numbers fit and whose states are known arrives whole.
LEMMA StatusArrives ==
    ASSUME NEW s \in Status, NEW at \in Nat
    PROVE  LET c == ClampStatus(s)
               back == statusFromProto(statusToProto(c, at)) IN
           /\ Plain(s) => back = c
           /\ \A i \in DOMAIN back.Workspaces : \A j \in DOMAIN back.Workspaces[i].Agents :
                back.Workspaces[i].Agents[j].CtxPct \in {0, s.Workspaces[i].Agents[j].CtxPct}
<1> DEFINE c == ClampStatus(s)
           back == statusFromProto(statusToProto(c, at))
           Back(w) == WorkspaceFromProto(WorkspaceToProto(w))
<1>1. /\ c \in Status
      /\ \A i \in DOMAIN c.Usage : i \in DOMAIN s.Usage /\ c.Usage[i] = ClampUsage(s.Usage[i])
      /\ \A i \in DOMAIN c.Workspaces : /\ i \in DOMAIN s.Workspaces
                                        /\ c.Workspaces[i] = ClampWorkspace(s.Workspaces[i])
  BY StatusTyped
<1> HIDE DEF c
<1>2. /\ DOMAIN back.Workspaces = DOMAIN c.Workspaces
      /\ \A i \in DOMAIN c.Workspaces : back.Workspaces[i] = Back(c.Workspaces[i])
      /\ /\ \A i \in DOMAIN c.Usage : usageFromProto(usageToProto(c.Usage[i])) = c.Usage[i]
         /\ back.Workspaces = c.Workspaces
         => back = c
  BY <1>1, StatusCrosses
<1>3. /\ \A i \in DOMAIN s.Usage : s.Usage[i] \in Usage
      /\ \A i \in DOMAIN s.Workspaces : s.Workspaces[i] \in Workspace
  BY DEF Status, Pointer
<1> HIDE DEF back
<1>4. ASSUME NEW i \in DOMAIN c.Workspaces
      PROVE  LET w == s.Workspaces[i]
                 v == c.Workspaces[i]
                 b == Back(v) IN
             /\ i \in DOMAIN s.Workspaces /\ w \in Workspace /\ v \in Workspace
             /\ v.Attention = w.Attention /\ v.Agents \in Seq(Agent)
             /\ DOMAIN b.Agents = DOMAIN v.Agents
             /\ \A j \in DOMAIN v.Agents :
                  /\ j \in DOMAIN w.Agents /\ w.Agents[j] \in Agent /\ v.Agents[j] = ClampAgent(w.Agents[j])
                  /\ b.Agents[j] = AgentFromProto(AgentToProto(ClampAgent(w.Agents[j])))
             /\ v.Attention \in Int32 /\ b.Agents = v.Agents => b = v
  <2> DEFINE w == s.Workspaces[i]
             v == c.Workspaces[i]
             b == Back(v)
  <2>1. i \in DOMAIN s.Workspaces /\ w \in Workspace /\ v = ClampWorkspace(w)
    BY <1>1, <1>3
  <2> HIDE DEF w, v
  <2>2. v \in Workspace /\ v.Attention = w.Attention
    BY <2>1, WorkspaceTyped, WorkspaceIs
  <2>3. v.Agents \in Seq(Agent)
    BY <2>2 DEF Workspace
  <2>4. \A j \in DOMAIN v.Agents : j \in DOMAIN w.Agents /\ v.Agents[j] = ClampAgent(w.Agents[j])
    BY <2>1, AgentsTyped
  <2>5. \A j \in DOMAIN w.Agents : w.Agents[j] \in Agent
    BY <2>1 DEF Workspace
  <2>6. /\ DOMAIN b.Agents = DOMAIN v.Agents
        /\ \A j \in DOMAIN v.Agents : b.Agents[j] = AgentFromProto(AgentToProto(v.Agents[j]))
        /\ v.Attention \in Int32 /\ b.Agents = v.Agents => b = v
    BY <2>2, WorkspaceCrosses
  <2> HIDE DEF b
  <2>7. \A j \in DOMAIN v.Agents :
          /\ j \in DOMAIN w.Agents /\ w.Agents[j] \in Agent /\ v.Agents[j] = ClampAgent(w.Agents[j])
          /\ b.Agents[j] = AgentFromProto(AgentToProto(ClampAgent(w.Agents[j])))
    BY <2>4, <2>5, <2>6
  <2> QED
    BY <2>1, <2>2, <2>3, <2>6, <2>7 DEF w, v, b
<1>5. ASSUME NEW i \in DOMAIN back.Workspaces, NEW j \in DOMAIN back.Workspaces[i].Agents
      PROVE  back.Workspaces[i].Agents[j].CtxPct \in {0, s.Workspaces[i].Agents[j].CtxPct}
  <2>1. i \in DOMAIN c.Workspaces /\ back.Workspaces[i] = Back(c.Workspaces[i])
    BY <1>2
  <2>2. /\ s.Workspaces[i].Agents[j] \in Agent
        /\ back.Workspaces[i].Agents[j] = AgentFromProto(AgentToProto(ClampAgent(s.Workspaces[i].Agents[j])))
    <3> HIDE DEF Back
    <3> QED
      BY <1>4, <2>1
  <2> QED
    BY <2>2, PercentArrives
<1>6. ASSUME Plain(s) PROVE back = c
  <2>1. \A i \in DOMAIN c.Usage : usageFromProto(usageToProto(c.Usage[i])) = c.Usage[i]
    <3> TAKE i \in DOMAIN c.Usage
    <3> DEFINE u == s.Usage[i]
    <3>1. u \in Usage /\ c.Usage[i] = ClampUsage(u) /\ i \in DOMAIN s.Usage
      BY <1>1, <1>3
    <3>2. {u.SessionPct, u.WeekAllPct, u.WeekModelPct} \subseteq Int32
      BY <1>6, <3>1 DEF Plain
    <3> HIDE DEF u
    <3>3. ClampUsage(u) \in Usage
      BY <3>1, UsageTyped
    <3>4. /\ ClampUsage(u).SessionPct = u.SessionPct /\ ClampUsage(u).WeekAllPct = u.WeekAllPct
          /\ ClampUsage(u).WeekModelPct = u.WeekModelPct
      BY <3>1, UsageIs
    <3> QED
      BY <3>1, <3>2, <3>3, <3>4, UsageCrosses
  <2>2. ASSUME NEW i \in DOMAIN c.Workspaces PROVE Back(c.Workspaces[i]) = c.Workspaces[i]
    <3> DEFINE w == s.Workspaces[i]
               v == c.Workspaces[i]
               b == Back(v)
    <3>1. /\ i \in DOMAIN s.Workspaces /\ v.Attention = w.Attention /\ v.Agents \in Seq(Agent)
          /\ DOMAIN b.Agents = DOMAIN v.Agents
          /\ v.Attention \in Int32 /\ b.Agents = v.Agents => b = v
      <4> HIDE DEF Back
      <4> QED
        BY <1>4
    <3>2. \A j \in DOMAIN v.Agents :
            /\ j \in DOMAIN w.Agents /\ w.Agents[j] \in Agent /\ v.Agents[j] = ClampAgent(w.Agents[j])
            /\ b.Agents[j] = AgentFromProto(AgentToProto(ClampAgent(w.Agents[j])))
      <4> HIDE DEF Back
      <4> QED
        BY <1>4
    <3>3. /\ w.Attention \in Int32
          /\ \A j \in DOMAIN w.Agents : w.Agents[j].State \in {Working, NeedsInput, Quiet, Empty}
      BY <1>6, <3>1 DEF Plain
    <3>4. \A j \in DOMAIN v.Agents : b.Agents[j] = v.Agents[j]
      <4> HIDE DEF b, v, w
      <4> QED
        BY <3>2, <3>3, PercentArrives
    <3>5. b.Agents = [j \in DOMAIN v.Agents |-> b.Agents[j]] /\ v.Agents = [j \in DOMAIN v.Agents |-> v.Agents[j]]
      <4>1. b.Agents = Each(AgentFromProto, WorkspaceToProto(v).Agents)
        <5>1. WorkspaceToProto(v) \in WireWorkspace
          <6>1. v \in Workspace
            <7> HIDE DEF Back
            <7> QED
              BY <1>4
          <6> QED
            BY <6>1, WorkspaceCrosses
        <5>2. WorkspaceToProto(v) = [Name |-> WorkspaceToProto(v).Name, Branch |-> WorkspaceToProto(v).Branch,
                                     Attention |-> WorkspaceToProto(v).Attention,
                                     Agents |-> WorkspaceToProto(v).Agents]
          BY <5>1 DEF WireWorkspace
        <5> DEFINE p == WorkspaceToProto(v)
        <5> HIDE DEF p
        <5> QED
          BY <5>2 DEF WorkspaceFromProto, p
      <4> QED
        BY <3>1, <4>1 DEF Each
    <3> HIDE DEF b, v, w
    <3>6. b.Agents = v.Agents
      BY <3>4, <3>5
    <3> QED
      BY <3>1, <3>3, <3>6 DEF b, v
  <2>3. back.Workspaces = c.Workspaces
    <3>1. \A i \in DOMAIN c.Workspaces : back.Workspaces[i] = c.Workspaces[i]
      BY <1>2, <2>2
    <3>2. /\ back.Workspaces = [i \in DOMAIN back.Workspaces |-> back.Workspaces[i]]
          /\ c.Workspaces = [i \in DOMAIN c.Workspaces |-> c.Workspaces[i]]
      BY <1>1 DEF back, statusFromProto, Each, Status
    <3> QED
      BY <1>2, <3>1, <3>2
  <2> QED
    BY <1>2, <2>1, <2>3
<1> QED
  BY <1>5, <1>6 DEF back, c

\* "any clamped projection survives the wire shape unchanged" (convert_test),
\* for every snapshot, frame and digest and not only for the test's.
THEOREM WholeArrives == Spec => []ArrivesWhole
<1>1. IInv => ArrivesWhole
  <2> SUFFICES ASSUME IInv PROVE ArrivesWhole
    OBVIOUS
  <2>1. ASSUME view.what = "status"
        PROVE  LET own == view.own
                   shown == statusFromProto(view.wire) IN
               /\ Plain(own) => shown = ClampStatus(own)
               /\ \A i \in DOMAIN shown.Workspaces :
                    \A j \in DOMAIN shown.Workspaces[i].Agents :
                      shown.Workspaces[i].Agents[j].CtxPct
                        \in {0, own.Workspaces[i].Agents[j].CtxPct}
    <3>1. view.own \in Status
      BY <2>1 DEF IInv, ViewInv
    <3>2. PICK at \in 0..MaxMinute : view.wire = statusToProto(ClampStatus(view.own), at)
      BY <2>1 DEF IInv, ViewInv
    <3>3. at \in Nat
      BY RailsConstants
    <3> QED
      BY <3>1, <3>2, <3>3, StatusArrives
  <2>2. ASSUME view.what = "pane", {view.own.CursorX, view.own.CursorY} \subseteq Int32
        PROVE  paneFromProto(view.wire) = ClampPane(view.own)
    <3> DEFINE f == view.own
               c == ClampPane(f)
    <3>1. f \in PaneFrame /\ view.wire = paneToProto(c)
      BY <2>2 DEF IInv, ViewInv
    <3>2. f.CursorX \in Int32 /\ f.CursorY \in Int32
      BY <2>2
    <3>3. /\ c \in PaneFrame /\ c.Cols \in Uint32 /\ c.Rows \in Uint32
          /\ c.CursorX \in Uint32 /\ c.CursorY \in Uint32
      BY <3>1, <3>2, PaneTyped
    <3> HIDE DEF c
    <3>4. {c.Cols, c.Rows, c.CursorX, c.CursorY} \subseteq Uint32
      BY <3>3
    <3> QED
      BY <3>1, <3>3, <3>4, PaneCrosses DEF c
  <2>3. ASSUME view.what = "digest" PROVE digestFromProto(view.wire) = ClampDigest(view.own)
    <3>1. view.own \in Digest /\ view.wire = digestToProto(ClampDigest(view.own))
      BY <2>3 DEF IInv, ViewInv
    <3>2. ClampDigest(view.own) \in Digest
      BY <3>1, DigestTyped
    <3> QED
      BY <3>1, <3>2, DigestCrosses
  <2> QED
    BY <2>1, <2>2, <2>3 DEF ArrivesWhole
<1> QED
  BY <1>1, IInvHolds, PTL
====
