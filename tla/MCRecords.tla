----------------------------- MODULE MCRecords -----------------------------
(***************************************************************************)
(* Instances of Records for TLC: one event with two items that share an    *)
(* attachment.  Event version x1 names them all; x2 gives item i1 a new    *)
(* title and i2 none; xb cannot be read at i2, before or after it is       *)
(* stored; xu is no JSON; xr names an agenda file but has no usable items. *)
(* The attachment version h1 is no PDF.                                    *)
(***************************************************************************)
EXTENDS Records, TLC

CONSTANTS e1, i1, i2, a1, x1, x2, xb, xu, xr, g1, g2, gu, p1, p2, h1, T1, T2

MCHome == [i \in Items |-> e1]
MCVersions == {x1, x2, xb, xu, xr, g1, g2, gu, p1, p2, h1}

Cap(t, s, v) == [target |-> t, status |-> s, body |-> v]
EventCaptures == {Cap(<<"event", e1>>, "ok", v) : v \in {x1, x2, xb, xu, xr}}
AgendaCaptures ==
  {Cap(<<"agenda", e1>>, "ok", v) : v \in {g1, g2}} \cup {Cap(<<"agenda", e1>>, "failed", gu)}
AttachmentCaptures ==
  {Cap(<<"attachment", a1>>, "ok", v) : v \in {p1, p2, h1}} \cup {Cap(<<"attachment", a1>>, "failed", p1)}
AllCaptures == EventCaptures \cup AgendaCaptures \cup AttachmentCaptures

ByVersion(f, default) == [v \in MCVersions |-> IF v \in DOMAIN f THEN f[v] ELSE default]

MCStored == ByVersion((x1 :> {i1, i2}) @@ (x2 :> {i1, i2}) @@ (xb :> {i1}), {})
MCRaised == ByVersion(xb :> {i2}, {})
MCTitle == ByVersion(
  (x1 :> (i1 :> T1 @@ i2 :> T1)) @@ (x2 :> (i1 :> T2 @@ i2 :> NoTitle)) @@ (xb :> (i1 :> T1 @@ i2 :> T2)),
  [i \in Items |-> NoTitle])
MCValue == ByVersion(
  (x1 :> (i1 :> 1 @@ i2 :> 0)) @@ (x2 :> (i1 :> 0 @@ i2 :> NoValue)) @@ (xb :> (i1 :> 2 @@ i2 :> 1)),
  [i \in Items |-> NoValue])
MCMapping == (1 :> "consent") @@ (0 :> "regular")
MCFiles == ByVersion(
  (x1 :> [i \in Items |-> {a1}]) @@ (x2 :> (i1 :> {} @@ i2 :> {a1})) @@ (xb :> (i1 :> {a1} @@ i2 :> {})),
  [i \in Items |-> {}])
MCClassify == ByVersion(
  (g1 :> (T1 :> "consent" @@ T2 :> "regular")) @@ (g2 :> (T1 :> "regular" @@ T2 :> "cannot_determine")),
  (T1 :> "cannot_determine" @@ T2 :> "cannot_determine"))
=============================================================================
