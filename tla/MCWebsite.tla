----------------------------- MODULE MCWebsite -----------------------------
(* The public pages for TLC, each with as much as is clicked on it. *)
EXTENDS Website

MCMaxClicks == [p \in SitePages |-> 
    CASE p = "guide" -> 6
      [] p = "viewer" -> 5
      [] p = "search" -> 2
      [] p \in {"panel", "server", "table", "push", "consent"} -> 3
      [] OTHER -> 4]
MCTries == [p \in SitePages |-> IF p = "comments" THEN 2 ELSE 1]
MCLosses == [p \in SitePages |-> 
    CASE p = "comments" -> 2
      [] p \in {"guide", "table", "maps", "push", "consent", "search"} -> 1
      [] OTHER -> 0]

MCRanges == {"all", "1month", "1day"}
(* Times of the radar are half minutes, and the page opens within one. *)
MCSpan == [r \in {"1month", "1day"} |-> IF r = "1month" THEN 8 ELSE 4]
MCOptions == [r \in MCRanges |-> CASE r = "all"    -> <<2, 4, 6>>
                                   [] r = "1month" -> <<2, 4>>
                                   [] OTHER        -> <<2>>]
MCToday == <<1, 2>>
=============================================================================
