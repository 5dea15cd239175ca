----------------------------- MODULE MCShutdown -----------------------------
(* Two requests and three goroutines at once are enough for one to return    *)
(* while the other keeps its phase waiting.  With pages of one row, a list   *)
(* of three rows can get its last one between the first page and the next.   *)
EXTENDS ActivityLog

CONSTANTS r1, r2, r3

MCWorkloads == {{"job", "leave", "day"}, {"job", "leave", r1, r2},
                {"job", "pages"}, {"pages", r1, r2, r3}}
=============================================================================
