-------------------------- MODULE MCReaderCommands --------------------------
(***************************************************************************)
(* A small instance of ReaderCommands: three commands, each with a few     *)
(* contents chosen so that every kind meets every other.                   *)
(***************************************************************************)
EXTENDS ReaderCommands

CONSTANTS c1, c2, c3, tag, p1

Write(kind, arg, expected, seen) ==
    [kind |-> kind, arg |-> arg, expected |-> expected, seen |-> seen]

MCWritesOf == [c \in Commands |->
    CASE c = c1 -> {Write("add_tag", tag, 0, 0), Write("mark_read", tag, 0, 0),
                    Write("request_asset_acquisition", "cache", 0, 0),
                    Write("update_curated_note", "text", 0, 0), Write("route", "r", 0, 0)}
      [] c = c2 -> {Write("remove_tag", tag, e, 0) : e \in 0..2}
                    \cup {Write("request_asset_acquisition", "mirror", 0, 0),
                          Write("materialize", "d", 0, 0), Write("materialize", "d", 1, 0),
                          Write("set_reading_progress", p1, 0, 0),
                          Write("update_curated_note", "other", 0, 1)}
      [] c = c3 -> {Write("add_tag", tag, 0, 0), Write("append_capture_note", "a", 0, 0),
                    Write("request_asset_acquisition", "adopted", 0, 0),
                    Write("mark_unread", tag, 1, 0), Write("set_reading_progress", p1, 1, 0)}]
=============================================================================
