------------------------------- MODULE NsList -------------------------------
(***************************************************************************)
(* The sorted list of events (list-scheduler.cc): inserted before the      *)
(* first event it precedes, removed by unique id.                          *)
(***************************************************************************)
EXTENDS NsEvents, Sequences, SequencesExt

Precedes(a, b) == Before(a, b)

Insert(l, e) ==
  LET after == SelectInSeq(l, LAMBDA f : Precedes(e, f))
  IN  IF after = 0 THEN Append(l, e) ELSE InsertAt(l, after, e)

PeekNext(l) == Head(l)
RemoveNext(l) == Tail(l)
RemoveEvent(l, e) == RemoveAt(l, SelectInSeq(l, LAMBDA f : f.uid = e.uid))

=============================================================================
