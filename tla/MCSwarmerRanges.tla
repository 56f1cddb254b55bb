--------------------------- MODULE MCSwarmerRanges ---------------------------
EXTENDS SwarmerRanges

TwoUploaders == {"a", "b"}
Whole == [bitv |-> TRUE, from |-> 0, to |-> FileSize]
Span(x, y) == [bitv |-> FALSE, from |-> x, to |-> y]

OneUploader == {"a"}
OnePos == <<0>>
OneRangeSize == [u \in OneUploader |-> 3]
OneOffer == [u \in OneUploader |-> {Span(0, FileSize)}]

MCPos == <<0, 3>>
MCRangeSize == [u \in TwoUploaders |-> 2]
MCOffers == [a |-> {Whole}, b |-> {Span(1, 3)}]
=============================================================================
