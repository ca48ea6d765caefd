---------------------------- MODULE MCRequestBody ----------------------------
\* Requests in the two form formats, for a selector that a pin leads to.
EXTENDS RequestBody

MCForms ==
  {[post |-> TRUE, upload |-> c = "multipart", ctype |-> c, is |-> c, body |-> b, query |-> NoName,
    size |-> "fits", tailcat |-> FALSE, form |-> Unparsed] :
     c \in {"multipart", "form"}, b \in {[model |-> "pub"], [model |-> "alias", n |-> "1"]}}
MCPins == [pub |-> "sel"]
MCSelectorOf == [sel |-> "alias"]
MCRealName == [alias |-> "m", m |-> "m"]
MCUseModelName == [m |-> ""]
MCNoFilters == <<>>
=============================================================================
