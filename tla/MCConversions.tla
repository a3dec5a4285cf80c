---------------------------- MODULE MCConversions ----------------------------
(* Converters with the documents, answers and packages they are given.     *)
EXTENDS Converters, MCSlides, MCDecks, MCPdf, MCXml, MCMarkdown, MCLists, MCGlyphs
==============================================================================
