SPECIFICATION Spec
INVARIANTS PdfTextIsKept PdfBlocksAreComplete AuditIsExact RetrievalIsSound OfficeTextIsKept KnowledgeIsSound
CHECK_DEADLOCK FALSE
