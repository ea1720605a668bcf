SPECIFICATION MCSpec

  
  
PROPERTIES
  
  
  QueueLeaves
CHECK_DEADLOCK FALSE
