SPECIFICATION Spec
CONSTANTS
  u1 = u1
  o1 = o1
  o2 = o2
  Users = {u1}
  Orders = {o1}
  Owner <- OwnerOf
  PlanOf <- PlansOf
  Plans = {"go", "pro"}
  EventTypes = {"payment.succeeded", "payment.failed", "payment.cancelled", "payment.refunded"}
  Copies = {"named", "bare"}
PROPERTY EveryPaidStaysPaid
